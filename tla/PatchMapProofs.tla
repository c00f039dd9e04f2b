--------------------------- MODULE PatchMapProofs ---------------------------
(***************************************************************************)
(* Proofs about PatchMap: the registry, the keyframes' lists and the grid  *)
(* stay in step, a plan's replacements stay in the map, and associations   *)
(* follow what is replaced, for any world, keyframes and loops.            *)
(***************************************************************************)
EXTENDS PatchMap, FiniteSetTheorems, SequenceTheorems, TLAPS

(***************************************************************************)
(* Induction over the natural numbers, as a fact about a set of them.      *)
(***************************************************************************)
LEMMA AllNaturals ==
    ASSUME NEW T, 0 \in T, \A i \in Nat : i \in T => i + 1 \in T
    PROVE  Nat \subseteq T
<1>1. SUFFICES ASSUME Nat \ T # {}
               PROVE  FALSE
    OBVIOUS
<1>2. PICK i \in Nat \ T : \A j \in Nat \ T : <<j, i>> \notin OpToRel(<, Nat)
    BY <1>1, WFMin, NatLessThanWellFounded, Zenon
<1>3. i # 0 /\ i - 1 \in Nat /\ (i - 1) + 1 = i
    OBVIOUS
<1>4. i - 1 \notin T
    BY <1>3
<1>5. <<i - 1, i>> \in OpToRel(<, Nat)
    BY <1>3 DEF OpToRel
<1> QED
    BY <1>2, <1>3, <1>4, <1>5

(***************************************************************************)
(* Buckets.                                                                *)
(***************************************************************************)

\* A bucket that holds the patches S, once each, at the places its index gives.
BucketHolds(bucket, S) ==
    /\ bucket = [patches |-> bucket.patches, index |-> bucket.index]
    /\ bucket.patches \in Seq(S)
    /\ bucket.index \in [S -> 1 .. Len(bucket.patches)]
    /\ \A i \in 1 .. Len(bucket.patches) : bucket.index[bucket.patches[i]] = i
    /\ \A p \in S : bucket.patches[bucket.index[p]] = p

\* A new bucket holds nothing.
LEMMA NothingHeld == BucketHolds(EmptyBucket, {})
<1>1. EmptyBucket.patches = <<>> /\ EmptyBucket.index = <<>>
    BY DEF EmptyBucket
<1>2. <<>> \in Seq({}) /\ Len(<<>>) = 0
    OBVIOUS
<1>3. <<>> \in [{} -> 1 .. 0]
    OBVIOUS
<1> QED
    BY <1>1, <1>2, <1>3 DEF BucketHolds, EmptyBucket

\* An insertion adds the patch at the end.
LEMMA Inserted ==
    ASSUME NEW bucket, NEW S, NEW p, BucketHolds(bucket, S), p \notin S
    PROVE  BucketHolds(BucketInsert(bucket, p), S \cup {p})
<1> DEFINE seq == bucket.patches
           longer == Append(seq, p)
           places == With(bucket.index, p, Len(seq) + 1)
<1>0. DOMAIN bucket.index = S
    BY DEF BucketHolds
<1>1. seq \in Seq(S \cup {p}) /\ Len(seq) \in Nat
    BY DEF BucketHolds
<1>2. /\ longer \in Seq(S \cup {p}) /\ Len(longer) = Len(seq) + 1
      /\ \A i \in 1 .. Len(seq) : longer[i] = seq[i]
      /\ longer[Len(seq) + 1] = p
    BY <1>1
<1>4. places = [q \in S \cup {p} |-> IF q = p THEN Len(seq) + 1 ELSE bucket.index[q]]
    BY <1>0 DEF With
<1>3. /\ DOMAIN places = S \cup {p}
      /\ \A q \in S : places[q] = bucket.index[q]
      /\ places[p] = Len(seq) + 1
  <2> HIDE DEF places
  <2> QED
    BY <1>4
<1>5. \A q \in S : places[q] \in 1 .. Len(seq)
    BY <1>3 DEF BucketHolds
<1>6. places \in [S \cup {p} -> 1 .. Len(longer)]
    BY <1>1, <1>2, <1>3, <1>4, <1>5
<1>7. \A i \in 1 .. Len(longer) : places[longer[i]] = i
  <2>1. \A i \in 1 .. Len(seq) : seq[i] \in S /\ bucket.index[seq[i]] = i
    BY DEF BucketHolds
  <2> QED
    BY <1>1, <1>2, <1>3, <2>1
<1>8. \A q \in S \cup {p} : longer[places[q]] = q
    BY <1>1, <1>2, <1>3, <1>5 DEF BucketHolds
<1>9. BucketInsert(bucket, p) = [patches |-> longer, index |-> places]
    BY <1>0 DEF BucketInsert
<1> HIDE DEF longer, places, seq
<1> QED
    BY <1>2, <1>6, <1>7, <1>8, <1>9, SMTT(30) DEF BucketHolds

\* An erasure puts the last patch in the place of the one erased.
LEMMA Erased ==
    ASSUME NEW bucket, NEW S, NEW p \in S, BucketHolds(bucket, S)
    PROVE  BucketHolds(BucketErase(bucket, p), S \ {p})
<1> DEFINE seq == bucket.patches
           idx == bucket.index[p]
           last == Len(seq)
           mover == seq[last]
           filled == [seq EXCEPT ![idx] = mover]
           shorter == SubSeq(filled, 1, last - 1)
           places == [q \in S \ {p} |-> [bucket.index EXCEPT ![mover] = idx][q]]
<1>1. /\ last \in Nat /\ idx \in 1 .. last /\ last \in 1 .. last /\ seq[idx] = p
      /\ \A i \in 1 .. last : seq[i] \in S /\ bucket.index[seq[i]] = i
      /\ \A q \in S : bucket.index[q] \in 1 .. last /\ seq[bucket.index[q]] = q
      /\ DOMAIN seq = 1 .. last /\ DOMAIN bucket.index = S
    BY DEF BucketHolds
<1>2. /\ DOMAIN filled = 1 .. last
      /\ \A i \in 1 .. last : filled[i] = IF i = idx THEN mover ELSE seq[i]
    BY <1>1
<1>3. \A i \in 1 .. last - 1 : filled[i] \in S \ {p}
  <2>1. TAKE i \in 1 .. last - 1
  <2>2. CASE i = idx
    BY <1>1, <1>2, <2>2
  <2>3. CASE i # idx
    BY <1>1, <1>2, <2>3
  <2> QED
    BY <2>2, <2>3
<1>4. /\ shorter \in Seq(S \ {p}) /\ Len(shorter) = last - 1
      /\ \A i \in 1 .. last - 1 : shorter[i] = filled[i]
  <2>1. /\ shorter \in Seq(S \ {p})
        /\ Len(shorter) = IF 1 <= last - 1 THEN (last - 1) - 1 + 1 ELSE 0
        /\ \A i \in 1 .. (last - 1) - 1 + 1 : shorter[i] = filled[1 + i - 1]
    <3>1. last - 1 \in Int /\ 1 \in Int
      BY <1>1
    <3> HIDE DEF filled, last
    <3> QED
      BY <1>3, <3>1, SubSeqProperties
  <2> HIDE DEF shorter, filled, last
  <2> QED
    BY <1>1, <2>1
<1>5. \A q \in S \ {p} : places[q] = IF q = mover THEN idx ELSE bucket.index[q]
    BY <1>1
<1>6. \A q \in S \ {p} : places[q] \in 1 .. last - 1 /\ shorter[places[q]] = q
  <2>1. TAKE q \in S \ {p}
  <2>2. CASE q = mover
    <3>1. idx # last
      BY <1>1, <2>2
    <3> QED
      BY <1>1, <1>2, <1>4, <1>5, <2>2, <3>1
  <2>3. CASE q # mover
    <3>1. bucket.index[q] \in 1 .. last /\ bucket.index[q] # last /\ bucket.index[q] # idx
      BY <1>1, <2>3
    <3> QED
      BY <1>1, <1>2, <1>4, <1>5, <2>3, <3>1
  <2> QED
    BY <2>2, <2>3
<1>7. \A i \in 1 .. last - 1 : places[shorter[i]] = i
  <2>1. TAKE i \in 1 .. last - 1
  <2>2. CASE i = idx
    BY <1>1, <1>2, <1>3, <1>4, <1>5, <2>2
  <2>3. CASE i # idx
    BY <1>1, <1>2, <1>3, <1>4, <1>5, <2>3, SMTT(30)
  <2> QED
    BY <2>2, <2>3
<1>8. places \in [S \ {p} -> 1 .. last - 1]
    BY <1>6
<1>9. BucketErase(bucket, p) = [patches |-> shorter, index |-> places]
    BY <1>1 DEF BucketErase, Restrict
<1> HIDE DEF shorter, places, last
<1> QED
    BY <1>4, <1>6, <1>7, <1>8, <1>9 DEF BucketHolds

(***************************************************************************)
(* The grid.                                                               *)
(***************************************************************************)

\* The patches that are to be found in a cell, when cells[p] are those of p.
Within(cells, c) == {p \in DOMAIN cells : c \in cells[p]}

\* Every patch is filed in its cells and nowhere else.
Filed(grid, cells) ==
    /\ grid = [c \in DOMAIN grid |-> grid[c]]
    /\ \A c \in DOMAIN grid : Within(cells, c) # {} /\ BucketHolds(grid[c], Within(cells, c))
    /\ \A p \in DOMAIN cells : cells[p] \subseteq DOMAIN grid

\* A patch taken out of its cells is in none.
LEMMA TakenOut ==
    ASSUME NEW grid, NEW cells, Filed(grid, cells),
           NEW p \in DOMAIN cells
    PROVE  Filed(GridErase(grid, p, cells[p]), [cells EXCEPT ![p] = {}])
<1> DEFINE rest == [cells EXCEPT ![p] = {}]
           left(c) == IF c \in cells[p] THEN BucketErase(grid[c], p) ELSE grid[c]
           kept == {c \in DOMAIN grid : c \in cells[p] => left(c).patches # <<>>}
           after == [c \in kept |-> left(c)]
<1>1. GridErase(grid, p, cells[p]) = after
    BY DEF GridErase
<1>2. \A c : Within(rest, c) = Within(cells, c) \ {p}
    BY DEF Within
<1>3. \A c \in DOMAIN grid : BucketHolds(left(c), Within(rest, c))
  <2>1. TAKE c \in DOMAIN grid
  <2>2. BucketHolds(grid[c], Within(cells, c))
    BY DEF Filed
  <2>3. CASE c \in cells[p]
    <3>1. p \in Within(cells, c)
      BY <2>3 DEF Within
    <3>2. BucketHolds(BucketErase(grid[c], p), Within(cells, c) \ {p})
      BY <2>2, <3>1, Erased
    <3> QED
      BY <1>2, <2>3, <3>2
  <2>4. CASE c \notin cells[p]
    <3>1. Within(cells, c) \ {p} = Within(cells, c)
      BY <2>4 DEF Within
    <3> QED
      BY <1>2, <2>2, <2>4, <3>1
  <2> QED
    BY <2>3, <2>4
<1>4. \A c \in DOMAIN grid : left(c).patches # <<>> <=> Within(rest, c) # {}
  <2>1. TAKE c \in DOMAIN grid
  <2> DEFINE bucket == left(c)
             S == Within(rest, c)
  <2>2. BucketHolds(bucket, S)
    BY <1>3
  <2> HIDE DEF bucket, S
  <2>3. bucket.patches \in Seq(S) /\ bucket.index \in [S -> 1 .. Len(bucket.patches)]
    BY <2>2 DEF BucketHolds
  <2>4. ASSUME S = {}
        PROVE  bucket.patches = <<>>
    BY <2>3, <2>4
  <2>5. ASSUME bucket.patches = <<>>
        PROVE  S = {}
    BY <2>3, <2>5
  <2>6. bucket.patches # <<>> <=> S # {}
    BY <2>4, <2>5
  <2> QED
    BY <2>6 DEF bucket, S
<1>5. \A c \in DOMAIN grid : c \notin cells[p] => Within(rest, c) # {}
  <2>1. TAKE c \in DOMAIN grid
  <2>2. HAVE c \notin cells[p]
  <2>3. Within(cells, c) # {} /\ p \notin Within(cells, c)
    BY <2>2 DEF Filed, Within
  <2> QED
    BY <1>2, <2>3
<1> HIDE DEF left, rest
<1>6. \A c \in kept : Within(rest, c) # {} /\ BucketHolds(after[c], Within(rest, c))
    BY <1>3, <1>4, <1>5
<1>7. \A q \in DOMAIN rest : rest[q] \subseteq kept
  <2>1. SUFFICES ASSUME NEW q \in DOMAIN rest, NEW c \in rest[q]
                 PROVE  c \in kept
    OBVIOUS
  <2>2. q # p /\ q \in DOMAIN cells /\ rest[q] = cells[q]
    BY <2>1 DEF rest
  <2>3. c \in DOMAIN grid
    BY <2>1, <2>2 DEF Filed
  <2>4. Within(rest, c) # {}
    BY <2>1 DEF Within
  <2> QED
    BY <1>4, <2>3, <2>4
<1>8. after = [c \in DOMAIN after |-> after[c]] /\ DOMAIN after = kept
    OBVIOUS
<1> HIDE DEF kept, after
<1>9. Filed(after, rest)
    BY <1>6, <1>7, <1>8 DEF Filed
<1> QED
    BY <1>1, <1>9 DEF rest

\* A patch of no cell put in is filed in its cells.
LEMMA PutIn ==
    ASSUME NEW grid, NEW cells, Filed(grid, cells),
           NEW p \in DOMAIN cells, cells[p] = {}, NEW reached
    PROVE  Filed(GridInsert(grid, p, reached), [cells EXCEPT ![p] = reached])
<1> DEFINE more == [cells EXCEPT ![p] = reached]
           bucket(c) == IF c \in DOMAIN grid THEN grid[c] ELSE EmptyBucket
           after == [c \in DOMAIN grid \cup reached |->
                        IF c \in reached THEN BucketInsert(bucket(c), p) ELSE bucket(c)]
<1>1. GridInsert(grid, p, reached) = after
    BY DEF GridInsert
<1>2. \A c : p \notin Within(cells, c)
    BY DEF Within
<1>3. \A c \in reached : Within(more, c) = Within(cells, c) \cup {p}
    BY DEF Within
<1>4. \A c : c \notin reached => Within(more, c) = Within(cells, c)
    BY DEF Within
<1>5. \A c \in DOMAIN grid \cup reached : BucketHolds(bucket(c), Within(cells, c))
  <2>1. TAKE c \in DOMAIN grid \cup reached
  <2>2. CASE c \in DOMAIN grid
    BY <2>2 DEF Filed
  <2>3. CASE c \notin DOMAIN grid
    <3>1. Within(cells, c) = {}
      BY <2>3 DEF Filed, Within
    <3> QED
      BY <2>3, <3>1, NothingHeld
  <2> QED
    BY <2>2, <2>3
<1>6. \A c \in DOMAIN grid \cup reached : Within(more, c) # {} /\ BucketHolds(after[c], Within(more, c))
  <2>1. TAKE c \in DOMAIN grid \cup reached
  <2>2. CASE c \in reached
    <3>1. BucketHolds(BucketInsert(bucket(c), p), Within(cells, c) \cup {p})
      BY <1>2, <1>5, Inserted
    <3> QED
      BY <1>3, <2>2, <3>1
  <2>3. CASE c \notin reached
    <3>1. Within(cells, c) # {}
      BY <2>3 DEF Filed
    <3> QED
      BY <1>4, <1>5, <2>3, <3>1
  <2> QED
    BY <2>2, <2>3
<1>7. \A q \in DOMAIN more : more[q] \subseteq DOMAIN grid \cup reached
    BY DEF Filed
<1>8. after = [c \in DOMAIN after |-> after[c]] /\ DOMAIN after = DOMAIN grid \cup reached
    OBVIOUS
<1> HIDE DEF after, more
<1>9. Filed(after, more)
    BY <1>6, <1>7, <1>8 DEF Filed
<1> QED
    BY <1>1, <1>9 DEF more

\* One step of Refiled.
Refile(grid, from, to, p) ==
    IF from[p] = to[p] THEN grid ELSE GridInsert(GridErase(grid, p, from[p]), p, to[p])

\* Refiled takes one step after the other.
RefiledBy(f, grid, from, to, n) ==
    f = [p \in 0 .. n |-> IF p = 0 THEN grid ELSE Refile(f[p - 1], from, to, p)]

LEMMA RefilingExists ==
    ASSUME NEW grid, NEW from, NEW to
    PROVE  \A n \in Nat : \E f : RefiledBy(f, grid, from, to, n)
<1> DEFINE T == {n \in Nat : \E f : RefiledBy(f, grid, from, to, n)}
<1>1. 0 \in T
  <2> DEFINE f == [p \in 0 .. 0 |-> grid]
  <2>1. f = [p \in 0 .. 0 |-> IF p = 0 THEN grid ELSE Refile(f[p - 1], from, to, p)]
    OBVIOUS
  <2> HIDE DEF f
  <2> QED
    BY <2>1 DEF RefiledBy
<1>2. ASSUME NEW i \in Nat, i \in T
      PROVE  i + 1 \in T
  <2>1. PICK f : RefiledBy(f, grid, from, to, i)
    BY <1>2
  <2> DEFINE g == [p \in 0 .. i + 1 |-> IF p = i + 1 THEN Refile(f[i], from, to, p) ELSE f[p]]
  <2>2. \A p \in 0 .. i : f[p] = IF p = 0 THEN grid ELSE Refile(f[p - 1], from, to, p)
    BY <2>1 DEF RefiledBy
  <2>3. \A p \in 0 .. i : g[p] = f[p]
    BY <1>2
  <2>4. g[i + 1] = Refile(f[i], from, to, i + 1)
    BY <1>2
  <2>5. \A p \in 0 .. i + 1 : g[p] = IF p = 0 THEN grid ELSE Refile(g[p - 1], from, to, p)
    <3>1. TAKE p \in 0 .. i + 1
    <3>2. CASE p = i + 1
      <4>1. i \in 0 .. i /\ p # 0 /\ p - 1 = i
        BY <1>2, <3>2
      <4>2. g[p - 1] = f[i]
        BY <2>3, <4>1
      <4> HIDE DEF g
      <4> QED
        BY <2>4, <3>2, <4>1, <4>2
    <3>3. CASE p # i + 1
      <4>1. p \in 0 .. i /\ (p # 0 => p - 1 \in 0 .. i)
        BY <1>2, <3>3
      <4> HIDE DEF g
      <4> QED
        BY <2>2, <2>3, <4>1
    <3> QED
      BY <3>2, <3>3
  <2>6. g = [p \in 0 .. i + 1 |-> g[p]]
    OBVIOUS
  <2> HIDE DEF g
  <2>7. g = [p \in 0 .. i + 1 |-> IF p = 0 THEN grid ELSE Refile(g[p - 1], from, to, p)]
    BY <2>5, <2>6
  <2> QED
    BY <1>2, <2>7 DEF RefiledBy
<1>3. Nat \subseteq T
  <2> HIDE DEF T
  <2> QED
    BY <1>1, <1>2, AllNaturals
<1> QED
    BY <1>3

LEMMA RefiledSteps ==
    ASSUME NEW grid, NEW from, NEW to, NEW n \in Nat
    PROVE  \E f : RefiledBy(f, grid, from, to, n) /\ Refiled(grid, from, to, n) = f[n]
<1> DEFINE f == CHOOSE g : RefiledBy(g, grid, from, to, n)
<1>1. RefiledBy(f, grid, from, to, n)
    BY RefilingExists
<1>2. Refiled(grid, from, to, n) = f[n]
    BY DEF Refiled, RefiledBy, Refile
<1> QED
    BY <1>1, <1>2

\* A patch whose cells change is filed in the new ones, and only there.
LEMMA RefileExact ==
    ASSUME NEW grid, NEW cells, Filed(grid, cells), NEW p \in DOMAIN cells, NEW from, NEW to,
           from[p] = cells[p]
    PROVE  Filed(Refile(grid, from, to, p), [cells EXCEPT ![p] = to[p]])
<1>1. CASE from[p] = to[p]
  <2>1. ASSUME cells = [q \in DOMAIN cells |-> cells[q]]
        PROVE  [cells EXCEPT ![p] = to[p]] = cells
    BY <1>1, <2>1
  <2>2. \A q \in DOMAIN cells : [cells EXCEPT ![p] = to[p]][q] = cells[q]
    BY <1>1
  <2>3. \A c : Within([cells EXCEPT ![p] = to[p]], c) = Within(cells, c)
    BY <2>2 DEF Within
  <2> QED
    BY <1>1, <2>2, <2>3 DEF Filed, Refile
<1>2. CASE from[p] # to[p]
  <2> DEFINE none == [cells EXCEPT ![p] = {}]
  <2>1. Filed(GridErase(grid, p, from[p]), none)
    BY TakenOut
  <2>2. p \in DOMAIN none /\ none[p] = {}
    OBVIOUS
  <2>3. [none EXCEPT ![p] = to[p]] = [cells EXCEPT ![p] = to[p]]
    OBVIOUS
  <2> HIDE DEF none
  <2>4. Filed(GridInsert(GridErase(grid, p, from[p]), p, to[p]), [none EXCEPT ![p] = to[p]])
    BY <2>1, <2>2, PutIn
  <2> QED
    BY <1>2, <2>3, <2>4 DEF Refile
<1> QED
    BY <1>1, <1>2

\* When some patches have got other cells, every patch is filed in its own.
LEMMA RefiledExact ==
    ASSUME NEW grid, NEW n \in Nat, NEW from, NEW to, Filed(grid, from),
           from = [p \in 1 .. n |-> from[p]], to = [p \in 1 .. n |-> to[p]]
    PROVE  Filed(Refiled(grid, from, to, n), to)
<1>0. \E f : RefiledBy(f, grid, from, to, n) /\ Refiled(grid, from, to, n) = f[n]
    BY ONLY n \in Nat, RefiledSteps
<1>1. PICK f : RefiledBy(f, grid, from, to, n) /\ Refiled(grid, from, to, n) = f[n]
    BY <1>0
<1>2. \A p \in 0 .. n : f[p] = IF p = 0 THEN grid ELSE Refile(f[p - 1], from, to, p)
    BY <1>1 DEF RefiledBy
<1> DEFINE cells(i) == [p \in 1 .. n |-> IF p <= i THEN to[p] ELSE from[p]]
           T == {i \in Nat : i <= n => Filed(f[i], cells(i))}
<1>3. 0 \in T
  <2>1. cells(0) = from
    OBVIOUS
  <2>2. f[0] = grid
    BY <1>2
  <2> HIDE DEF cells
  <2> QED
    BY <2>1, <2>2
<1>4. ASSUME NEW i \in Nat, i \in T
      PROVE  i + 1 \in T
  <2>1. SUFFICES ASSUME i + 1 <= n
                 PROVE  Filed(f[i + 1], cells(i + 1))
    OBVIOUS
  <2>2. i + 1 \in 1 .. n /\ i + 1 \in 0 .. n /\ i + 1 # 0 /\ (i + 1) - 1 = i /\ i <= n
    BY <2>1
  <2>3. f[i + 1] = Refile(f[i], from, to, i + 1)
    BY <1>2, <2>2
  <2>4. Filed(f[i], cells(i))
    BY <1>4, <2>2
  <2>5. i + 1 \in DOMAIN cells(i) /\ from[i + 1] = cells(i)[i + 1]
    BY <2>2
  <2>6. [cells(i) EXCEPT ![i + 1] = to[i + 1]] = cells(i + 1)
    <3>1. \A p \in 1 .. n : (p <= i + 1) <=> (p <= i \/ p = i + 1)
      BY <1>4
    <3> QED
      BY <3>1
  <2> HIDE DEF cells
  <2>7. Filed(Refile(f[i], from, to, i + 1), [cells(i) EXCEPT ![i + 1] = to[i + 1]])
    BY <2>4, <2>5, RefileExact
  <2> QED
    BY <2>3, <2>6, <2>7
<1>5. n \in T
  <2> HIDE DEF T
  <2>1. Nat \subseteq T
    BY <1>3, <1>4, AllNaturals
  <2> QED
    BY <2>1
<1>6. cells(n) = to
    OBVIOUS
<1>7. Filed(f[n], cells(n))
    BY <1>5
<1> HIDE DEF cells, T
<1> QED
    BY <1>1, <1>6, <1>7

(***************************************************************************)
(* Keyframes and registry.                                                 *)
(***************************************************************************)
Boxes == [lower : Int, upper : Int]

\* Keyframes that carry labels of ls and list patches of ps.
KeyframeInfos(ls, ps) ==
    [T_w_lidar : Int, label : ls, local_patches : SUBSET ps, associated_patches : SUBSET ps]

\* Patches of the keyframes ks.
PatchInfos(ks) ==
    [keyframe : ks, T_obj_lidar : Int, create_keyframe_num : ks, last_update_keyframe_num : ks,
     bound_w : Boxes, enlarged_bound_w : Boxes]

\* Keyframes 0 .. n and patches of 1 .. key.
Typed(kf, registry, ls, key, n) ==
    /\ n \in Nat /\ kf \in [0 .. n -> KeyframeInfos(ls, 1 .. key)]
    /\ key \in Nat /\ DOMAIN registry \subseteq 1 .. key
    /\ registry \in [DOMAIN registry -> PatchInfos(0 .. n)]

\* A keyframe lists the patches it owns.
Listed(kf, registry) ==
    \A k \in DOMAIN kf :
        kf[k].local_patches = {p \in DOMAIN registry : registry[p].keyframe = k}

\* The box of a patch is where its owner says.
BoxAt(kf, info) ==
    /\ info.bound_w.lower = kf[info.keyframe].T_w_lidar - info.T_obj_lidar
    /\ Length(info.bound_w) = Cut
    /\ info.enlarged_bound_w = Enlarged(info.bound_w)

Boxed(kf, registry) == \A p \in DOMAIN registry : BoxAt(kf, registry[p])

\* No patch is owned by a keyframe after the middle of its lifetime.
BeforeMiddle(registry) == \A p \in DOMAIN registry : registry[p].keyframe <= Middle(registry[p])

Sound(kf, registry, ls, key, n) ==
    /\ Typed(kf, registry, ls, key, n)
    /\ Listed(kf, registry) /\ Boxed(kf, registry) /\ BeforeMiddle(registry)

CellsOf(registry, key) ==
    [p \in 1 .. key |->
        IF p \in DOMAIN registry THEN get_grid_indices(registry[p].enlarged_bound_w) ELSE {}]

\* When the registry has changed, every patch is filed in the cells of its new box.
LEMMA RefiledCells ==
    ASSUME NEW grid, NEW key \in Nat, NEW r1, NEW r2, Filed(grid, CellsOf(r1, key))
    PROVE  Filed(Refiled(grid, CellsOf(r1, key), CellsOf(r2, key), key), CellsOf(r2, key))
<1> DEFINE from == CellsOf(r1, key)
           to == CellsOf(r2, key)
<1>1. from = [p \in 1 .. key |-> from[p]] /\ to = [p \in 1 .. key |-> to[p]]
    BY DEF CellsOf
<1> HIDE DEF from, to
<1>2. Filed(Refiled(grid, from, to, key), to)
    BY <1>1, RefiledExact DEF from
<1> QED
    BY <1>2 DEF from, to

SoundMap ==
    /\ Sound(keyframe, patches_by_id, DOMAIN neighbor_label_frame_num, patch_key, latest_keyframe)
    /\ Filed(all_patches_map, CellsOf(patches_by_id, patch_key))

\* What keyframes and patches a solve leaves, and how far it moves them.
LEMMA MovedParts ==
    ASSUME NEW first, NEW d \in Int, SoundMap
    PROVE  LET m == update_keyframe_pose_by_poseGraph(first, d)
               way(k) == IF k >= first THEN d ELSE 0
           IN /\ m.keyframe = [k \in 0 .. latest_keyframe |->
                                 [keyframe[k] EXCEPT !.T_w_lidar = @ + way(k)]]
              /\ m.patches_by_id = [p \in Registered |->
                                 [patches_by_id[p] EXCEPT
                                    !.bound_w = Moved(@, way(patches_by_id[p].keyframe)),
                                    !.enlarged_bound_w = Moved(@, way(patches_by_id[p].keyframe))]]
              /\ m.all_patches_map =
                    Refiled(all_patches_map, Cells(patches_by_id), Cells(m.patches_by_id), patch_key)
<1> DEFINE m == update_keyframe_pose_by_poseGraph(first, d)
           way(k) == IF k >= first THEN d ELSE 0
           lists(p) == {k \in DOMAIN keyframe : k >= first /\ p \in keyframe[k].local_patches}
<1>1. /\ DOMAIN keyframe = 0 .. latest_keyframe
      /\ \A p \in Registered : patches_by_id[p].keyframe \in DOMAIN keyframe
      /\ \A k \in DOMAIN keyframe : keyframe[k].T_w_lidar \in Int
                 /\ keyframe[k] = [keyframe[k] EXCEPT !.T_w_lidar = @ + 0]
    BY DEF SoundMap, Sound, Typed, KeyframeInfos, PatchInfos, Registered
<1>2. \A p \in Registered, k \in DOMAIN keyframe :
          p \in keyframe[k].local_patches <=> k = patches_by_id[p].keyframe
    BY <1>1 DEF SoundMap, Sound, Listed, Registered
<1>3. \A p \in Registered : d * Cardinality(lists(p)) = way(patches_by_id[p].keyframe)
  <2>1. TAKE p \in Registered
  <2> DEFINE k == patches_by_id[p].keyframe
  <2>2. CASE k >= first
    <3>1. lists(p) = {k}
      BY <1>1, <1>2, <2>2
    <3>2. Cardinality(lists(p)) = 1
      BY <3>1, FS_Singleton
    <3> QED
      BY <2>2, <3>2
  <2>3. CASE ~(k >= first)
    <3>1. lists(p) = {}
      BY <1>2, <2>3
    <3>2. Cardinality(lists(p)) = 0
      BY <3>1, FS_EmptySet
    <3> QED
      BY <2>3, <3>2
  <2> QED
    BY <2>2, <2>3
<1>4. m.keyframe = [k \in 0 .. latest_keyframe |-> [keyframe[k] EXCEPT !.T_w_lidar = @ + way(k)]]
    BY <1>1 DEF update_keyframe_pose_by_poseGraph
<1>5. m.patches_by_id = [p \in Registered |->
          [patches_by_id[p] EXCEPT !.bound_w = Moved(@, way(patches_by_id[p].keyframe)),
                                   !.enlarged_bound_w = Moved(@, way(patches_by_id[p].keyframe))]]
  <2>1. m.patches_by_id = [p \in Registered |->
            [patches_by_id[p] EXCEPT !.bound_w = Moved(@, d * Cardinality(lists(p))),
                                     !.enlarged_bound_w = Moved(@, d * Cardinality(lists(p)))]]
    BY DEF update_keyframe_pose_by_poseGraph
  <2> HIDE DEF m, way, lists
  <2> QED
    BY <1>3, <2>1
<1>6. m.all_patches_map =
          Refiled(all_patches_map, Cells(patches_by_id), Cells(m.patches_by_id), patch_key)
    BY DEF update_keyframe_pose_by_poseGraph
<1> QED
    BY <1>4, <1>5, <1>6

\* A solve moves each patch with its owner.
LEMMA MovedSound ==
    ASSUME NEW first \in Int, NEW d \in Int, SoundMap,
           NEW m, m = update_keyframe_pose_by_poseGraph(first, d)
    PROVE  /\ Sound(m.keyframe, m.patches_by_id, DOMAIN neighbor_label_frame_num, patch_key, latest_keyframe)
           /\ Filed(m.all_patches_map, CellsOf(m.patches_by_id, patch_key))
           /\ \A k \in DOMAIN keyframe :
                 m.keyframe[k].associated_patches = keyframe[k].associated_patches
           /\ DOMAIN m.patches_by_id = Registered
           /\ \A p \in Registered : m.patches_by_id[p].keyframe = patches_by_id[p].keyframe
<1> DEFINE way(k) == IF k >= first THEN d ELSE 0
           kf == m.keyframe
           registry == m.patches_by_id
<1>1. /\ kf = [k \in 0 .. latest_keyframe |-> [keyframe[k] EXCEPT !.T_w_lidar = @ + way(k)]]
      /\ registry = [p \in Registered |->
                       [patches_by_id[p] EXCEPT
                          !.bound_w = Moved(@, way(patches_by_id[p].keyframe)),
                          !.enlarged_bound_w = Moved(@, way(patches_by_id[p].keyframe))]]
      /\ m.all_patches_map = Refiled(all_patches_map, Cells(patches_by_id), Cells(registry), patch_key)
    BY MovedParts, ZenonT(60)
<1>2. /\ latest_keyframe \in Nat /\ patch_key \in Nat /\ Registered \subseteq 1 .. patch_key
      /\ keyframe \in [0 .. latest_keyframe -> KeyframeInfos(DOMAIN neighbor_label_frame_num, 1 .. patch_key)]
      /\ patches_by_id \in [Registered -> PatchInfos(0 .. latest_keyframe)]
    BY DEF SoundMap, Sound, Typed, Registered
<1>3. \A k \in 0 .. latest_keyframe : way(k) \in Int
    OBVIOUS
<1> HIDE DEF way, kf, registry
<1>4. ASSUME NEW k \in 0 .. latest_keyframe
      PROVE  /\ kf[k] \in KeyframeInfos(DOMAIN neighbor_label_frame_num, 1 .. patch_key)
             /\ kf[k].T_w_lidar = keyframe[k].T_w_lidar + way(k)
             /\ kf[k].label = keyframe[k].label
             /\ kf[k].local_patches = keyframe[k].local_patches
             /\ kf[k].associated_patches = keyframe[k].associated_patches
  <2>1. kf[k] = [keyframe[k] EXCEPT !.T_w_lidar = @ + way(k)]
    BY <1>1
  <2>2. keyframe[k] \in KeyframeInfos(DOMAIN neighbor_label_frame_num, 1 .. patch_key)
    BY <1>2
  <2>3. way(k) \in Int
    BY <1>3
  <2> QED
    BY <2>1, <2>2, <2>3 DEF KeyframeInfos
<1>5. ASSUME NEW p \in Registered
      PROVE  /\ registry[p] \in PatchInfos(0 .. latest_keyframe)
             /\ registry[p].keyframe = patches_by_id[p].keyframe
             /\ registry[p].T_obj_lidar = patches_by_id[p].T_obj_lidar
             /\ registry[p].create_keyframe_num = patches_by_id[p].create_keyframe_num
             /\ registry[p].last_update_keyframe_num = patches_by_id[p].last_update_keyframe_num
             /\ registry[p].bound_w = Moved(patches_by_id[p].bound_w, way(patches_by_id[p].keyframe))
             /\ registry[p].enlarged_bound_w = Moved(patches_by_id[p].enlarged_bound_w, way(patches_by_id[p].keyframe))
  <2> DEFINE info == patches_by_id[p]
             w == way(info.keyframe)
  <2>1. registry[p] = [info EXCEPT !.bound_w = Moved(@, w), !.enlarged_bound_w = Moved(@, w)]
    BY <1>1
  <2>2. info \in PatchInfos(0 .. latest_keyframe)
    BY <1>2
  <2>3. w \in Int
    BY <1>3, <2>2 DEF PatchInfos
  <2> HIDE DEF info, w
  <2>4. Moved(info.bound_w, w) \in Boxes /\ Moved(info.enlarged_bound_w, w) \in Boxes
    BY <2>2, <2>3 DEF PatchInfos, Boxes, Moved, Box
  <2>5. /\ registry[p] \in PatchInfos(0 .. latest_keyframe)
        /\ registry[p].keyframe = info.keyframe
        /\ registry[p].T_obj_lidar = info.T_obj_lidar
        /\ registry[p].create_keyframe_num = info.create_keyframe_num
        /\ registry[p].last_update_keyframe_num = info.last_update_keyframe_num
        /\ registry[p].bound_w = Moved(info.bound_w, w)
        /\ registry[p].enlarged_bound_w = Moved(info.enlarged_bound_w, w)
    BY <2>1, <2>2, <2>4 DEF PatchInfos
  <2> QED
    BY <2>5 DEF info, w
<1>6. DOMAIN kf = 0 .. latest_keyframe /\ DOMAIN registry = Registered
    BY <1>1
<1>7. Typed(kf, registry, DOMAIN neighbor_label_frame_num, patch_key, latest_keyframe)
  <2>1. kf = [k \in 0 .. latest_keyframe |-> kf[k]] /\ registry = [p \in Registered |-> registry[p]]
    BY <1>1
  <2> QED
    BY <1>2, <1>4, <1>5, <1>6, <2>1 DEF Typed
<1>8. Listed(kf, registry)
    BY <1>2, <1>4, <1>5, <1>6, SMTT(30) DEF Listed, SoundMap, Sound, Registered
<1>9. Boxed(kf, registry)
  <2>1. SUFFICES ASSUME NEW p \in Registered
                 PROVE  BoxAt(kf, registry[p])
    BY <1>6 DEF Boxed
  <2> DEFINE info == patches_by_id[p]
             w == way(info.keyframe)
  <2>2. BoxAt(keyframe, info)
    BY DEF SoundMap, Sound, Boxed, Registered
  <2>3. info \in PatchInfos(0 .. latest_keyframe)
    BY <1>2
  <2>4. info.keyframe \in 0 .. latest_keyframe
    BY <2>3 DEF PatchInfos
  <2>5. keyframe[info.keyframe].T_w_lidar \in Int /\ w \in Int
        /\ kf[info.keyframe].T_w_lidar = keyframe[info.keyframe].T_w_lidar + w
    BY <1>2, <1>3, <1>4, <2>4 DEF KeyframeInfos
  <2>6. /\ registry[p].keyframe = info.keyframe /\ registry[p].T_obj_lidar = info.T_obj_lidar
        /\ registry[p].bound_w = Moved(info.bound_w, w)
        /\ registry[p].enlarged_bound_w = Moved(info.enlarged_bound_w, w)
    BY <1>5
  <2> HIDE DEF info, w
  <2>7. /\ info.bound_w.lower \in Int /\ info.bound_w.upper \in Int /\ info.T_obj_lidar \in Int
    BY <2>3 DEF PatchInfos, Boxes
  <2>8. Skin \in Int
    BY ConstantsAssumption
  <2> QED
    BY <2>2, <2>5, <2>6, <2>7, <2>8 DEF BoxAt, Moved, Box, Length, Enlarged
<1>10. BeforeMiddle(registry)
    BY <1>5, <1>6 DEF BeforeMiddle, Middle, SoundMap, Sound, Registered
<1>11. Filed(m.all_patches_map, CellsOf(registry, patch_key))
  <2>1. Cells(patches_by_id) = CellsOf(patches_by_id, patch_key) /\ Cells(registry) = CellsOf(registry, patch_key)
    BY DEF Cells, CellsOf
  <2>2. Filed(all_patches_map, CellsOf(patches_by_id, patch_key))
    BY DEF SoundMap
  <2>3. Filed(Refiled(all_patches_map, CellsOf(patches_by_id, patch_key), CellsOf(registry, patch_key), patch_key),
              CellsOf(registry, patch_key))
    BY <1>2, <2>2, RefiledCells
  <2> QED
    BY <1>1, <2>1, <2>3
<1>12. Sound(kf, registry, DOMAIN neighbor_label_frame_num, patch_key, latest_keyframe)
    BY <1>7, <1>8, <1>9, <1>10 DEF Sound
<1>13. /\ \A k \in DOMAIN keyframe :
            kf[k].associated_patches = keyframe[k].associated_patches
       /\ \A p \in Registered : registry[p].keyframe = patches_by_id[p].keyframe
    BY <1>2, <1>4, <1>5
<1> QED
    BY <1>6, <1>11, <1>12, <1>13 DEF kf, registry

(***************************************************************************)
(* Shared associations.                                                    *)
(***************************************************************************)

\* One step of AssociatedUpTo, and its steps one after the other.
Share(associated, pending, k) ==
    IF k \notin DOMAIN pending THEN associated ELSE AssociatedWith(associated, k, pending[k])

SharedBy(f, associated, pending, l) ==
    f = [k \in 0 .. l |-> IF k = 0 THEN associated ELSE Share(f[k - 1], pending, k)]

LEMMA SharingExists ==
    ASSUME NEW associated, NEW pending
    PROVE  \A l \in Nat : \E f : SharedBy(f, associated, pending, l)
<1> DEFINE T == {l \in Nat : \E f : SharedBy(f, associated, pending, l)}
<1>1. 0 \in T
  <2> DEFINE f == [k \in 0 .. 0 |-> associated]
  <2>1. f = [k \in 0 .. 0 |-> IF k = 0 THEN associated ELSE Share(f[k - 1], pending, k)]
    OBVIOUS
  <2> HIDE DEF f
  <2> QED
    BY <2>1 DEF SharedBy
<1>2. ASSUME NEW i \in Nat, i \in T
      PROVE  i + 1 \in T
  <2>1. PICK f : SharedBy(f, associated, pending, i)
    BY <1>2
  <2> DEFINE g == [k \in 0 .. i + 1 |-> IF k = i + 1 THEN Share(f[i], pending, k) ELSE f[k]]
  <2>2. \A k \in 0 .. i : f[k] = IF k = 0 THEN associated ELSE Share(f[k - 1], pending, k)
    BY <2>1 DEF SharedBy
  <2>3. \A k \in 0 .. i : g[k] = f[k]
    BY <1>2
  <2>4. g[i + 1] = Share(f[i], pending, i + 1)
    BY <1>2
  <2>5. \A k \in 0 .. i + 1 : g[k] = IF k = 0 THEN associated ELSE Share(g[k - 1], pending, k)
    <3>1. TAKE k \in 0 .. i + 1
    <3>2. CASE k = i + 1
      <4>1. i \in 0 .. i /\ k # 0 /\ k - 1 = i
        BY <1>2, <3>2
      <4>2. g[k - 1] = f[i]
        BY <2>3, <4>1
      <4> HIDE DEF g
      <4> QED
        BY <2>4, <3>2, <4>1, <4>2
    <3>3. CASE k # i + 1
      <4>1. k \in 0 .. i /\ (k # 0 => k - 1 \in 0 .. i)
        BY <1>2, <3>3
      <4> HIDE DEF g
      <4> QED
        BY <2>2, <2>3, <4>1
    <3> QED
      BY <3>2, <3>3
  <2>6. g = [k \in 0 .. i + 1 |-> g[k]]
    OBVIOUS
  <2> HIDE DEF g
  <2>7. g = [k \in 0 .. i + 1 |-> IF k = 0 THEN associated ELSE Share(g[k - 1], pending, k)]
    BY <2>5, <2>6
  <2> QED
    BY <1>2, <2>7 DEF SharedBy
<1>3. Nat \subseteq T
  <2> HIDE DEF T
  <2> QED
    BY <1>1, <1>2, AllNaturals
<1> QED
    BY <1>3

LEMMA SharedSteps ==
    ASSUME NEW associated, NEW pending, NEW l \in Nat
    PROVE  \E f : SharedBy(f, associated, pending, l) /\ AssociatedUpTo(associated, pending, l) = f[l]
<1> DEFINE f == CHOOSE g : SharedBy(g, associated, pending, l)
<1>1. SharedBy(f, associated, pending, l)
    BY SharingExists
<1>2. AssociatedUpTo(associated, pending, l) = f[l]
    BY DEF AssociatedUpTo, SharedBy, Share
<1> QED
    BY <1>1, <1>2

\* Sharing associations brings no patch in that no keyframe was associated with.
LEMMA SharedWithin ==
    ASSUME NEW ks, NEW S, NEW associated \in [ks -> SUBSET S], NEW pending,
           \A k \in DOMAIN pending : k \in ks /\ pending[k] \in ks,
           NEW l \in Nat
    PROVE  AssociatedUpTo(associated, pending, l) \in [ks -> SUBSET S]
<1>0. \E f : SharedBy(f, associated, pending, l) /\ AssociatedUpTo(associated, pending, l) = f[l]
    BY ONLY l \in Nat, SharedSteps
<1>1. PICK f : SharedBy(f, associated, pending, l) /\ AssociatedUpTo(associated, pending, l) = f[l]
    BY <1>0
<1>2. \A k \in 0 .. l : f[k] = IF k = 0 THEN associated ELSE Share(f[k - 1], pending, k)
    BY <1>1 DEF SharedBy
<1> DEFINE T == {i \in Nat : i <= l => f[i] \in [ks -> SUBSET S]}
<1>3. 0 \in T
    BY <1>2
<1>4. ASSUME NEW i \in Nat, i \in T
      PROVE  i + 1 \in T
  <2>1. SUFFICES ASSUME i + 1 <= l
                 PROVE  f[i + 1] \in [ks -> SUBSET S]
    OBVIOUS
  <2>2. i + 1 \in 0 .. l /\ i + 1 # 0 /\ (i + 1) - 1 = i /\ i <= l
    BY <2>1
  <2>3. f[i + 1] = Share(f[i], pending, i + 1)
    BY <1>2, <2>2
  <2>4. f[i] \in [ks -> SUBSET S]
    BY <1>4, <2>2
  <2> QED
    BY <2>3, <2>4 DEF Share, AssociatedWith
<1>5. l \in T
  <2> HIDE DEF T
  <2>1. Nat \subseteq T
    BY <1>3, <1>4, AllNaturals
  <2> QED
    BY <2>1
<1> QED
    BY <1>1, <1>5

(***************************************************************************)
(* Plans.                                                                  *)
(***************************************************************************)

\* A plan names the keyframe of every patch it wants removed, and for some of
\* them a patch that it does not want removed.
PlanShaped(plan, key, n) ==
    /\ plan.owner \in [DOMAIN plan.owner -> 0 .. n]
    /\ DOMAIN plan.owner \subseteq 1 .. key
    /\ plan.replacement \in [DOMAIN plan.replacement -> (1 .. key) \ DOMAIN plan.owner]
    /\ DOMAIN plan.replacement \subseteq DOMAIN plan.owner

IsMap(m) == m = [keyframe |-> m.keyframe, patches_by_id |-> m.patches_by_id,
                 all_patches_map |-> m.all_patches_map]

\* The patches due are gone, and no keyframe is newly associated with one that is.
RemovedAs(m, after, n, due) ==
    /\ after.patches_by_id = [p \in DOMAIN m.patches_by_id \ due |-> m.patches_by_id[p]]
    /\ \A k \in 0 .. n :
          after.keyframe[k].associated_patches \subseteq
              m.keyframe[k].associated_patches \cup DOMAIN after.patches_by_id

\* The first loop of apply_overlap_removal_plan takes out what is due, and only
\* associates keyframes with patches that stay.
LEMMA RemovedSound ==
    ASSUME NEW m, IsMap(m), NEW ls, NEW n, NEW plan, PlanShaped(plan, patch_key, n),
           Sound(m.keyframe, m.patches_by_id, ls, patch_key, n),
           Filed(m.all_patches_map, CellsOf(m.patches_by_id, patch_key)),
           NEW after, after = Removed(m, plan)
    PROVE  /\ IsMap(after)
           /\ Sound(after.keyframe, after.patches_by_id, ls, patch_key, n)
           /\ Filed(after.all_patches_map, CellsOf(after.patches_by_id, patch_key))
           /\ RemovedAs(m, after, n, due_by(m, plan))
<1> DEFINE registered == DOMAIN m.patches_by_id
           due == due_by(m, plan)
           gained(k) == {plan.replacement[p] : p \in {q \in replaced_by(m, plan) : plan.owner[q] = k}}
           m2 == [m EXCEPT !.keyframe = [k \in DOMAIN m.keyframe |->
                     [m.keyframe[k] EXCEPT !.associated_patches = @ \cup gained(k)]]]
           listed(k) == {p \in due : plan.owner[p] = k} \cap m2.keyframe[k].local_patches
           left == [p \in {q \in DOMAIN m2.patches_by_id :
                             q \in due => q \notin listed(plan.owner[q])} |-> m2.patches_by_id[p]]
           kf == [k \in DOMAIN m2.keyframe |->
                     [m2.keyframe[k] EXCEPT !.local_patches = @ \ listed(k),
                                            !.associated_patches = @ \ listed(k)]]
<1>1. after = [keyframe |-> kf, patches_by_id |-> left,
               all_patches_map |-> Refiled(m2.all_patches_map, Cells(m2.patches_by_id), Cells(left), patch_key)]
    BY DEF Removed, erase_patches
<1>2. /\ m2.patches_by_id = m.patches_by_id /\ m2.all_patches_map = m.all_patches_map
      /\ m2.keyframe = [k \in DOMAIN m.keyframe |->
                          [m.keyframe[k] EXCEPT !.associated_patches = @ \cup gained(k)]]
    BY DEF IsMap
<1>3. /\ n \in Nat /\ patch_key \in Nat /\ registered \subseteq 1 .. patch_key
      /\ m.keyframe \in [0 .. n -> KeyframeInfos(ls, 1 .. patch_key)]
      /\ m.patches_by_id \in [registered -> PatchInfos(0 .. n)]
    BY DEF Sound, Typed
<1>4. \A k \in 0 .. n : m.keyframe[k].local_patches = {p \in registered : m.patches_by_id[p].keyframe = k}
    BY <1>3 DEF Sound, Listed
<1>5. /\ due \subseteq DOMAIN plan.owner
      /\ \A p \in due : plan.owner[p] \in 0 .. n
      /\ \A p \in due \cap registered : m.patches_by_id[p].keyframe = plan.owner[p]
    BY DEF due_by, PlanShaped
<1>6. \A k \in 0 .. n : gained(k) \subseteq registered \ due
    BY <1>5 DEF replaced_by, PlanShaped
<1> HIDE DEF gained, m2, due
<1>7. ASSUME NEW k \in 0 .. n
      PROVE  /\ m2.keyframe[k] = [m.keyframe[k] EXCEPT !.associated_patches = @ \cup gained(k)]
             /\ m2.keyframe[k].local_patches = m.keyframe[k].local_patches
             /\ m2.keyframe[k].associated_patches = m.keyframe[k].associated_patches \cup gained(k)
             /\ m2.keyframe[k] \in KeyframeInfos(ls, 1 .. patch_key)
             /\ m2.keyframe[k].T_w_lidar = m.keyframe[k].T_w_lidar
             /\ m2.keyframe[k].label = m.keyframe[k].label
  <2>1. m2.keyframe[k] = [m.keyframe[k] EXCEPT !.associated_patches = @ \cup gained(k)]
    BY <1>2, <1>3
  <2>2. m.keyframe[k] \in KeyframeInfos(ls, 1 .. patch_key)
    BY <1>3
  <2>3. gained(k) \subseteq 1 .. patch_key
    BY <1>3, <1>6
  <2> QED
    BY <2>1, <2>2, <2>3 DEF KeyframeInfos
<1>8. DOMAIN m2.keyframe = 0 .. n
    BY <1>2, <1>3
<1>9. \A k \in 0 .. n : listed(k) = {p \in due \cap registered : m.patches_by_id[p].keyframe = k}
    BY <1>4, <1>5, <1>7, ZenonT(60)
<1>10. left = [p \in registered \ due |-> m.patches_by_id[p]]
  <2>1. {q \in registered : q \in due => q \notin listed(plan.owner[q])} = registered \ due
    BY <1>5, <1>9
  <2> QED
    BY <1>2, <2>1
<1> HIDE DEF listed, left
<1>11. ASSUME NEW k \in 0 .. n
       PROVE  /\ kf[k] \in KeyframeInfos(ls, 1 .. patch_key)
              /\ kf[k].T_w_lidar = m.keyframe[k].T_w_lidar
              /\ kf[k].label = m.keyframe[k].label
              /\ kf[k].local_patches = m.keyframe[k].local_patches \ listed(k)
              /\ kf[k].associated_patches = (m.keyframe[k].associated_patches \cup gained(k)) \ listed(k)
  <2> DEFINE info == m2.keyframe[k]
             gone == listed(k)
  <2>1. kf[k] = [info EXCEPT !.local_patches = @ \ gone, !.associated_patches = @ \ gone]
    BY <1>8
  <2>2. info \in KeyframeInfos(ls, 1 .. patch_key)
    BY <1>7
  <2> HIDE DEF info, gone, kf
  <2>3. info = [T_w_lidar |-> info.T_w_lidar, label |-> info.label, local_patches |-> info.local_patches,
                associated_patches |-> info.associated_patches]
    BY <2>2 DEF KeyframeInfos
  <2>4. kf[k] = [T_w_lidar |-> info.T_w_lidar, label |-> info.label,
                 local_patches |-> info.local_patches \ gone,
                 associated_patches |-> info.associated_patches \ gone]
    BY <2>1, <2>3
  <2>5. /\ info.T_w_lidar \in Int /\ info.label \in ls
        /\ info.local_patches \ gone \in SUBSET (1 .. patch_key)
        /\ info.associated_patches \ gone \in SUBSET (1 .. patch_key)
    BY <2>2 DEF KeyframeInfos
  <2>6. kf[k] \in KeyframeInfos(ls, 1 .. patch_key)
    BY <2>4, <2>5 DEF KeyframeInfos
  <2>7. /\ kf[k].T_w_lidar = info.T_w_lidar /\ kf[k].label = info.label
        /\ kf[k].local_patches = info.local_patches \ gone
        /\ kf[k].associated_patches = info.associated_patches \ gone
    BY <2>4
  <2> QED
    BY <1>7, <2>6, <2>7 DEF info, gone
<1>12. kf = [k \in 0 .. n |-> kf[k]]
    BY <1>8
<1> HIDE DEF kf
<1>13. Typed(kf, left, ls, patch_key, n)
  <2>1. \A p \in registered \ due : left[p] \in PatchInfos(0 .. n)
    BY <1>3, <1>10
  <2> QED
    BY <1>3, <1>10, <1>11, <1>12, <2>1 DEF Typed
<1>14. Listed(kf, left)
    BY <1>4, <1>9, <1>10, <1>11, <1>12 DEF Listed
<1>15. Boxed(kf, left)
  <2>1. SUFFICES ASSUME NEW p \in registered \ due
                 PROVE  BoxAt(kf, left[p])
    BY <1>10 DEF Boxed
  <2>2. left[p] = m.patches_by_id[p] /\ left[p].keyframe \in 0 .. n
    BY <1>3, <1>10 DEF PatchInfos
  <2>3. BoxAt(m.keyframe, m.patches_by_id[p])
    BY DEF Sound, Boxed
  <2> QED
    BY <1>11, <2>2, <2>3 DEF BoxAt
<1>16. BeforeMiddle(left)
    BY <1>10 DEF BeforeMiddle, Sound
<1>17. Filed(after.all_patches_map, CellsOf(left, patch_key))
  <2>1. after.all_patches_map = Refiled(m.all_patches_map, CellsOf(m.patches_by_id, patch_key),
                                        CellsOf(left, patch_key), patch_key)
    BY <1>1, <1>2 DEF Cells, CellsOf
  <2>2. Filed(Refiled(m.all_patches_map, CellsOf(m.patches_by_id, patch_key),
                      CellsOf(left, patch_key), patch_key), CellsOf(left, patch_key))
    BY <1>3, RefiledCells
  <2> QED
    BY <2>1, <2>2
<1>18. Sound(kf, left, ls, patch_key, n)
    BY <1>13, <1>14, <1>15, <1>16 DEF Sound
<1>19. after.keyframe = kf /\ after.patches_by_id = left /\ IsMap(after)
    BY <1>1 DEF IsMap
<1>20. \A k \in 0 .. n : kf[k].associated_patches \subseteq m.keyframe[k].associated_patches \cup DOMAIN left
    BY <1>6, <1>10, <1>11
<1>21. RemovedAs(m, after, n, due)
    BY <1>10, <1>19, <1>20 DEF RemovedAs
<1> QED
    BY <1>17, <1>18, <1>19, <1>21 DEF due

(***************************************************************************)
(* Rebinding.                                                              *)
(***************************************************************************)

\* The patches stay where they are and may go to later owners.
SwappedAs(m, after, n) ==
    /\ \A k \in 0 .. n : after.keyframe[k].associated_patches = m.keyframe[k].associated_patches
    /\ DOMAIN after.patches_by_id = DOMAIN m.patches_by_id
    /\ \A p \in DOMAIN m.patches_by_id :
          /\ after.patches_by_id[p].keyframe >= m.patches_by_id[p].keyframe
          /\ after.patches_by_id[p].enlarged_bound_w = m.patches_by_id[p].enlarged_bound_w

\* A patch that goes to the middle of its lifetime leaves one list for another
\* and stays where it is.
LEMMA SwappedSound ==
    ASSUME NEW m, IsMap(m), NEW ls, NEW key, NEW n, Sound(m.keyframe, m.patches_by_id, ls, key, n),
           NEW target, DOMAIN target \subseteq DOMAIN m.patches_by_id,
           \A p \in DOMAIN target : target[p] = Middle(m.patches_by_id[p]) /\ target[p] \in 0 .. n
                                        /\ target[p] # m.patches_by_id[p].keyframe,
           NEW after, after = swap_patches(m, target)
    PROVE  /\ IsMap(after) /\ Sound(after.keyframe, after.patches_by_id, ls, key, n)
           /\ after.all_patches_map = m.all_patches_map
           /\ SwappedAs(m, after, n)
<1> DEFINE registered == DOMAIN m.patches_by_id
           T_obj_w(p) == m.patches_by_id[p].T_obj_lidar - m.keyframe[m.patches_by_id[p].keyframe].T_w_lidar
           swapped(p) == [m.patches_by_id[p] EXCEPT
                             !.keyframe = target[p],
                             !.T_obj_lidar = T_obj_w(p) + m.keyframe[target[p]].T_w_lidar]
           kf == [k \in DOMAIN m.keyframe |->
                     [m.keyframe[k] EXCEPT !.local_patches = local_patches_after(m, k, target)]]
           registry == [p \in registered |-> IF p \in DOMAIN target THEN swapped(p) ELSE m.patches_by_id[p]]
<1>1. after = [keyframe |-> kf, patches_by_id |-> registry, all_patches_map |-> m.all_patches_map]
  <2>1. after = [m EXCEPT !.keyframe = kf, !.patches_by_id = registry]
    BY DEF swap_patches
  <2> HIDE DEF kf, registry
  <2> QED
    BY <2>1 DEF IsMap
<1>2. /\ n \in Nat /\ key \in Nat /\ registered \subseteq 1 .. key
      /\ m.keyframe \in [0 .. n -> KeyframeInfos(ls, 1 .. key)]
      /\ m.patches_by_id \in [registered -> PatchInfos(0 .. n)]
    BY DEF Sound, Typed
<1>3. \A k \in 0 .. n : m.keyframe[k].local_patches = {p \in registered : m.patches_by_id[p].keyframe = k}
    BY <1>2 DEF Sound, Listed
<1> DEFINE owner(p) == IF p \in DOMAIN target THEN target[p] ELSE m.patches_by_id[p].keyframe
<1>4. ASSUME NEW k \in 0 .. n
      PROVE  local_patches_after(m, k, target) = {p \in registered : owner(p) = k}
    BY <1>3 DEF local_patches_after
<1>5. \A p \in registered : owner(p) \in 0 .. n
    BY <1>2 DEF PatchInfos
<1>6. DOMAIN kf = 0 .. n /\ kf = [k \in 0 .. n |-> kf[k]]
    BY <1>2
<1>7. ASSUME NEW k \in 0 .. n
      PROVE  /\ kf[k] \in KeyframeInfos(ls, 1 .. key)
             /\ kf[k].T_w_lidar = m.keyframe[k].T_w_lidar
             /\ kf[k].label = m.keyframe[k].label
             /\ kf[k].local_patches = {p \in registered : owner(p) = k}
             /\ kf[k].associated_patches = m.keyframe[k].associated_patches
  <2> DEFINE info == m.keyframe[k]
             own == {p \in registered : owner(p) = k}
  <2>1. kf[k] = [info EXCEPT !.local_patches = own]
    BY <1>2, <1>4
  <2>2. info \in KeyframeInfos(ls, 1 .. key) /\ own \in SUBSET (1 .. key)
    BY <1>2
  <2> HIDE DEF info, own, kf
  <2>3. info = [T_w_lidar |-> info.T_w_lidar, label |-> info.label, local_patches |-> info.local_patches,
                associated_patches |-> info.associated_patches]
    BY <2>2 DEF KeyframeInfos
  <2>4. kf[k] = [T_w_lidar |-> info.T_w_lidar, label |-> info.label, local_patches |-> own,
                 associated_patches |-> info.associated_patches]
    BY <2>1, <2>3
  <2>5. kf[k] \in KeyframeInfos(ls, 1 .. key)
    BY <2>2, <2>4 DEF KeyframeInfos
  <2>6. /\ kf[k].T_w_lidar = info.T_w_lidar /\ kf[k].label = info.label /\ kf[k].local_patches = own
        /\ kf[k].associated_patches = info.associated_patches
    BY <2>4
  <2> QED
    BY <2>5, <2>6 DEF info, own
<1>8. ASSUME NEW p \in registered
      PROVE  /\ registry[p] \in PatchInfos(0 .. n)
             /\ registry[p].keyframe = owner(p)
             /\ registry[p].T_obj_lidar = T_obj_w(p) + m.keyframe[owner(p)].T_w_lidar
             /\ registry[p].create_keyframe_num = m.patches_by_id[p].create_keyframe_num
             /\ registry[p].last_update_keyframe_num = m.patches_by_id[p].last_update_keyframe_num
             /\ registry[p].bound_w = m.patches_by_id[p].bound_w
             /\ registry[p].enlarged_bound_w = m.patches_by_id[p].enlarged_bound_w
             /\ T_obj_w(p) = m.patches_by_id[p].T_obj_lidar - m.keyframe[m.patches_by_id[p].keyframe].T_w_lidar
             /\ T_obj_w(p) \in Int
  <2> DEFINE info == m.patches_by_id[p]
             place == T_obj_w(p)
             far == place + m.keyframe[owner(p)].T_w_lidar
  <2>1. info \in PatchInfos(0 .. n)
    BY <1>2
  <2>2. /\ m.keyframe[info.keyframe].T_w_lidar \in Int /\ m.keyframe[owner(p)].T_w_lidar \in Int
        /\ info.T_obj_lidar \in Int
    BY <1>2, <1>5, <2>1 DEF PatchInfos, KeyframeInfos
  <2>3. place \in Int /\ far \in Int
    BY <2>2
  <2>4. info = [keyframe |-> info.keyframe, T_obj_lidar |-> info.T_obj_lidar,
                create_keyframe_num |-> info.create_keyframe_num,
                last_update_keyframe_num |-> info.last_update_keyframe_num,
                bound_w |-> info.bound_w, enlarged_bound_w |-> info.enlarged_bound_w]
    BY <2>1 DEF PatchInfos
  <2>5. registry[p] = [keyframe |-> owner(p), T_obj_lidar |-> far,
                       create_keyframe_num |-> info.create_keyframe_num,
                       last_update_keyframe_num |-> info.last_update_keyframe_num,
                       bound_w |-> info.bound_w, enlarged_bound_w |-> info.enlarged_bound_w]
    <3>1. CASE p \in DOMAIN target
      <4>1. registry[p] = [info EXCEPT !.keyframe = owner(p), !.T_obj_lidar = far]
        BY <3>1
      <4> HIDE DEF registry, info, far
      <4> QED
        BY <2>4, <4>1
    <3>2. CASE p \notin DOMAIN target
      <4>1. registry[p] = info /\ owner(p) = info.keyframe
        BY <3>2
      <4>2. far = info.T_obj_lidar
        <5>1. place = info.T_obj_lidar - m.keyframe[info.keyframe].T_w_lidar
          OBVIOUS
        <5>2. far = place + m.keyframe[info.keyframe].T_w_lidar
          BY <4>1
        <5> HIDE DEF place, far, info, owner
        <5> QED
          BY <2>2, <5>1, <5>2
      <4> HIDE DEF registry, info, far
      <4> QED
        BY <2>4, <4>1, <4>2
    <3> QED
      BY <3>1, <3>2
  <2>6. place = info.T_obj_lidar - m.keyframe[info.keyframe].T_w_lidar
    OBVIOUS
  <2>7. owner(p) \in 0 .. n
    BY <1>5
  <2> HIDE DEF registry, info, far, place, owner
  <2>8. registry[p] \in PatchInfos(0 .. n)
    BY <2>1, <2>3, <2>5, <2>7 DEF PatchInfos
  <2>9. /\ registry[p].keyframe = owner(p) /\ registry[p].T_obj_lidar = far
        /\ registry[p].create_keyframe_num = info.create_keyframe_num
        /\ registry[p].last_update_keyframe_num = info.last_update_keyframe_num
        /\ registry[p].bound_w = info.bound_w /\ registry[p].enlarged_bound_w = info.enlarged_bound_w
    BY <2>5
  <2> QED
    BY <2>3, <2>6, <2>8, <2>9 DEF info, far, place
<1>9. DOMAIN registry = registered /\ registry = [p \in registered |-> registry[p]]
    OBVIOUS
<1>10. \A p \in registered : owner(p) >= m.patches_by_id[p].keyframe /\ owner(p) <= Middle(m.patches_by_id[p])
  <2>1. TAKE p \in registered
  <2>2. m.patches_by_id[p].keyframe <= Middle(m.patches_by_id[p])
    BY DEF Sound, BeforeMiddle
  <2>3. /\ m.patches_by_id[p].keyframe \in Int /\ m.patches_by_id[p].create_keyframe_num \in Int
        /\ m.patches_by_id[p].last_update_keyframe_num \in Int
    BY <1>2 DEF PatchInfos
  <2>4. Middle(m.patches_by_id[p]) \in Int
    BY <2>3 DEF Middle
  <2> QED
    BY <2>2, <2>3, <2>4
<1> HIDE DEF kf, registry, T_obj_w, owner
<1>11. Typed(kf, registry, ls, key, n)
    BY <1>2, <1>6, <1>7, <1>8, <1>9 DEF Typed
<1>12. Listed(kf, registry)
    BY <1>6, <1>7, <1>8, <1>9, ZenonT(60) DEF Listed
<1>13. Boxed(kf, registry)
  <2>1. SUFFICES ASSUME NEW p \in registered
                 PROVE  BoxAt(kf, registry[p])
    BY <1>9 DEF Boxed
  <2> DEFINE info == m.patches_by_id[p]
  <2>2. BoxAt(m.keyframe, info)
    BY DEF Sound, Boxed
  <2>3. /\ registry[p].keyframe = owner(p)
        /\ registry[p].T_obj_lidar = T_obj_w(p) + m.keyframe[owner(p)].T_w_lidar
        /\ registry[p].bound_w = info.bound_w /\ registry[p].enlarged_bound_w = info.enlarged_bound_w
        /\ T_obj_w(p) = info.T_obj_lidar - m.keyframe[info.keyframe].T_w_lidar
        /\ T_obj_w(p) \in Int
    BY <1>8
  <2>4. kf[owner(p)].T_w_lidar = m.keyframe[owner(p)].T_w_lidar /\ m.keyframe[owner(p)].T_w_lidar \in Int
    BY <1>2, <1>5, <1>7 DEF KeyframeInfos
  <2>5. info \in PatchInfos(0 .. n)
    BY <1>2
  <2>6. m.keyframe[info.keyframe].T_w_lidar \in Int /\ info.T_obj_lidar \in Int
    BY <1>2, <2>5 DEF KeyframeInfos, PatchInfos
  <2> HIDE DEF info
  <2> QED
    BY <2>2, <2>3, <2>4, <2>6 DEF BoxAt
<1>14. BeforeMiddle(registry)
  <2>1. SUFFICES ASSUME NEW p \in registered
                 PROVE  registry[p].keyframe <= Middle(registry[p])
    BY <1>9 DEF BeforeMiddle
  <2>2. Middle(registry[p]) = Middle(m.patches_by_id[p])
    BY <1>8 DEF Middle
  <2> QED
    BY <1>8, <1>10, <2>2
<1>15. Sound(kf, registry, ls, key, n)
    BY <1>11, <1>12, <1>13, <1>14 DEF Sound
<1>16. IsMap(after) /\ after.keyframe = kf /\ after.patches_by_id = registry
       /\ after.all_patches_map = m.all_patches_map
    BY <1>1 DEF IsMap
<1>17. SwappedAs(m, after, n)
    BY <1>7, <1>8, <1>9, <1>10, <1>16 DEF SwappedAs
<1> QED
    BY <1>15, <1>16, <1>17

(***************************************************************************)
(* New patches.                                                            *)
(***************************************************************************)

\* What is registered stays, what is new has a new key.
NewPatchAs(kf, m, key, n) ==
    /\ key >= patch_key
    /\ DOMAIN m.patches_by_id = Registered \cup ((patch_key + 1) .. key)
    /\ \A p \in Registered : m.patches_by_id[p] = patches_by_id[p]
    /\ \A j \in 0 .. n :
          m.keyframe[j].associated_patches \subseteq
              kf[j].associated_patches \cup ((patch_key + 1) .. key)

\* A keyframe gets a patch with a new key, or none.
LEMMA NewPatchSound ==
    ASSUME NEW kf, NEW nbs, NEW ls, NEW n, NEW k \in 0 .. n, NEW seen \in SUBSET Int,
           Sound(kf, patches_by_id, ls, patch_key, n),
           Filed(all_patches_map, CellsOf(patches_by_id, patch_key)),
           NEW m, m = with_new_patch(kf, nbs, k, seen),
           NEW key, key = patch_key + Cardinality(DOMAIN m.patches_by_id \ Registered)
    PROVE  /\ Sound(m.keyframe, m.patches_by_id, ls, key, n)
           /\ Filed(m.all_patches_map, CellsOf(m.patches_by_id, key))
           /\ NewPatchAs(kf, m, key, n)
<1>1. /\ n \in Nat /\ patch_key \in Nat /\ Registered \subseteq 1 .. patch_key
      /\ kf \in [0 .. n -> KeyframeInfos(ls, 1 .. patch_key)]
      /\ patches_by_id \in [Registered -> PatchInfos(0 .. n)]
    BY DEF Sound, Typed, Registered
<1> DEFINE start == [keyframe |-> kf, patches_by_id |-> patches_by_id, all_patches_map |-> all_patches_map]
           new == patch_key + 1
<1>2. [Map EXCEPT !.keyframe = kf] = start
    BY DEF Map
<1>3. m = start \/ \E c \in Int : m = insert_patch(start, k, NewPatch(kf, k, c))
  <2>1. \A x \in Int : GridKey(x) \in Int
    BY ConstantsAssumption DEF GridKey
  <2> HIDE DEF start
  <2> QED
    BY <1>2, <2>1 DEF with_new_patch
<1>4. CASE m = start
  <2>1. key = patch_key
    <3>1. DOMAIN m.patches_by_id \ Registered = {}
      BY <1>4 DEF Registered
    <3>2. Cardinality(DOMAIN m.patches_by_id \ Registered) = 0
      BY <3>1, FS_EmptySet
    <3>3. key = patch_key + 0
      BY <3>2
    <3> QED
      BY <1>1, <3>3
  <2>2. (patch_key + 1) .. key = {}
    BY <1>1, <2>1
  <2>3. m.keyframe = kf /\ m.patches_by_id = patches_by_id /\ m.all_patches_map = all_patches_map
    BY <1>4
  <2> HIDE DEF start, new
  <2>4. Sound(m.keyframe, m.patches_by_id, ls, key, n) /\ Filed(m.all_patches_map, CellsOf(m.patches_by_id, key))
    BY <2>1, <2>3
  <2>5. key >= patch_key
    BY <1>1, <2>1
  <2>6. DOMAIN m.patches_by_id = Registered \cup ((patch_key + 1) .. key)
    BY <2>2, <2>3 DEF Registered
  <2>7. \A p \in Registered : m.patches_by_id[p] = patches_by_id[p]
    BY <2>3
  <2>8. \A j \in 0 .. n : m.keyframe[j].associated_patches \subseteq
                             kf[j].associated_patches \cup ((patch_key + 1) .. key)
    BY <2>3
  <2> QED
    BY <2>4, <2>5, <2>6, <2>7, <2>8 DEF NewPatchAs
<1>5. CASE \E c \in Int : m = insert_patch(start, k, NewPatch(kf, k, c))
  <2>1. PICK c \in Int : m = insert_patch(start, k, NewPatch(kf, k, c))
    BY <1>5
  <2> DEFINE info == NewPatch(kf, k, c)
             kf2 == [kf EXCEPT ![k].local_patches = @ \cup {new}, ![k].associated_patches = @ \cup {new}]
             registry == With(patches_by_id, new, info)
             reached == get_grid_indices(info.enlarged_bound_w)
  <2>2. /\ m.keyframe = kf2 /\ m.patches_by_id = registry
        /\ m.all_patches_map = GridInsert(all_patches_map, new, reached)
    BY <2>1 DEF insert_patch
  <2>3. new \in Nat /\ new \notin Registered /\ new \notin 1 .. patch_key
    BY <1>1
  <2>4. /\ DOMAIN registry = Registered \cup {new}
        /\ registry = [p \in Registered \cup {new} |-> registry[p]]
        /\ \A p \in Registered : registry[p] = patches_by_id[p]
        /\ registry[new] = info
    BY <2>3 DEF With, Registered
  <2>5. key = new /\ (patch_key + 1) .. key = {new}
    <3>1. DOMAIN m.patches_by_id \ Registered = {new}
      <4> HIDE DEF registry, new
      <4> QED
        BY <2>2, <2>3, <2>4
    <3>2. Cardinality(DOMAIN m.patches_by_id \ Registered) = 1
      BY <3>1, FS_Singleton
    <3>3. key = new
      BY <3>2
    <3>4. (patch_key + 1) .. (patch_key + 1) = {patch_key + 1}
      BY <1>1
    <3> QED
      BY <3>3, <3>4
  <2> DEFINE box == Box((c - 1) * Cut, c * Cut)
  <2>6. /\ info = [keyframe |-> k, T_obj_lidar |-> kf[k].T_w_lidar - box.lower,
                   create_keyframe_num |-> k, last_update_keyframe_num |-> k,
                   bound_w |-> box, enlarged_bound_w |-> Enlarged(box)]
        /\ box \in Boxes /\ Enlarged(box) \in Boxes /\ Length(box) = Cut
    <3>1. (c - 1) * Cut \in Int /\ c * Cut \in Int /\ c * Cut - (c - 1) * Cut = Cut /\ Skin \in Int
      BY ConstantsAssumption
    <3> QED
      BY <3>1, SMTT(30) DEF NewPatch, Box, Boxes, Enlarged, Length
  <2>7. kf[k].T_w_lidar \in Int
    BY <1>1 DEF KeyframeInfos
  <2> HIDE DEF registry, kf2, new, reached, info, box
  <2>8. info \in PatchInfos(0 .. n) /\ BoxAt(kf, info) /\ info.keyframe = k /\ info.keyframe <= Middle(info)
    <3>1. box.lower \in Int /\ kf[k].T_w_lidar - box.lower \in Int
      BY <2>6, <2>7 DEF Boxes
    <3>2. info \in PatchInfos(0 .. n)
      BY <2>6, <3>1 DEF PatchInfos
    <3>3. /\ info.keyframe = k /\ info.T_obj_lidar = kf[k].T_w_lidar - box.lower
          /\ info.create_keyframe_num = k /\ info.last_update_keyframe_num = k
          /\ info.bound_w = box /\ info.enlarged_bound_w = Enlarged(box)
      BY <2>6
    <3>4. BoxAt(kf, info)
      BY <2>6, <2>7, <3>1, <3>3 DEF BoxAt
    <3>5. info.keyframe <= Middle(info)
      BY <3>3 DEF Middle
    <3> QED
      BY <3>2, <3>3, <3>4, <3>5
  <2>9. /\ DOMAIN kf2 = 0 .. n /\ kf2 = [j \in 0 .. n |-> kf2[j]]
        /\ \A j \in 0 .. n \ {k} : kf2[j] = kf[j]
        /\ kf2[k] = [T_w_lidar |-> kf[k].T_w_lidar, label |-> kf[k].label,
                     local_patches |-> kf[k].local_patches \cup {new},
                     associated_patches |-> kf[k].associated_patches \cup {new}]
    <3>1. kf[k] = [T_w_lidar |-> kf[k].T_w_lidar, label |-> kf[k].label,
                   local_patches |-> kf[k].local_patches,
                   associated_patches |-> kf[k].associated_patches]
      BY <1>1 DEF KeyframeInfos
    <3>2. kf2 = [j \in 0 .. n |-> IF j = k THEN [kf[k] EXCEPT !.local_patches = @ \cup {new},
                                                           !.associated_patches = @ \cup {new}]
                                ELSE kf[j]]
      BY <1>1 DEF kf2
    <3>3. kf2[k] = [kf[k] EXCEPT !.local_patches = @ \cup {new}, !.associated_patches = @ \cup {new}]
      BY <3>2
    <3>4. /\ DOMAIN kf2 = 0 .. n /\ kf2 = [j \in 0 .. n |-> kf2[j]]
          /\ \A j \in 0 .. n \ {k} : kf2[j] = kf[j]
      BY <3>2
    <3> QED
      BY <3>1, <3>3, <3>4
  <2>10. ASSUME NEW j \in 0 .. n
         PROVE  /\ kf2[j] \in KeyframeInfos(ls, 1 .. new)
                /\ kf2[j].T_w_lidar = kf[j].T_w_lidar /\ kf2[j].label = kf[j].label
                /\ kf2[j].local_patches = kf[j].local_patches \cup (IF j = k THEN {new} ELSE {})
                /\ kf2[j].associated_patches \subseteq kf[j].associated_patches \cup {new}
    <3>1. kf[j] \in KeyframeInfos(ls, 1 .. patch_key) /\ 1 .. patch_key \subseteq 1 .. new /\ new \in 1 .. new
      BY <1>1 DEF new
    <3>2. CASE j = k
      BY <2>9, <3>1, <3>2 DEF KeyframeInfos
    <3>3. CASE j # k
      <4>1. kf2[j] = kf[j]
        BY <2>9, <3>3
      <4> QED
        BY <3>1, <3>3, <4>1 DEF KeyframeInfos
    <3> QED
      BY <3>2, <3>3
  <2>11. Typed(kf2, registry, ls, new, n)
    <3>1. \A p \in Registered \cup {new} : registry[p] \in PatchInfos(0 .. n)
      BY <1>1, <2>4, <2>8
    <3>2. Registered \cup {new} \subseteq 1 .. new
      <4>1. 1 .. patch_key \subseteq 1 .. new /\ new \in 1 .. new
        BY <1>1 DEF new
      <4> QED
        BY <1>1, <4>1
    <3> QED
      BY <1>1, <2>3, <2>4, <2>9, <2>10, <3>1, <3>2 DEF Typed
  <2>12. Listed(kf2, registry)
    <3>1. SUFFICES ASSUME NEW j \in 0 .. n
                   PROVE  kf2[j].local_patches = {p \in DOMAIN registry : registry[p].keyframe = j}
      BY <2>9 DEF Listed
    <3>2. kf[j].local_patches = {p \in Registered : patches_by_id[p].keyframe = j}
      BY <1>1 DEF Sound, Listed, Registered
    <3> QED
      BY <2>3, <2>4, <2>8, <2>10, <3>2
  <2>13. Boxed(kf2, registry)
    <3>1. SUFFICES ASSUME NEW p \in Registered \cup {new}
                   PROVE  BoxAt(kf2, registry[p])
      BY <2>4 DEF Boxed
    <3>2. BoxAt(kf, registry[p]) /\ registry[p].keyframe \in 0 .. n
      <4>1. CASE p = new
        BY <2>4, <2>8, <4>1
      <4>2. CASE p \in Registered
        BY <1>1, <2>4, <4>2 DEF Sound, Boxed, Registered, PatchInfos
      <4> QED
        BY <4>1, <4>2
    <3> QED
      BY <2>10, <3>2 DEF BoxAt
  <2>14. BeforeMiddle(registry)
    BY <2>4, <2>8 DEF BeforeMiddle, Sound, Registered
  <2>15. Filed(m.all_patches_map, CellsOf(registry, new))
    <3> DEFINE cells == CellsOf(patches_by_id, patch_key)
               wider == CellsOf(patches_by_id, new)
    <3>1. /\ DOMAIN cells = 1 .. patch_key /\ DOMAIN wider = (1 .. patch_key) \cup {new}
          /\ wider = [p \in DOMAIN wider |-> wider[p]]
          /\ \A p \in 1 .. patch_key : wider[p] = cells[p]
          /\ wider[new] = {}
      <4>1. 1 .. new = (1 .. patch_key) \cup {new}
        BY <1>1 DEF new
      <4> QED
        BY <2>3, <4>1 DEF CellsOf, Registered
    <3> HIDE DEF cells, wider
    <3>2. \A x : Within(wider, x) = Within(cells, x)
      BY <2>3, <3>1 DEF Within
    <3>3. Filed(all_patches_map, wider)
      <4>1. Filed(all_patches_map, cells)
        BY DEF cells
      <4> QED
        BY <3>1, <3>2, <4>1 DEF Filed
    <3>4. Filed(GridInsert(all_patches_map, new, reached), [wider EXCEPT ![new] = reached])
      BY <3>1, <3>3, PutIn
    <3>5. [wider EXCEPT ![new] = reached] = CellsOf(registry, new)
      <4>1. 1 .. new = (1 .. patch_key) \cup {new}
        BY <1>1 DEF new
      <4>2. \A p \in 1 .. patch_key : CellsOf(registry, new)[p] = cells[p]
        BY <2>3, <2>4, <4>1 DEF CellsOf, cells, Registered
      <4>3. CellsOf(registry, new)[new] = reached
        BY <2>4, <4>1 DEF CellsOf, reached
      <4>4. CellsOf(registry, new) = [p \in (1 .. patch_key) \cup {new} |-> CellsOf(registry, new)[p]]
        BY <4>1 DEF CellsOf
      <4> QED
        BY <2>3, <3>1, <4>2, <4>3, <4>4
    <3> QED
      BY <2>2, <3>4, <3>5
  <2>16. Sound(kf2, registry, ls, new, n)
    BY <2>11, <2>12, <2>13, <2>14 DEF Sound
  <2>17. new >= patch_key
    BY <1>1 DEF new
  <2>18. \A j \in 0 .. n : kf2[j].associated_patches \subseteq kf[j].associated_patches \cup {new}
    BY <2>10
  <2>19. NewPatchAs(kf, m, key, n)
    BY <2>2, <2>4, <2>5, <2>17, <2>18 DEF NewPatchAs
  <2> QED
    BY <2>2, <2>5, <2>15, <2>16, <2>19
<1> QED
    BY <1>3, <1>4, <1>5

(***************************************************************************)
(* Operations that leave every patch with its owner.                       *)
(***************************************************************************)

\* Labels and associations of the keyframes do not matter to the patches.
LEMMA DressedSound ==
    ASSUME NEW kf1, NEW registry, NEW ls1, NEW ls2, NEW key, NEW n,
           Sound(kf1, registry, ls1, key, n),
           NEW kf2, kf2 \in [0 .. n -> KeyframeInfos(ls2, 1 .. key)],
           \A k \in 0 .. n : /\ kf2[k].T_w_lidar = kf1[k].T_w_lidar
                             /\ kf2[k].local_patches = kf1[k].local_patches
    PROVE  Sound(kf2, registry, ls2, key, n)
<1>1. /\ n \in Nat /\ kf1 \in [0 .. n -> KeyframeInfos(ls1, 1 .. key)]
      /\ registry \in [DOMAIN registry -> PatchInfos(0 .. n)]
    BY DEF Sound, Typed
<1>2. Typed(kf2, registry, ls2, key, n)
    BY DEF Sound, Typed
<1>3. Listed(kf2, registry)
    BY <1>1 DEF Sound, Listed
<1>4. Boxed(kf2, registry)
  <2>1. \A p \in DOMAIN registry : registry[p].keyframe \in 0 .. n
    BY <1>1 DEF PatchInfos
  <2> QED
    BY <1>1, <2>1 DEF Sound, Boxed, BoxAt
<1> QED
    BY <1>2, <1>3, <1>4 DEF Sound

\* Keyframes get the associations a.
LEMMA AssociatedSound ==
    ASSUME NEW m, IsMap(m), NEW ls, NEW key, NEW n, Sound(m.keyframe, m.patches_by_id, ls, key, n),
           NEW a, a \in [0 .. n -> SUBSET (1 .. key)],
           NEW after, after = Associated(m, a)
    PROVE  /\ IsMap(after) /\ Sound(after.keyframe, after.patches_by_id, ls, key, n)
           /\ after.patches_by_id = m.patches_by_id /\ after.all_patches_map = m.all_patches_map
           /\ \A k \in 0 .. n : after.keyframe[k].associated_patches \subseteq a[k]
<1> DEFINE kf == [k \in DOMAIN m.keyframe |-> [m.keyframe[k] EXCEPT !.associated_patches = a[k]]]
<1>1. after = [keyframe |-> kf, patches_by_id |-> m.patches_by_id, all_patches_map |-> m.all_patches_map]
  <2>1. after = [m EXCEPT !.keyframe = kf]
    BY DEF Associated
  <2> HIDE DEF kf
  <2> QED
    BY <2>1 DEF IsMap
<1>2. m.keyframe \in [0 .. n -> KeyframeInfos(ls, 1 .. key)]
    BY DEF Sound, Typed
<1>3. DOMAIN kf = 0 .. n /\ kf = [k \in 0 .. n |-> kf[k]]
    BY <1>2
<1>4. ASSUME NEW k \in 0 .. n
      PROVE  /\ kf[k] \in KeyframeInfos(ls, 1 .. key)
             /\ kf[k].T_w_lidar = m.keyframe[k].T_w_lidar
             /\ kf[k].local_patches = m.keyframe[k].local_patches
             /\ kf[k].associated_patches = a[k]
  <2>1. m.keyframe[k] \in KeyframeInfos(ls, 1 .. key) /\ a[k] \in SUBSET (1 .. key)
    BY <1>2
  <2>2. kf[k] = [m.keyframe[k] EXCEPT !.associated_patches = a[k]]
    BY <1>2
  <2> HIDE DEF kf
  <2> QED
    BY <2>1, <2>2 DEF KeyframeInfos
<1> HIDE DEF kf
<1>5. Sound(kf, m.patches_by_id, ls, key, n)
  <2>1. kf \in [0 .. n -> KeyframeInfos(ls, 1 .. key)]
    BY <1>3, <1>4
  <2>2. \A k \in 0 .. n : /\ kf[k].T_w_lidar = m.keyframe[k].T_w_lidar
                          /\ kf[k].local_patches = m.keyframe[k].local_patches
    BY <1>4
  <2>3. Sound(m.keyframe, m.patches_by_id, ls, key, n)
    OBVIOUS
  <2> QED
    BY ONLY <2>1, <2>2, <2>3, DressedSound
<1> QED
    BY <1>1, <1>4, <1>5 DEF IsMap

\* A keyframe gets another label.
LEMMA RelabelledSound ==
    ASSUME NEW m, IsMap(m), NEW ls, NEW key, NEW n, Sound(m.keyframe, m.patches_by_id, ls, key, n),
           NEW c \in 0 .. n, NEW label \in ls,
           NEW after, after = [m EXCEPT !.keyframe[c].label = label]
    PROVE  /\ IsMap(after) /\ Sound(after.keyframe, after.patches_by_id, ls, key, n)
           /\ after.patches_by_id = m.patches_by_id /\ after.all_patches_map = m.all_patches_map
           /\ \A k \in 0 .. n : after.keyframe[k].associated_patches = m.keyframe[k].associated_patches
<1> DEFINE kf == [m.keyframe EXCEPT ![c].label = label]
<1>1. after = [keyframe |-> kf, patches_by_id |-> m.patches_by_id, all_patches_map |-> m.all_patches_map]
  <2>1. after = [m EXCEPT !.keyframe = kf]
    OBVIOUS
  <2> HIDE DEF kf
  <2> QED
    BY <2>1 DEF IsMap
<1>2. m.keyframe \in [0 .. n -> KeyframeInfos(ls, 1 .. key)]
    BY DEF Sound, Typed
<1>3. kf = [k \in 0 .. n |-> kf[k]]
    BY <1>2
<1>4. ASSUME NEW k \in 0 .. n
      PROVE  /\ kf[k] \in KeyframeInfos(ls, 1 .. key)
             /\ kf[k].T_w_lidar = m.keyframe[k].T_w_lidar
             /\ kf[k].local_patches = m.keyframe[k].local_patches
             /\ kf[k].associated_patches = m.keyframe[k].associated_patches
  <2>1. m.keyframe[k] \in KeyframeInfos(ls, 1 .. key)
    BY <1>2
  <2>2. kf[k] = IF k = c THEN [m.keyframe[k] EXCEPT !.label = label] ELSE m.keyframe[k]
    BY <1>2
  <2> HIDE DEF kf
  <2>3. CASE k = c
    BY <2>1, <2>2, <2>3 DEF KeyframeInfos
  <2>4. CASE k # c
    BY <2>1, <2>2, <2>4
  <2> QED
    BY <2>3, <2>4
<1> HIDE DEF kf
<1>5. Sound(kf, m.patches_by_id, ls, key, n)
  <2>1. kf \in [0 .. n -> KeyframeInfos(ls, 1 .. key)]
    BY <1>3, <1>4
  <2>2. \A k \in 0 .. n : /\ kf[k].T_w_lidar = m.keyframe[k].T_w_lidar
                          /\ kf[k].local_patches = m.keyframe[k].local_patches
    BY <1>4
  <2>3. Sound(m.keyframe, m.patches_by_id, ls, key, n)
    OBVIOUS
  <2> QED
    BY ONLY <2>1, <2>2, <2>3, DressedSound
<1> QED
    BY <1>1, <1>4, <1>5 DEF IsMap

\* The other loop of apply_overlap_removal_plan: what was exchanged is in no
\* list afterwards, what replaced it is in the map.
LEMMA ExchangedSound ==
    ASSUME NEW m, IsMap(m), NEW ls, NEW key, NEW n, Sound(m.keyframe, m.patches_by_id, ls, key, n),
           NEW plan, NEW gone,
           \A p \in gone : plan.replacement[p] \in DOMAIN m.patches_by_id \ gone,
           NEW after, after = Exchanged(m, plan, gone)
    PROVE  /\ IsMap(after) /\ Sound(after.keyframe, after.patches_by_id, ls, key, n)
           /\ after.patches_by_id = m.patches_by_id /\ after.all_patches_map = m.all_patches_map
           /\ \A k \in 0 .. n :
                after.keyframe[k].associated_patches \subseteq
                    (m.keyframe[k].associated_patches \cup DOMAIN m.patches_by_id) \ gone
<1> DEFINE old(k) == m.keyframe[k].associated_patches \cap gone
           a == [k \in 0 .. n |-> (m.keyframe[k].associated_patches \ old(k))
                                     \cup {plan.replacement[p] : p \in old(k)}]
<1>1. /\ m.keyframe \in [0 .. n -> KeyframeInfos(ls, 1 .. key)]
      /\ DOMAIN m.patches_by_id \subseteq 1 .. key
    BY DEF Sound, Typed
<1>2. \A k \in 0 .. n : m.keyframe[k].associated_patches \subseteq 1 .. key
    BY <1>1 DEF KeyframeInfos
<1>3. \A k \in 0 .. n : a[k] \subseteq (m.keyframe[k].associated_patches \cup DOMAIN m.patches_by_id) \ gone
    OBVIOUS
<1>4. a \in [0 .. n -> SUBSET (1 .. key)]
  <2>1. \A k \in 0 .. n : a[k] \in SUBSET (1 .. key)
    BY <1>1, <1>2, <1>3
  <2>2. a = [k \in 0 .. n |-> a[k]]
    OBVIOUS
  <2> HIDE DEF a
  <2> QED
    BY <2>1, <2>2
<1>5. after = Associated(m, a)
  <2>1. [k \in DOMAIN m.keyframe |->
            [m.keyframe[k] EXCEPT !.associated_patches = (@ \ old(k)) \cup {plan.replacement[p] : p \in old(k)}]]
        = [k \in DOMAIN m.keyframe |-> [m.keyframe[k] EXCEPT !.associated_patches = a[k]]]
    BY <1>1
  <2> HIDE DEF a
  <2> QED
    BY <2>1 DEF Associated, Exchanged
<1> HIDE DEF a
<1>6. IsMap(m) /\ Sound(m.keyframe, m.patches_by_id, ls, key, n)
    OBVIOUS
<1>7. /\ IsMap(after) /\ Sound(after.keyframe, after.patches_by_id, ls, key, n)
      /\ after.patches_by_id = m.patches_by_id /\ after.all_patches_map = m.all_patches_map
  <2>1. IsMap(after)
    BY ONLY <1>4, <1>5, <1>6, AssociatedSound
  <2>2. Sound(after.keyframe, after.patches_by_id, ls, key, n)
    BY ONLY <1>4, <1>5, <1>6, AssociatedSound
  <2>3. after.patches_by_id = m.patches_by_id /\ after.all_patches_map = m.all_patches_map
    BY <1>5, <1>6 DEF Associated, IsMap
  <2> QED
    BY <2>1, <2>2, <2>3
<1>8. \A k \in 0 .. n : after.keyframe[k].associated_patches \subseteq a[k]
    BY ONLY <1>4, <1>5, <1>6, AssociatedSound
<1>9. ASSUME NEW k \in 0 .. n
      PROVE  after.keyframe[k].associated_patches \subseteq
                   (m.keyframe[k].associated_patches \cup DOMAIN m.patches_by_id) \ gone
    BY <1>3, <1>8
<1> QED
    BY <1>7, <1>9

(***************************************************************************)
(* The inductive invariant.                                                *)
(***************************************************************************)
Keyframes == 0 .. latest_keyframe
Labels == DOMAIN neighbor_label_frame_num
Keys == 1 .. patch_key

LabelsShaped ==
    /\ neighbor_label_frame_num \in [Labels -> SUBSET Labels]
    /\ \A l \in Labels : l \in neighbor_label_frame_num[l]
    /\ curr_label \in Labels

LoopShaped(l, ls, key, n) ==
    /\ l.current \in 0 .. n
    /\ l.source_label \in ls /\ l.merged_label \in ls
    /\ PlanShaped(l.plan, key, n)

LoopsShaped ==
    /\ loops \in Seq(Range(loops))
    /\ \A i \in 1 .. Len(loops) : LoopShaped(loops[i], Labels, patch_key, latest_keyframe)

ScansShaped ==
    scan_to_map # <<>> =>
        /\ Head(scan_to_map).current \in Keyframes
        /\ Head(scan_to_map).source_label \in Labels /\ Head(scan_to_map).merged_label \in Labels

PairsShaped ==
    /\ pending_associated_keyframes \in [DOMAIN pending_associated_keyframes -> Keyframes]
    /\ DOMAIN pending_associated_keyframes \subseteq Keyframes

\* The keyframe that closes a loop is the latest, its pair waits, and the loops
\* in flight are those of earlier ones.
LatestCloses ==
    /\ pc = "strict" => latest_keyframe \in DOMAIN pending_associated_keyframes
    /\ pc \in {"detect", "strict"} => \A i \in 1 .. Len(loops) : loops[i].current < latest_keyframe

Bounded ==
    /\ pc \in {"top", "detect", "strict", "update"}
    /\ keyframe_size <= MaxKeyframes /\ patch_key <= MaxPatches
    /\ succeed_associations \subseteq Keys

\* The frame's associations outlive their patches only while a strict loop is
\* on its way.
FrameFresh ==
    /\ pc = "top" => succeed_associations = {}
    /\ pc = "detect" \/ (pc = "update" /\ loops = <<>>) => succeed_associations \subseteq Registered

\* The replacement of a patch is in the map and stays there until the plan is
\* carried out, unless the two plans crossed.
ReplacementsStay ==
    \A i \in 1 .. Len(loops) : \A p \in DOMAIN loops[i].plan.replacement \ crossed :
        /\ loops[i].plan.replacement[p] \in Registered
        /\ \A j \in 1 .. i : loops[i].plan.replacement[p] \notin DOMAIN loops[j].plan.owner

\* What was replaced is not in the map.
ReplacedGone == replaced \subseteq Keys \ Registered

Shaped == LabelsShaped /\ LoopsShaped /\ ScansShaped /\ PairsShaped

Invariant ==
    /\ SoundMap /\ Shaped
    /\ LatestCloses /\ Bounded /\ FrameFresh
    /\ ReplacementsStay /\ ReplacedGone /\ HolesOnlyCrossed /\ AssociationsFollow

\* A step that leaves keyframes 0 .. n and their patches sound.
LEMMA StillSound ==
    ASSUME NEW CONSTANT n, Sound(keyframe', patches_by_id', Labels', patch_key', n),
           Filed(all_patches_map', CellsOf(patches_by_id', patch_key'))
    PROVE  SoundMap' /\ latest_keyframe' = n
<1>1. n \in Nat /\ DOMAIN keyframe' = 0 .. n
    BY DEF Sound, Typed
<1>2. Cardinality(0 .. n) = n + 1
    BY <1>1, FS_Interval
<1>3. latest_keyframe' = n
    BY <1>1, <1>2 DEF latest_keyframe, keyframe_size
<1> QED
    BY <1>3 DEF SoundMap, Labels

LEMMA Sizes ==
    ASSUME SoundMap
    PROVE  /\ latest_keyframe \in Nat /\ patch_key \in Nat /\ keyframe_size = latest_keyframe + 1
           /\ DOMAIN keyframe = Keyframes /\ Registered \subseteq Keys
           /\ keyframe \in [Keyframes -> KeyframeInfos(Labels, Keys)]
           /\ patches_by_id \in [Registered -> PatchInfos(Keyframes)]
<1>1. /\ latest_keyframe \in Nat /\ patch_key \in Nat
      /\ DOMAIN keyframe = Keyframes /\ Registered \subseteq Keys
      /\ keyframe \in [Keyframes -> KeyframeInfos(Labels, Keys)]
      /\ patches_by_id \in [Registered -> PatchInfos(Keyframes)]
    BY DEF SoundMap, Sound, Typed, Registered, Keyframes, Labels, Keys
<1>2. Cardinality(0 .. latest_keyframe) = latest_keyframe + 1
    BY <1>1, FS_Interval
<1>3. keyframe_size = latest_keyframe + 1
    BY <1>1, <1>2 DEF keyframe_size, Keyframes
<1> QED
    BY <1>1, <1>3

\* What a loop says of keyframes, labels and patches stays true when there are more.
LEMMA LoopWidens ==
    ASSUME NEW l, NEW ls1, NEW ls2, NEW key1 \in Nat, NEW key2 \in Nat, NEW n1 \in Nat, NEW n2 \in Nat,
           LoopShaped(l, ls1, key1, n1), ls1 \subseteq ls2, key1 <= key2, n1 <= n2
    PROVE  LoopShaped(l, ls2, key2, n2)
<1>1. 0 .. n1 \subseteq 0 .. n2 /\ 1 .. key1 \subseteq 1 .. key2
    OBVIOUS
<1>2. PlanShaped(l.plan, key2, n2)
    BY <1>1 DEF LoopShaped, PlanShaped
<1> QED
    BY <1>1, <1>2 DEF LoopShaped

LEMMA StillShaped ==
    ASSUME Shaped, SoundMap, SoundMap', LabelsShaped', Labels \subseteq Labels',
           patch_key <= patch_key', latest_keyframe <= latest_keyframe',
           UNCHANGED <<loops, scan_to_map, pending_associated_keyframes>>
    PROVE  Shaped'
<1>1. /\ latest_keyframe \in Nat /\ patch_key \in Nat /\ latest_keyframe' \in Nat /\ patch_key' \in Nat
    BY DEF SoundMap, Sound, Typed
<1>2. LoopsShaped'
  <2>1. \A i \in 1 .. Len(loops) : LoopShaped(loops[i], Labels', patch_key', latest_keyframe')
    <3>1. TAKE i \in 1 .. Len(loops)
    <3>2. LoopShaped(loops[i], Labels, patch_key, latest_keyframe)
      BY DEF Shaped, LoopsShaped
    <3> QED
      BY <1>1, <3>2, LoopWidens
  <2> QED
    BY <2>1 DEF Shaped, LoopsShaped
<1>3. Keyframes \subseteq Keyframes'
    BY <1>1 DEF Keyframes
<1>4. ScansShaped'
    BY <1>3 DEF Shaped, ScansShaped
<1>5. PairsShaped'
    BY <1>3 DEF Shaped, PairsShaped
<1> QED
    BY <1>2, <1>4, <1>5 DEF Shaped

\* The owner of a patch is never an earlier keyframe than before.
Forward ==
    \A p \in Registered \cap DOMAIN patches_by_id' :
        patches_by_id'[p].keyframe >= patches_by_id[p].keyframe

LEMMA SameOwners ==
    ASSUME SoundMap,
           \A p \in Registered \cap DOMAIN patches_by_id' :
               patches_by_id'[p].keyframe = patches_by_id[p].keyframe
    PROVE  Forward
<1>1. \A p \in Registered : patches_by_id[p].keyframe \in Int
  <2>1. patches_by_id \in [Registered -> PatchInfos(Keyframes)] /\ Keyframes \subseteq Int
    BY Sizes DEF Keyframes
  <2> QED
    BY <2>1 DEF PatchInfos
<1>2. ASSUME NEW p \in Registered \cap DOMAIN patches_by_id'
      PROVE  patches_by_id'[p].keyframe >= patches_by_id[p].keyframe
  <2>1. patches_by_id'[p].keyframe = patches_by_id[p].keyframe
    OBVIOUS
  <2>2. patches_by_id[p].keyframe \in Int
    BY <1>1
  <2> QED
    BY <2>1, <2>2
<1> QED
    BY <1>2 DEF Forward

\* A step that touches neither keyframes nor patches nor labels.
LEMMA MapStays ==
    ASSUME SoundMap, LabelsShaped,
           UNCHANGED <<keyframe, neighbor_label_frame_num, curr_label, patches>>
    PROVE  /\ SoundMap' /\ LabelsShaped' /\ Forward
           /\ latest_keyframe' = latest_keyframe /\ keyframe_size' = keyframe_size
           /\ Labels' = Labels /\ Keys' = Keys /\ Registered' = Registered /\ Keyframes' = Keyframes
<1>1. /\ latest_keyframe' = latest_keyframe /\ keyframe_size' = keyframe_size
      /\ Labels' = Labels /\ Keys' = Keys /\ Registered' = Registered /\ Keyframes' = Keyframes
    BY DEF latest_keyframe, keyframe_size, Labels, Keys, Registered, Keyframes, patches
<1>2. SoundMap'
    BY <1>1 DEF SoundMap, patches
<1>3. LabelsShaped'
    BY <1>1 DEF LabelsShaped
<1>4. Forward
    BY SameOwners DEF patches
<1> QED
    BY <1>1, <1>2, <1>3, <1>4

LEMMA NoLoopStep ==
    ASSUME Invariant, NoLoop
    PROVE  Invariant' /\ Forward
<1>1. /\ SoundMap /\ Shaped /\ LabelsShaped
      /\ UNCHANGED <<keyframe, neighbor_label_frame_num, curr_label, patches>>
    BY DEF Invariant, Shaped, NoLoop, labels
<1>2. /\ SoundMap' /\ LabelsShaped' /\ Forward
      /\ latest_keyframe' = latest_keyframe /\ keyframe_size' = keyframe_size
      /\ Labels' = Labels /\ Keys' = Keys /\ Registered' = Registered /\ Keyframes' = Keyframes
    BY <1>1, MapStays
<1>3. Shaped'
  <2>1. patch_key' = patch_key /\ patch_key \in Nat /\ latest_keyframe \in Nat
    BY <1>1, Sizes DEF patches
  <2> QED
    BY <1>1, <1>2, <2>1, StillShaped DEF NoLoop, closing
<1>4. LatestCloses' /\ FrameFresh'
    BY <1>2 DEF LatestCloses, FrameFresh, NoLoop, Invariant
<1>5. Bounded'
    BY <1>2 DEF Bounded, NoLoop, Invariant, patches
<1>6. ReplacementsStay' /\ ReplacedGone' /\ HolesOnlyCrossed'
    BY <1>2 DEF Invariant, NoLoop, ReplacementsStay, ReplacedGone, HolesOnlyCrossed, closing, history
<1>7. AssociationsFollow'
    BY DEF Invariant, NoLoop, AssociationsFollow, history
<1> QED
    BY <1>2, <1>3, <1>4, <1>5, <1>6, <1>7 DEF Invariant

LEMMA ScanToMapLoopStep ==
    ASSUME Invariant, NEW h, ScanToMapLoop(h)
    PROVE  Invariant' /\ Forward
<1>1. /\ SoundMap /\ Shaped /\ LabelsShaped
      /\ UNCHANGED <<keyframe, neighbor_label_frame_num, curr_label, patches>>
    BY DEF Invariant, Shaped, ScanToMapLoop
<1>2. /\ SoundMap' /\ LabelsShaped' /\ Forward
      /\ latest_keyframe' = latest_keyframe /\ keyframe_size' = keyframe_size
      /\ Labels' = Labels /\ Keys' = Keys /\ Registered' = Registered /\ Keyframes' = Keyframes
    BY <1>1, MapStays
<1>3. Shaped'
  <2>1. patch_key' = patch_key
    BY <1>1 DEF patches
  <2>2. LoopsShaped' /\ PairsShaped'
    BY <1>1, <1>2, <2>1 DEF Shaped, LoopsShaped, PairsShaped, ScanToMapLoop
  <2>3. /\ latest_keyframe \in Keyframes /\ h \in Keyframes
        /\ keyframe \in [Keyframes -> KeyframeInfos(Labels, Keys)]
    BY <1>1, Sizes DEF ScanToMapLoop, ConnectedKeyframes, Keyframes
  <2>4. keyframe[latest_keyframe].label \in Labels /\ keyframe[h].label \in Labels
    BY <2>3 DEF KeyframeInfos
  <2> DEFINE l == [current |-> latest_keyframe, source_label |-> keyframe[latest_keyframe].label,
                   merged_label |-> keyframe[h].label]
  <2>5. l.current \in Keyframes /\ l.source_label \in Labels /\ l.merged_label \in Labels
    BY <2>3, <2>4
  <2>6. scan_to_map' = <<l>>
    BY DEF ScanToMapLoop
  <2> HIDE DEF l
  <2>7. Head(scan_to_map') = l
    BY <2>6
  <2>8. ScansShaped'
    BY <1>2, <2>5, <2>7 DEF ScansShaped
  <2> QED
    BY <1>2, <2>2, <2>8 DEF Shaped
<1>4. LatestCloses' /\ FrameFresh'
    BY <1>2 DEF LatestCloses, FrameFresh, ScanToMapLoop, Invariant
<1>5. Bounded'
    BY <1>2 DEF Bounded, ScanToMapLoop, Invariant, patches
<1>6. ReplacementsStay' /\ ReplacedGone' /\ HolesOnlyCrossed'
    BY <1>2 DEF Invariant, ScanToMapLoop, ReplacementsStay, ReplacedGone, HolesOnlyCrossed, history
<1>7. AssociationsFollow'
    BY DEF Invariant, ScanToMapLoop, AssociationsFollow, history
<1> QED
    BY <1>2, <1>3, <1>4, <1>5, <1>6, <1>7 DEF Invariant

LEMMA AdjustedStep ==
    ASSUME Invariant, NEW i \in DOMAIN loops, Adjusted(i)
    PROVE  Invariant' /\ Forward
<1>1. /\ SoundMap /\ Shaped /\ LabelsShaped
      /\ UNCHANGED <<keyframe, neighbor_label_frame_num, curr_label, patches>>
    BY DEF Invariant, Shaped, Adjusted
<1>2. /\ SoundMap' /\ LabelsShaped' /\ Forward
      /\ latest_keyframe' = latest_keyframe /\ keyframe_size' = keyframe_size
      /\ Labels' = Labels /\ Keys' = Keys /\ Registered' = Registered /\ Keyframes' = Keyframes
    BY <1>1, MapStays
<1> DEFINE l == [loops[i] EXCEPT !.adjusted = TRUE]
<1>3. loops' = [loops EXCEPT ![i] = l]
    BY DEF Adjusted
<1>4. loops \in Seq(Range(loops)) /\ i \in 1 .. Len(loops)
    BY <1>1 DEF Shaped, LoopsShaped
<1>5. /\ Len(loops') = Len(loops) /\ Len(loops) \in Nat
      /\ loops' = [j \in 1 .. Len(loops) |-> loops'[j]]
  <2> HIDE DEF l
  <2>1. DOMAIN loops = 1 .. Len(loops) /\ Len(loops) \in Nat
    BY <1>4
  <2>2. loops' = [j \in 1 .. Len(loops) |-> IF j = i THEN l ELSE loops[j]]
    BY <1>3, <2>1
  <2>3. Len(loops') = Len(loops)
    BY <2>1, <2>2
  <2> QED
    BY <2>1, <2>2, <2>3
<1>6. ASSUME NEW j \in 1 .. Len(loops)
      PROVE  /\ loops'[j].current = loops[j].current
             /\ loops'[j].source_label = loops[j].source_label
             /\ loops'[j].merged_label = loops[j].merged_label
             /\ loops'[j].plan = loops[j].plan
  <2>1. loops'[j] = IF j = i THEN l ELSE loops[j]
    <3> HIDE DEF l
    <3> QED
      BY <1>3, <1>4
  <2>2. CASE j = i
    BY <2>1, <2>2
  <2>3. CASE j # i
    BY <2>1, <2>3
  <2> QED
    BY <2>2, <2>3
<1>7. loops # <<>> /\ loops' # <<>>
    BY <1>4, <1>5
<1>8. Shaped'
  <2>1. patch_key' = patch_key
    BY <1>1 DEF patches
  <2>2. loops' \in Seq(Range(loops'))
    BY <1>5 DEF Range
  <2>3. \A j \in 1 .. Len(loops) : LoopShaped(loops'[j], Labels, patch_key, latest_keyframe)
    <3>1. TAKE j \in 1 .. Len(loops)
    <3>2. LoopShaped(loops[j], Labels, patch_key, latest_keyframe)
      BY <1>1 DEF Shaped, LoopsShaped
    <3> QED
      BY <1>6, <3>2 DEF LoopShaped
  <2>4. LoopsShaped'
    BY <1>2, <1>5, <2>1, <2>2, <2>3 DEF LoopsShaped
  <2>5. ScansShaped' /\ PairsShaped'
    BY <1>1, <1>2 DEF Shaped, ScansShaped, PairsShaped, Adjusted
  <2> QED
    BY <1>2, <2>4, <2>5 DEF Shaped
<1>9. LatestCloses' /\ FrameFresh'
    BY <1>2, <1>5, <1>6, <1>7 DEF LatestCloses, FrameFresh, Adjusted, Invariant, framing
<1>10. Bounded'
    BY <1>2 DEF Bounded, Adjusted, Invariant, patches, framing
<1>11. ReplacementsStay'
  <2>1. SUFFICES ASSUME NEW j \in 1 .. Len(loops),
                        NEW p \in DOMAIN loops[j].plan.replacement \ crossed
                 PROVE  /\ loops[j].plan.replacement[p] \in Registered
                        /\ \A k \in 1 .. j : loops[j].plan.replacement[p] \notin DOMAIN loops'[k].plan.owner
    BY <1>2, <1>5, <1>6 DEF ReplacementsStay, Adjusted, history
  <2> QED
    BY <1>5, <1>6 DEF Invariant, ReplacementsStay
<1>12. ReplacedGone' /\ HolesOnlyCrossed' /\ AssociationsFollow'
    BY <1>2 DEF Invariant, Adjusted, ReplacedGone, HolesOnlyCrossed, AssociationsFollow, history
<1> QED
    BY <1>2, <1>8, <1>9, <1>10, <1>11, <1>12 DEF Invariant

\* get_keyframe_point_clouds takes patches out of a keyframe's associations only.
LEMMA MapForgets ==
    ASSUME SoundMap, LabelsShaped, NEW h \in Keyframes, keyframe' = WithoutGone(h),
           UNCHANGED <<neighbor_label_frame_num, curr_label, patches>>
    PROVE  /\ SoundMap' /\ LabelsShaped' /\ Forward
           /\ latest_keyframe' = latest_keyframe /\ keyframe_size' = keyframe_size
           /\ Labels' = Labels /\ Keys' = Keys /\ Registered' = Registered /\ Keyframes' = Keyframes
           /\ DOMAIN keyframe' = Keyframes /\ DOMAIN keyframe = Keyframes
           /\ \A k \in Keyframes : keyframe'[k].associated_patches \subseteq keyframe[k].associated_patches
<1>1. /\ DOMAIN keyframe = Keyframes /\ keyframe \in [Keyframes -> KeyframeInfos(Labels, Keys)]
    BY Sizes
<1>2. Labels' = Labels /\ Keys' = Keys /\ Registered' = Registered
    BY DEF Labels, Keys, Registered, patches
<1>3. DOMAIN keyframe' = Keyframes /\ keyframe' = [k \in Keyframes |-> keyframe'[k]]
    BY <1>1 DEF WithoutGone
<1>4. ASSUME NEW k \in Keyframes
      PROVE  /\ keyframe'[k] \in KeyframeInfos(Labels, Keys)
             /\ keyframe'[k].T_w_lidar = keyframe[k].T_w_lidar
             /\ keyframe'[k].local_patches = keyframe[k].local_patches
             /\ keyframe'[k].associated_patches \subseteq keyframe[k].associated_patches
  <2>1. keyframe[k] \in KeyframeInfos(Labels, Keys)
    BY <1>1
  <2>2. keyframe'[k] = IF k = h THEN [keyframe[k] EXCEPT !.associated_patches = @ \cap Registered] ELSE keyframe[k]
    BY <1>1 DEF WithoutGone
  <2>3. CASE k = h
    BY <2>1, <2>2, <2>3 DEF KeyframeInfos
  <2>4. CASE k # h
    BY <2>1, <2>2, <2>4
  <2> QED
    BY <2>3, <2>4
<1>5. Sound(keyframe', patches_by_id', Labels', patch_key', latest_keyframe)
  <2>1. Sound(keyframe, patches_by_id, Labels, patch_key, latest_keyframe)
    BY DEF SoundMap, Labels
  <2>2. keyframe' \in [0 .. latest_keyframe -> KeyframeInfos(Labels, 1 .. patch_key)]
    BY <1>3, <1>4 DEF Keyframes, Keys
  <2>3. \A k \in 0 .. latest_keyframe : /\ keyframe'[k].T_w_lidar = keyframe[k].T_w_lidar
                                        /\ keyframe'[k].local_patches = keyframe[k].local_patches
    BY <1>4 DEF Keyframes
  <2>4. Sound(keyframe', patches_by_id, Labels, patch_key, latest_keyframe)
    BY ONLY <2>1, <2>2, <2>3, DressedSound
  <2> QED
    BY <1>2, <2>4 DEF patches
<1>6. Filed(all_patches_map', CellsOf(patches_by_id', patch_key'))
    BY DEF SoundMap, patches
<1>7. SoundMap' /\ latest_keyframe' = latest_keyframe
    BY <1>5, <1>6, StillSound
<1>8. keyframe_size' = keyframe_size /\ Keyframes' = Keyframes
    BY <1>1, <1>3, <1>7 DEF keyframe_size, Keyframes
<1>9. LabelsShaped'
    BY <1>2 DEF LabelsShaped
<1>10. Forward
    BY SameOwners DEF patches
<1> QED
    BY <1>1, <1>2, <1>3, <1>4, <1>7, <1>8, <1>9, <1>10

LEMMA AssociationsShrink ==
    ASSUME AssociationsFollow, UNCHANGED <<replaced, late>>,
           DOMAIN keyframe' = Keyframes, DOMAIN keyframe = Keyframes,
           \A k \in Keyframes : keyframe'[k].associated_patches \subseteq keyframe[k].associated_patches
    PROVE  AssociationsFollow'
    BY DEF AssociationsFollow

LEMMA StrictLoopRejectedStep ==
    ASSUME Invariant, NEW h, StrictLoopRejected(h)
    PROVE  Invariant' /\ Forward
<1>1. /\ SoundMap /\ Shaped /\ LabelsShaped
      /\ keyframe' = WithoutGone(h) /\ UNCHANGED <<neighbor_label_frame_num, curr_label, patches>>
    BY DEF Invariant, Shaped, StrictLoopRejected, labels
<1>2. h \in Keyframes
    BY <1>1, Sizes DEF StrictLoopRejected
<1>3. /\ SoundMap' /\ LabelsShaped' /\ Forward
      /\ latest_keyframe' = latest_keyframe /\ keyframe_size' = keyframe_size
      /\ Labels' = Labels /\ Keys' = Keys /\ Registered' = Registered /\ Keyframes' = Keyframes
      /\ DOMAIN keyframe' = Keyframes /\ DOMAIN keyframe = Keyframes
      /\ \A k \in Keyframes : keyframe'[k].associated_patches \subseteq keyframe[k].associated_patches
    BY <1>1, <1>2, MapForgets
<1>4. Shaped'
  <2>1. patch_key' = patch_key /\ patch_key \in Nat /\ latest_keyframe \in Nat
    BY <1>1, Sizes DEF patches
  <2> QED
    BY <1>1, <1>3, <2>1, StillShaped DEF StrictLoopRejected, closing
<1>5. LatestCloses' /\ FrameFresh'
    BY <1>3 DEF LatestCloses, FrameFresh, StrictLoopRejected, Invariant
<1>6. Bounded'
    BY <1>3 DEF Bounded, StrictLoopRejected, Invariant, patches
<1>7. ReplacementsStay' /\ ReplacedGone' /\ HolesOnlyCrossed'
    BY <1>3 DEF Invariant, StrictLoopRejected, ReplacementsStay, ReplacedGone, HolesOnlyCrossed, closing, history
<1>8. AssociationsFollow'
  <2>1. AssociationsFollow /\ UNCHANGED <<replaced, late>>
    BY DEF Invariant, StrictLoopRejected, history
  <2> QED
    BY <1>3, <2>1, AssociationsShrink
<1> QED
    BY <1>3, <1>4, <1>5, <1>6, <1>7, <1>8 DEF Invariant

LEMMA StrictLoopFoundStep ==
    ASSUME Invariant, NEW h, StrictLoopFound(h)
    PROVE  Invariant' /\ Forward
<1>1. /\ SoundMap /\ Shaped /\ LabelsShaped
      /\ keyframe' = WithoutGone(h) /\ UNCHANGED <<neighbor_label_frame_num, curr_label, patches>>
    BY DEF Invariant, Shaped, StrictLoopFound, labels
<1>2. h \in Keyframes /\ latest_keyframe \in Keyframes
    BY <1>1, Sizes DEF StrictLoopFound, Keyframes
<1>3. /\ SoundMap' /\ LabelsShaped' /\ Forward
      /\ latest_keyframe' = latest_keyframe /\ keyframe_size' = keyframe_size
      /\ Labels' = Labels /\ Keys' = Keys /\ Registered' = Registered /\ Keyframes' = Keyframes
      /\ DOMAIN keyframe' = Keyframes /\ DOMAIN keyframe = Keyframes
      /\ \A k \in Keyframes : keyframe'[k].associated_patches \subseteq keyframe[k].associated_patches
    BY <1>1, <1>2, MapForgets
<1>4. /\ pending_associated_keyframes' \in [DOMAIN pending_associated_keyframes' -> Keyframes]
      /\ DOMAIN pending_associated_keyframes' \subseteq Keyframes
      /\ latest_keyframe \in DOMAIN pending_associated_keyframes'
  <2>1. /\ pending_associated_keyframes \in [DOMAIN pending_associated_keyframes -> Keyframes]
        /\ DOMAIN pending_associated_keyframes \subseteq Keyframes
    BY <1>1 DEF Shaped, PairsShaped
  <2>2. pending_associated_keyframes' = With(pending_associated_keyframes, latest_keyframe, h)
    BY DEF StrictLoopFound
  <2> QED
    BY <1>2, <2>1, <2>2 DEF With
<1>5. Shaped'
  <2>1. patch_key' = patch_key
    BY <1>1 DEF patches
  <2>2. LoopsShaped' /\ ScansShaped'
    BY <1>1, <1>3, <2>1 DEF Shaped, LoopsShaped, ScansShaped, StrictLoopFound
  <2>3. PairsShaped'
    BY <1>3, <1>4 DEF PairsShaped
  <2> QED
    BY <1>3, <2>2, <2>3 DEF Shaped
<1>6. LatestCloses' /\ FrameFresh'
    BY <1>3, <1>4 DEF LatestCloses, FrameFresh, StrictLoopFound, Invariant
<1>7. Bounded'
    BY <1>3 DEF Bounded, StrictLoopFound, Invariant, patches
<1>8. ReplacementsStay' /\ ReplacedGone' /\ HolesOnlyCrossed'
    BY <1>3 DEF Invariant, StrictLoopFound, ReplacementsStay, ReplacedGone, HolesOnlyCrossed, history
<1>9. AssociationsFollow'
  <2>1. AssociationsFollow /\ UNCHANGED <<replaced, late>>
    BY DEF Invariant, StrictLoopFound, history
  <2> QED
    BY <1>3, <2>1, AssociationsShrink
<1> QED
    BY <1>3, <1>5, <1>6, <1>7, <1>8, <1>9 DEF Invariant

(***************************************************************************)
(* Stage 1.                                                                *)
(***************************************************************************)

\* A patch is planned away for a registered patch of the history group, which
\* the plan does not plan away.
LEMMA PlanFacts ==
    ASSUME SoundMap, NEW m, NEW current, NEW hist, current \subseteq Keyframes,
           NEW plan, plan \in overlap_removal_plans(m, current, hist)
    PROVE  /\ PlanShaped(plan, patch_key, latest_keyframe)
           /\ \A p \in DOMAIN plan.replacement : plan.replacement[p] \in Registered
<1> DEFINE listed == [p \in 1 .. patch_key |->
                        {k \in current \ hist : p \in m.keyframe[k].local_patches}]
           missing == {p \in 1 .. patch_key : listed[p] # {} /\ p \notin Registered}
           best == [p \in Registered |->
                      UNION {candidates(m, k, p, current, hist) :
                                k \in listed[p] \cap {m.patches_by_id[p].keyframe}}]
           covered == {p \in Registered : best[p] # {}}
           owner == [p \in missing \cup covered |-> CHOOSE k \in listed[p] : TRUE]
<1>1. PICK choice \in [covered -> Registered] :
          /\ \A p \in covered : choice[p] \in best[p]
          /\ plan = [owner |-> owner, replacement |-> choice]
    BY DEF overlap_removal_plans
<1>2. Registered \subseteq 1 .. patch_key
    BY Sizes DEF Keys
<1>3. \A k, p : candidates(m, k, p, current, hist) \subseteq
                    {q : q \in {r \in PatchesAt(m.all_patches_map, get_grid_indices(m.patches_by_id[p].bound_w)) :
                                  m.patches_by_id[r].keyframe \in hist \ current}}
    BY DEF candidates, covering
<1>4. \A p \in Registered : \A q \in best[p] : m.patches_by_id[q].keyframe \in hist \ current
  <2>1. TAKE p \in Registered
  <2>2. TAKE q \in best[p]
  <2>3. PICK k : q \in candidates(m, k, p, current, hist)
    OBVIOUS
  <2> HIDE DEF best, listed
  <2> QED
    BY <1>3, <2>3
<1>5. \A p \in 1 .. patch_key : listed[p] \subseteq current \ hist
    OBVIOUS
<1>6. \A p \in covered : m.patches_by_id[p].keyframe \in listed[p]
    OBVIOUS
<1>7. \A p \in missing \cup covered : owner[p] \in listed[p]
    BY <1>6
<1> HIDE DEF listed, best
<1>8. missing \cup covered \subseteq 1 .. patch_key
    BY <1>2
<1>9. \A p \in missing \cup covered : owner[p] \in 0 .. latest_keyframe
    BY <1>5, <1>7, <1>8 DEF Keyframes
<1>10. \A p \in covered : choice[p] \in Registered /\ choice[p] \notin missing \cup covered
  <2>1. TAKE p \in covered
  <2>2. choice[p] \in Registered /\ m.patches_by_id[choice[p]].keyframe \in hist \ current
    BY <1>1, <1>4
  <2>3. ASSUME choice[p] \in covered
        PROVE  FALSE
    BY <1>2, <1>5, <1>6, <2>2, <2>3
  <2> QED
    BY <2>2, <2>3
<1>11. owner = [p \in missing \cup covered |-> owner[p]] /\ DOMAIN owner = missing \cup covered
    OBVIOUS
<1> HIDE DEF missing, covered, owner
<1>12. /\ plan.owner = owner /\ plan.replacement = choice
       /\ DOMAIN choice = covered /\ choice = [p \in covered |-> choice[p]]
    BY <1>1
<1>13. plan.owner \in [DOMAIN plan.owner -> 0 .. latest_keyframe] /\ DOMAIN plan.owner \subseteq 1 .. patch_key
    BY <1>8, <1>9, <1>11, <1>12
<1>14. /\ plan.replacement \in [DOMAIN plan.replacement -> (1 .. patch_key) \ DOMAIN plan.owner]
       /\ DOMAIN plan.replacement \subseteq DOMAIN plan.owner
    BY <1>2, <1>10, <1>11, <1>12
<1> QED
    BY <1>10, <1>12, <1>13, <1>14 DEF PlanShaped

LEMMA Stage1Step ==
    ASSUME Invariant, NEW first \in Int, NEW d \in Int, Stage1(first, d)
    PROVE  Invariant' /\ Forward
<1> DEFINE current == latest_keyframe
           h == pending_associated_keyframes[current]
           merged_label == keyframe[h].label
           m == update_keyframe_pose_by_poseGraph(first, d)
           after == [m EXCEPT !.keyframe[current].label = merged_label]
<1>1. SoundMap /\ Shaped /\ LabelsShaped
    BY DEF Invariant, Shaped
<1>2. /\ latest_keyframe \in Nat /\ patch_key \in Nat /\ keyframe_size = latest_keyframe + 1
      /\ DOMAIN keyframe = Keyframes /\ Registered \subseteq Keys
      /\ keyframe \in [Keyframes -> KeyframeInfos(Labels, Keys)]
      /\ patches_by_id \in [Registered -> PatchInfos(Keyframes)]
    BY <1>1, Sizes
<1>3. current \in Keyframes /\ h \in Keyframes
  <2>1. current \in DOMAIN pending_associated_keyframes
    BY DEF Invariant, LatestCloses, Stage1
  <2> QED
    BY <1>1, <1>2, <2>1 DEF Shaped, PairsShaped, Keyframes
<1>4. keyframe[current].label \in Labels /\ merged_label \in Labels
    BY <1>2, <1>3 DEF KeyframeInfos
<1>5. IsMap(m)
    BY DEF IsMap, update_keyframe_pose_by_poseGraph
<1> HIDE DEF m
<1>6. /\ Sound(m.keyframe, m.patches_by_id, Labels, patch_key, latest_keyframe)
      /\ Filed(m.all_patches_map, CellsOf(m.patches_by_id, patch_key))
      /\ \A k \in DOMAIN keyframe : m.keyframe[k].associated_patches = keyframe[k].associated_patches
      /\ DOMAIN m.patches_by_id = Registered
      /\ \A p \in Registered : m.patches_by_id[p].keyframe = patches_by_id[p].keyframe
    BY <1>1, MovedSound DEF m, Labels
<1>7. PICK plan \in overlap_removal_plans(m, group(current), group(h)) :
         /\ loops' = Append(loops, [current |-> current, source_label |-> keyframe[current].label,
                                    merged_label |-> merged_label, group |-> group(current),
                                    history_group |-> group(h), plan |-> plan, adjusted |-> FALSE])
         /\ crossed' = crossed \cup {p \in DOMAIN plan.replacement : plan.replacement[p] \in awaiting_removal}
    BY DEF Stage1, m
<1>8. /\ MapBecomes(after) /\ curr_label' = merged_label /\ pc' = "update"
      /\ UNCHANGED <<succeed_associations, is_add_keyframe, neighbor_label_frame_num,
                     is_loop_closure_detected, patch_key, scan_to_map, closed,
                     pending_associated_keyframes, replaced, holes, late>>
    BY DEF Stage1, m
<1> HIDE DEF after, h, merged_label
<1>9. /\ Sound(after.keyframe, after.patches_by_id, Labels, patch_key, latest_keyframe)
      /\ after.patches_by_id = m.patches_by_id /\ after.all_patches_map = m.all_patches_map
      /\ \A k \in 0 .. latest_keyframe : after.keyframe[k].associated_patches = m.keyframe[k].associated_patches
  <2>1. Sound(after.keyframe, after.patches_by_id, Labels, patch_key, latest_keyframe)
    <3>1. current \in 0 .. latest_keyframe /\ after = [m EXCEPT !.keyframe[current].label = merged_label]
      BY <1>3 DEF after, Keyframes
    <3> QED
      BY ONLY <1>4, <1>5, <1>6, <3>1, RelabelledSound
  <2> DEFINE kf == [m.keyframe EXCEPT ![current].label = merged_label]
  <2>2. after = [m EXCEPT !.keyframe = kf]
    BY DEF after
  <2> HIDE DEF kf
  <2>3. after.keyframe = kf /\ after.patches_by_id = m.patches_by_id /\ after.all_patches_map = m.all_patches_map
    BY <1>5, <2>2 DEF IsMap
  <2>4. \A k \in 0 .. latest_keyframe : kf[k].associated_patches = m.keyframe[k].associated_patches
    <3>1. m.keyframe \in [0 .. latest_keyframe -> KeyframeInfos(Labels, 1 .. patch_key)]
      BY <1>6 DEF Sound, Typed
    <3>2. ASSUME NEW k \in 0 .. latest_keyframe
          PROVE  kf[k].associated_patches = m.keyframe[k].associated_patches
      <4>1. kf[k] = IF k = current THEN [m.keyframe[k] EXCEPT !.label = merged_label] ELSE m.keyframe[k]
        BY <3>1 DEF kf
      <4>2. m.keyframe[k] \in KeyframeInfos(Labels, 1 .. patch_key)
        BY <3>1
      <4> QED
        BY <4>1, <4>2 DEF KeyframeInfos
    <3> QED
      BY <3>2
  <2> QED
    BY <2>1, <2>3, <2>4
<1>10. /\ keyframe' = after.keyframe /\ patches_by_id' = m.patches_by_id
       /\ all_patches_map' = m.all_patches_map
    BY <1>8, <1>9 DEF MapBecomes
<1>11. Labels' = Labels /\ Keys' = Keys /\ Registered' = Registered
    BY <1>6, <1>8, <1>10 DEF Labels, Keys, Registered
<1>12. SoundMap' /\ latest_keyframe' = latest_keyframe
    BY <1>6, <1>8, <1>9, <1>10, <1>11, StillSound
<1>13. Keyframes' = Keyframes /\ DOMAIN keyframe' = Keyframes /\ keyframe_size' = keyframe_size
  <2>1. Keyframes' = Keyframes
    BY <1>12 DEF Keyframes
  <2>2. DOMAIN keyframe' = Keyframes'
    BY <1>12 DEF SoundMap, Sound, Typed, Keyframes
  <2> QED
    BY <1>2, <2>1, <2>2 DEF keyframe_size
<1>14. LabelsShaped'
    BY <1>1, <1>4, <1>8, <1>11 DEF LabelsShaped
<1>15. PlanShaped(plan, patch_key, latest_keyframe) /\ \A p \in DOMAIN plan.replacement : plan.replacement[p] \in Registered
  <2>1. group(current) \subseteq Keyframes
    BY <1>2, <1>3 DEF group
  <2> QED
    BY <1>1, <1>7, <2>1, PlanFacts
<1> DEFINE l == [current |-> current, source_label |-> keyframe[current].label,
                 merged_label |-> merged_label, group |-> group(current),
                 history_group |-> group(h), plan |-> plan, adjusted |-> FALSE]
<1>16. LoopShaped(l, Labels, patch_key, latest_keyframe) /\ l.plan = plan
    BY <1>3, <1>4, <1>15 DEF LoopShaped, Keyframes
<1>17. loops' = Append(loops, l) /\ loops \in Seq(Range(loops))
    BY <1>1, <1>7 DEF Shaped, LoopsShaped
<1> HIDE DEF l
<1>18. /\ Len(loops) \in Nat /\ Len(loops') = Len(loops) + 1
       /\ loops' = [i \in 1 .. Len(loops') |-> loops'[i]]
       /\ \A i \in 1 .. Len(loops) : loops'[i] = loops[i]
       /\ loops'[Len(loops) + 1] = l
       /\ loops' # <<>>
  <2> DEFINE S == Range(loops) \cup {l}
  <2>1. loops \in Seq(S) /\ l \in S
    BY <1>17, SeqMonotonic
  <2> HIDE DEF S
  <2>2. /\ loops' \in Seq(S) /\ Len(loops') = Len(loops) + 1
        /\ \A i \in 1 .. Len(loops) : loops'[i] = loops[i]
        /\ loops'[Len(loops) + 1] = l /\ loops' # <<>>
    BY ONLY <1>17, <2>1, AppendProperties
  <2>3. loops' = [i \in 1 .. Len(loops') |-> loops'[i]] /\ Len(loops) \in Nat
    BY <2>1, <2>2
  <2> QED
    BY <2>2, <2>3
<1>19. Shaped'
  <2>1. loops' \in Seq(Range(loops'))
    BY <1>18 DEF Range
  <2>2. \A i \in 1 .. Len(loops') : LoopShaped(loops'[i], Labels, patch_key, latest_keyframe)
    <3>1. TAKE i \in 1 .. Len(loops')
    <3>2. i \in 1 .. Len(loops) \/ i = Len(loops) + 1
      BY <1>18
    <3> QED
      BY <1>1, <1>16, <1>18, <3>2 DEF Shaped, LoopsShaped
  <2>3. LoopsShaped'
    BY <1>8, <1>11, <1>12, <2>1, <2>2 DEF LoopsShaped
  <2>4. ScansShaped' /\ PairsShaped'
    BY <1>1, <1>8, <1>11, <1>13 DEF Shaped, ScansShaped, PairsShaped
  <2> QED
    BY <1>14, <2>3, <2>4 DEF Shaped
<1>20. LatestCloses' /\ FrameFresh'
    BY <1>8, <1>18 DEF LatestCloses, FrameFresh
<1>21. Bounded'
    BY <1>8, <1>11, <1>13 DEF Bounded, Invariant
<1>22. ReplacementsStay'
  <2>1. SUFFICES ASSUME NEW i \in 1 .. Len(loops'), NEW p \in DOMAIN loops'[i].plan.replacement \ crossed'
                 PROVE  /\ loops'[i].plan.replacement[p] \in Registered
                        /\ \A j \in 1 .. i : loops'[i].plan.replacement[p] \notin DOMAIN loops'[j].plan.owner
    BY <1>11 DEF ReplacementsStay
  <2>2. CASE i \in 1 .. Len(loops)
    <3>1. loops'[i] = loops[i] /\ \A j \in 1 .. i : loops'[j] = loops[j]
      BY <1>18, <2>2
    <3>2. p \in DOMAIN loops[i].plan.replacement \ crossed
      BY <1>7, <3>1
    <3> QED
      BY <2>2, <3>1, <3>2 DEF Invariant, ReplacementsStay
  <2>3. CASE i = Len(loops) + 1
    <3>1. loops'[i].plan = plan
      BY <1>16, <1>18, <2>3
    <3>2. p \in DOMAIN plan.replacement /\ plan.replacement[p] \notin awaiting_removal
      BY <1>7, <3>1
    <3>3. plan.replacement[p] \in Registered /\ plan.replacement[p] \notin DOMAIN plan.owner
      BY <1>15, <3>2 DEF PlanShaped
    <3>4. ASSUME NEW j \in 1 .. i
          PROVE  plan.replacement[p] \notin DOMAIN loops'[j].plan.owner
      <4>1. CASE j = i
        BY <3>1, <3>3, <4>1
      <4>2. CASE j # i
        <5>1. j \in 1 .. Len(loops) /\ j \in DOMAIN loops /\ loops'[j] = loops[j]
          BY <1>17, <1>18, <2>3, <4>2
        <5> QED
          BY <3>2, <5>1 DEF awaiting_removal
      <4> QED
        BY <4>1, <4>2
    <3> QED
      BY <3>1, <3>3, <3>4
  <2> QED
    BY <1>18, <2>2, <2>3
<1>23. ReplacedGone' /\ HolesOnlyCrossed'
    BY <1>7, <1>8, <1>11 DEF Invariant, ReplacedGone, HolesOnlyCrossed
<1>24. AssociationsFollow'
  <2>1. \A k \in Keyframes : keyframe'[k].associated_patches \subseteq keyframe[k].associated_patches
    BY <1>2, <1>6, <1>9, <1>10 DEF Keyframes
  <2> QED
    BY <1>2, <1>8, <1>13, <2>1, AssociationsShrink DEF Invariant
<1>25. Forward
    BY <1>1, <1>6, <1>10, SameOwners
<1> QED
    BY <1>12, <1>19, <1>20, <1>21, <1>22, <1>23, <1>24, <1>25 DEF Invariant

(***************************************************************************)
(* Stage 3.                                                                *)
(***************************************************************************)
LEMMA Stage3Step ==
    ASSUME Invariant, NEW first \in Int, NEW d \in Int, NEW pairs \in Pairs, Stage3(first, d, pairs)
    PROVE  Invariant' /\ Forward
<1> DEFINE l == Head(loops)
           plan == l.plan
           moved == update_keyframe_pose_by_poseGraph(first, d)
           before == [k \in DOMAIN keyframe |-> keyframe[k].associated_patches]
           found == IF pairs = <<>> THEN before ELSE AssociatedWith(before, pairs[1][1], pairs[1][2])
           shared == AssociatedUpTo(found, pending_associated_keyframes, l.current)
           associated == Associated(moved, shared)
           removed == Removed(associated, plan)
           exchanged == exchanged_by(associated, plan, removed)
           final == Exchanged(removed, plan, exchanged)
           after == [final EXCEPT !.keyframe[l.current].label = l.merged_label]
           S == {p \in Keys : late \/ p \notin replaced}
<1>1. /\ SoundMap /\ Shaped /\ LabelsShaped /\ LoopsShaped /\ PairsShaped
      /\ LatestCloses /\ Bounded /\ FrameFresh
      /\ ReplacementsStay /\ ReplacedGone /\ HolesOnlyCrossed /\ AssociationsFollow
    BY DEF Invariant, Shaped
<1>2. /\ latest_keyframe \in Nat /\ patch_key \in Nat /\ keyframe_size = latest_keyframe + 1
      /\ DOMAIN keyframe = Keyframes /\ Registered \subseteq Keys
      /\ keyframe \in [Keyframes -> KeyframeInfos(Labels, Keys)]
      /\ patches_by_id \in [Registered -> PatchInfos(Keyframes)]
    BY <1>1, Sizes
<1>3. /\ pc \in {"top", "strict"} /\ loops # <<>>
      /\ MapBecomes(after)
      /\ neighbor_label_frame_num' = merge_neighbor_label(neighbor_label_frame_num, l.source_label, l.merged_label)
      /\ loops' = Tail(loops)
      /\ pending_associated_keyframes' =
           Restrict(pending_associated_keyframes, {k \in DOMAIN pending_associated_keyframes : k > l.current})
      /\ replaced' = replaced \cup exchanged
      /\ holes' = holes \cup (erased_by(associated, plan, removed) \ exchanged)
      /\ UNCHANGED <<framing, curr_label, is_loop_closure_detected, patch_key, scan_to_map, crossed, late>>
    BY DEF Stage3
<1>4. loops \in Seq(Range(loops)) /\ Len(loops) \in Nat /\ 1 \in 1 .. Len(loops)
  <2>1. loops \in Seq(Range(loops)) /\ loops # <<>>
    BY <1>1, <1>3 DEF LoopsShaped
  <2>2. Len(loops) \in Nat \ {0}
    BY <2>1, EmptySeq
  <2> QED
    BY <2>1, <2>2
<1>5. /\ l = loops[1] /\ LoopShaped(l, Labels, patch_key, latest_keyframe)
      /\ loops' \in Seq(Range(loops)) /\ Len(loops') \in Nat /\ Len(loops') = Len(loops) - 1
      /\ \A i \in 1 .. Len(loops') : i + 1 \in 1 .. Len(loops) /\ loops'[i] = loops[i + 1]
  <2>1. l = loops[1]
    BY ONLY <1>4
  <2>2. LoopShaped(loops[1], Labels, patch_key, latest_keyframe)
    BY <1>1, <1>4 DEF LoopsShaped
  <2>3. /\ Tail(loops) \in Seq(Range(loops)) /\ Len(Tail(loops)) = Len(loops) - 1
        /\ \A i \in 1 .. Len(Tail(loops)) : Tail(loops)[i] = loops[i + 1]
    BY <1>3, <1>4, HeadTailProperties
  <2> HIDE DEF l
  <2>4. /\ loops' \in Seq(Range(loops)) /\ Len(loops') = Len(loops) - 1
        /\ \A i \in 1 .. Len(loops') : loops'[i] = loops[i + 1]
    BY <1>3, <2>3
  <2>5. Len(loops') \in Nat /\ \A i \in 1 .. Len(loops') : i + 1 \in 1 .. Len(loops)
    BY <1>4, <2>4
  <2> QED
    BY <2>1, <2>2, <2>4, <2>5
<1>6. l.current \in Keyframes /\ l.current \in Nat /\ l.source_label \in Labels /\ l.merged_label \in Labels
      /\ PlanShaped(plan, patch_key, latest_keyframe)
    BY <1>2, <1>5 DEF LoopShaped, Keyframes
<1> HIDE DEF l
<1>7. IsMap(moved)
    BY DEF IsMap, update_keyframe_pose_by_poseGraph
<1> HIDE DEF moved
<1>8. /\ Sound(moved.keyframe, moved.patches_by_id, Labels, patch_key, latest_keyframe)
      /\ Filed(moved.all_patches_map, CellsOf(moved.patches_by_id, patch_key))
      /\ DOMAIN moved.patches_by_id = Registered
      /\ \A p \in Registered : moved.patches_by_id[p].keyframe = patches_by_id[p].keyframe
    BY <1>1, MovedSound DEF moved, Labels
<1>9. shared \in [Keyframes -> SUBSET S]
  <2>1. before \in [Keyframes -> SUBSET S]
    <3>1. \A k \in Keyframes : before[k] \in SUBSET S
      BY <1>1, <1>2 DEF KeyframeInfos, AssociationsFollow
    <3>2. before = [k \in Keyframes |-> before[k]]
      BY <1>2
    <3> HIDE DEF before, S
    <3> QED
      BY <3>1, <3>2
  <2> HIDE DEF before, S
  <2>2. found \in [Keyframes -> SUBSET S]
    <3>1. CASE pairs = <<>>
      BY <2>1, <3>1
    <3>2. CASE pairs # <<>>
      <4>1. PICK pair \in (DOMAIN keyframe) \X (DOMAIN keyframe) : pairs = <<pair>>
        BY <3>2 DEF Pairs
      <4>2. pairs[1][1] \in Keyframes /\ pairs[1][2] \in Keyframes
        BY <1>2, <4>1
      <4>3. found = [before EXCEPT ![pairs[1][1]] = @ \cup before[pairs[1][2]]]
        BY <3>2 DEF AssociatedWith
      <4> HIDE DEF found
      <4> QED
        BY <2>1, <4>2, <4>3
    <3> QED
      BY <3>1, <3>2
  <2>3. \A k \in DOMAIN pending_associated_keyframes :
           k \in Keyframes /\ pending_associated_keyframes[k] \in Keyframes
    BY <1>1 DEF PairsShaped
  <2> HIDE DEF found
  <2> QED
    BY <1>6, <2>2, <2>3, SharedWithin
<1> HIDE DEF shared
<1>10. shared \in [0 .. latest_keyframe -> SUBSET (1 .. patch_key)]
    BY <1>9 DEF Keyframes, Keys
<1>11. /\ IsMap(associated) /\ Sound(associated.keyframe, associated.patches_by_id, Labels, patch_key, latest_keyframe)
       /\ \A k \in 0 .. latest_keyframe : associated.keyframe[k].associated_patches \subseteq shared[k]
       /\ associated.patches_by_id = moved.patches_by_id /\ associated.all_patches_map = moved.all_patches_map
  <2>1. IsMap(associated) /\ Sound(associated.keyframe, associated.patches_by_id, Labels, patch_key, latest_keyframe)
    BY ONLY <1>7, <1>8, <1>10, AssociatedSound
  <2>2. \A k \in 0 .. latest_keyframe : associated.keyframe[k].associated_patches \subseteq shared[k]
    BY ONLY <1>7, <1>8, <1>10, AssociatedSound
  <2>3. associated.patches_by_id = moved.patches_by_id /\ associated.all_patches_map = moved.all_patches_map
    BY <1>7 DEF Associated, IsMap
  <2> QED
    BY <2>1, <2>2, <2>3
<1>12. Filed(associated.all_patches_map, CellsOf(associated.patches_by_id, patch_key))
    BY <1>8, <1>11
<1> HIDE DEF associated
<1> DEFINE due == due_by(associated, plan)
<1>13. /\ IsMap(removed)
       /\ Sound(removed.keyframe, removed.patches_by_id, Labels, patch_key, latest_keyframe)
       /\ Filed(removed.all_patches_map, CellsOf(removed.patches_by_id, patch_key))
       /\ removed.patches_by_id = [p \in DOMAIN associated.patches_by_id \ due |-> associated.patches_by_id[p]]
       /\ \A k \in 0 .. latest_keyframe :
             removed.keyframe[k].associated_patches \subseteq
                 associated.keyframe[k].associated_patches \cup DOMAIN removed.patches_by_id
  <2>1. removed = Removed(associated, plan)
    OBVIOUS
  <2> HIDE DEF removed, plan
  <2>2. IsMap(removed) /\ Sound(removed.keyframe, removed.patches_by_id, Labels, patch_key, latest_keyframe)
    BY ONLY <1>6, <1>11, <1>12, <2>1, RemovedSound
  <2>3. Filed(removed.all_patches_map, CellsOf(removed.patches_by_id, patch_key))
    BY ONLY <1>6, <1>11, <1>12, <2>1, RemovedSound
  <2>4. RemovedAs(associated, removed, latest_keyframe, due_by(associated, plan))
    BY ONLY <1>6, <1>11, <1>12, <2>1, RemovedSound
  <2> QED
    BY <2>2, <2>3, <2>4 DEF RemovedAs
<1> HIDE DEF removed
<1>14. /\ DOMAIN removed.patches_by_id = Registered \ due
       /\ \A p \in Registered \ due : removed.patches_by_id[p].keyframe = patches_by_id[p].keyframe
    BY <1>8, <1>11, <1>13
<1>15. /\ due \subseteq DOMAIN plan.owner /\ exchanged \subseteq due \cap DOMAIN plan.replacement
       /\ \A p \in exchanged : plan.replacement[p] \in Registered \ due
       /\ exchanged = {p \in due \cap Registered \cap DOMAIN plan.replacement : plan.replacement[p] \in Registered \ due}
  <2>1. DOMAIN associated.patches_by_id = Registered
    BY <1>8, <1>11
  <2>2. exchanged = {p \in due \cap Registered \cap DOMAIN plan.replacement : plan.replacement[p] \in Registered \ due}
    BY <1>14, <2>1 DEF exchanged_by, replaced_by
  <2>3. due \subseteq DOMAIN plan.owner
    BY DEF due_by
  <2> HIDE DEF exchanged, due, plan
  <2> QED
    BY <2>2, <2>3
<1> HIDE DEF exchanged
<1>16. /\ IsMap(final) /\ Sound(final.keyframe, final.patches_by_id, Labels, patch_key, latest_keyframe)
       /\ final.patches_by_id = removed.patches_by_id /\ final.all_patches_map = removed.all_patches_map
       /\ \A k \in 0 .. latest_keyframe :
             final.keyframe[k].associated_patches \subseteq
                 (removed.keyframe[k].associated_patches \cup (Registered \ due)) \ exchanged
  <2>1. \A p \in exchanged : plan.replacement[p] \in DOMAIN removed.patches_by_id \ exchanged
    BY <1>14, <1>15
  <2>0. final = Exchanged(removed, plan, exchanged)
    OBVIOUS
  <2> HIDE DEF final, plan
  <2>2. IsMap(final) /\ Sound(final.keyframe, final.patches_by_id, Labels, patch_key, latest_keyframe)
    BY ONLY <1>13, <2>0, <2>1, ExchangedSound
  <2>3. final.patches_by_id = removed.patches_by_id /\ final.all_patches_map = removed.all_patches_map
    BY <1>13, <2>0 DEF Exchanged, IsMap
  <2>4. \A k \in 0 .. latest_keyframe :
             final.keyframe[k].associated_patches \subseteq
                 (removed.keyframe[k].associated_patches \cup DOMAIN removed.patches_by_id) \ exchanged
    BY ONLY <1>13, <2>0, <2>1, ExchangedSound, ZenonT(60)
  <2> QED
    BY <1>14, <2>2, <2>3, <2>4
<1> HIDE DEF final
<1>17. /\ Sound(after.keyframe, after.patches_by_id, Labels, patch_key, latest_keyframe)
       /\ after.patches_by_id = removed.patches_by_id /\ after.all_patches_map = removed.all_patches_map
       /\ \A k \in 0 .. latest_keyframe : after.keyframe[k].associated_patches = final.keyframe[k].associated_patches
  <2>1. Sound(after.keyframe, after.patches_by_id, Labels, patch_key, latest_keyframe)
    <3>1. l.current \in 0 .. latest_keyframe
      BY <1>6 DEF Keyframes
    <3> QED
      BY ONLY <1>6, <1>16, <3>1, RelabelledSound, ZenonT(60)
  <2> DEFINE kf == [final.keyframe EXCEPT ![l.current].label = l.merged_label]
  <2>2. after = [final EXCEPT !.keyframe = kf]
    OBVIOUS
  <2> HIDE DEF kf
  <2>3. after.keyframe = kf /\ after.patches_by_id = final.patches_by_id /\ after.all_patches_map = final.all_patches_map
    BY <1>16, <2>2 DEF IsMap
  <2>4. \A k \in 0 .. latest_keyframe : kf[k].associated_patches = final.keyframe[k].associated_patches
    <3>1. final.keyframe \in [0 .. latest_keyframe -> KeyframeInfos(Labels, 1 .. patch_key)]
      BY <1>16 DEF Sound, Typed
    <3>2. ASSUME NEW k \in 0 .. latest_keyframe
          PROVE  kf[k].associated_patches = final.keyframe[k].associated_patches
      <4>1. kf[k] = IF k = l.current THEN [final.keyframe[k] EXCEPT !.label = l.merged_label] ELSE final.keyframe[k]
        BY <3>1 DEF kf
      <4>2. final.keyframe[k] \in KeyframeInfos(Labels, 1 .. patch_key)
        BY <3>1
      <4> QED
        BY <4>1, <4>2 DEF KeyframeInfos
    <3> QED
      BY <3>2
  <2> HIDE DEF after
  <2> QED
    BY <1>16, <2>1, <2>3, <2>4
<1> HIDE DEF after, due, plan
<1>18. /\ keyframe' = after.keyframe /\ patches_by_id' = removed.patches_by_id
       /\ all_patches_map' = removed.all_patches_map /\ patch_key' = patch_key
       /\ Registered' = Registered \ due /\ Keys' = Keys
    BY <1>3, <1>14, <1>17 DEF MapBecomes, Registered, Keys
<1>19. Labels' = Labels /\ LabelsShaped'
  <2>1. neighbor_label_frame_num' =
           LET both == neighbor_label_frame_num[l.source_label] \cup neighbor_label_frame_num[l.merged_label]
           IN [neighbor_label_frame_num EXCEPT ![l.source_label] = both, ![l.merged_label] = both]
    BY <1>3 DEF merge_neighbor_label
  <2>2. Labels' = Labels
    BY <2>1 DEF Labels
  <2> QED
    BY <1>1, <1>3, <1>6, <2>1, <2>2 DEF LabelsShaped
<1>20. SoundMap' /\ latest_keyframe' = latest_keyframe
    BY <1>13, <1>17, <1>18, <1>19, StillSound
<1>21. Keyframes' = Keyframes /\ DOMAIN keyframe' = Keyframes /\ keyframe_size' = keyframe_size
  <2>1. Keyframes' = Keyframes
    BY <1>20 DEF Keyframes
  <2>2. DOMAIN keyframe' = Keyframes'
    BY <1>20 DEF SoundMap, Sound, Typed, Keyframes
  <2> QED
    BY <1>2, <2>1, <2>2 DEF keyframe_size
<1>22. Shaped'
  <2>1. loops' \in Seq(Range(loops'))
    BY <1>5 DEF Range
  <2>2. \A i \in 1 .. Len(loops') : LoopShaped(loops'[i], Labels, patch_key, latest_keyframe)
    BY <1>1, <1>5 DEF LoopsShaped
  <2>3. LoopsShaped'
    BY <1>18, <1>19, <1>20, <2>1, <2>2 DEF LoopsShaped
  <2>4. ScansShaped'
    BY <1>1, <1>3, <1>19, <1>21 DEF Shaped, ScansShaped
  <2>5. PairsShaped'
    BY <1>1, <1>3, <1>21 DEF PairsShaped, Restrict
  <2> QED
    BY <1>19, <2>3, <2>4, <2>5 DEF Shaped
<1>23. LatestCloses'
  <2>1. pc' = pc
    BY <1>3 DEF framing
  <2>2. pc = "strict" => latest_keyframe \in DOMAIN pending_associated_keyframes'
    <3>1. SUFFICES ASSUME pc = "strict"
                   PROVE  latest_keyframe \in DOMAIN pending_associated_keyframes'
      OBVIOUS
    <3>2. latest_keyframe \in DOMAIN pending_associated_keyframes /\ l.current < latest_keyframe
      BY <1>1, <1>4, <1>5, <3>1 DEF LatestCloses
    <3> QED
      BY <1>2, <1>3, <1>6, <3>2 DEF Restrict
  <2> QED
    BY <1>1, <1>5, <1>20, <2>1, <2>2 DEF LatestCloses
<1>24. FrameFresh' /\ Bounded'
    BY <1>1, <1>3, <1>18, <1>21 DEF FrameFresh, Bounded, framing
<1>25. ReplacementsStay'
  <2>1. SUFFICES ASSUME NEW i \in 1 .. Len(loops'), NEW p \in DOMAIN loops'[i].plan.replacement \ crossed
                 PROVE  /\ loops'[i].plan.replacement[p] \in Registered \ due
                        /\ \A j \in 1 .. i : loops'[i].plan.replacement[p] \notin DOMAIN loops'[j].plan.owner
    BY <1>3, <1>18 DEF ReplacementsStay
  <2>2. loops'[i] = loops[i + 1] /\ i + 1 \in 1 .. Len(loops)
    BY <1>5
  <2>3. /\ loops'[i].plan.replacement[p] \in Registered
        /\ \A j \in 1 .. i + 1 : loops'[i].plan.replacement[p] \notin DOMAIN loops[j].plan.owner
    BY <1>1, <2>2 DEF ReplacementsStay
  <2>4. loops'[i].plan.replacement[p] \notin DOMAIN plan.owner
    BY <1>5, <2>3 DEF plan
  <2>5. \A j \in 1 .. i : j + 1 \in 1 .. i + 1 /\ loops'[j] = loops[j + 1]
    BY <1>5
  <2> QED
    BY <1>15, <2>3, <2>4, <2>5
<1>26. ReplacedGone'
  <2>1. exchanged \subseteq Keys
    BY <1>6, <1>15 DEF PlanShaped, Keys
  <2> QED
    BY <1>1, <1>3, <1>15, <1>18, <2>1 DEF ReplacedGone
<1>27. HolesOnlyCrossed'
  <2>1. SUFFICES ASSUME NEW p \in erased_by(associated, plan, removed), p \notin crossed
                 PROVE  p \in exchanged
    BY <1>1, <1>3 DEF HolesOnlyCrossed, plan
  <2>2. p \in DOMAIN plan.replacement /\ p \in Registered /\ p \in due
    BY <1>8, <1>11, <1>14 DEF erased_by
  <2>3. plan.replacement[p] \in Registered /\ plan.replacement[p] \notin DOMAIN plan.owner
    <3>1. plan = loops[1].plan /\ 1 \in 1 .. 1
      BY <1>5 DEF plan
    <3> QED
      BY <1>1, <1>4, <2>1, <2>2, <3>1 DEF ReplacementsStay
  <2> QED
    BY <1>15, <2>2, <2>3
<1>28. AssociationsFollow'
  <2>1. SUFFICES ASSUME ~late, NEW k \in Keyframes
                 PROVE  keyframe'[k].associated_patches \cap (replaced \cup exchanged) = {}
    BY <1>3, <1>21 DEF AssociationsFollow
  <2>2. k \in 0 .. latest_keyframe
    BY DEF Keyframes
  <2>3. keyframe'[k].associated_patches \subseteq (shared[k] \cup (Registered \ due)) \ exchanged
    BY <1>11, <1>13, <1>14, <1>16, <1>17, <1>18, <2>2
  <2>4. shared[k] \cap replaced = {}
    BY <1>9, <2>1
  <2>5. Registered \cap replaced = {}
    BY <1>1 DEF ReplacedGone
  <2> QED
    BY <2>3, <2>4, <2>5
<1>29. Forward
    BY <1>1, <1>14, <1>18, SameOwners
<1> QED
    BY <1>20, <1>22, <1>23, <1>24, <1>25, <1>26, <1>27, <1>28, <1>29 DEF Invariant

LEMMA ApplyScanToMapStep ==
    ASSUME Invariant, ApplyScanToMap
    PROVE  Invariant' /\ Forward
<1> DEFINE l == Head(scan_to_map)
<1>1. /\ SoundMap /\ Shaped /\ LabelsShaped
    BY DEF Invariant, Shaped
<1>2. /\ latest_keyframe \in Nat /\ patch_key \in Nat /\ keyframe_size = latest_keyframe + 1
      /\ DOMAIN keyframe = Keyframes /\ Registered \subseteq Keys
      /\ keyframe \in [Keyframes -> KeyframeInfos(Labels, Keys)]
    BY <1>1, Sizes
<1>3. l.current \in Keyframes /\ l.source_label \in Labels /\ l.merged_label \in Labels
    BY <1>1 DEF Shaped, ScansShaped, ApplyScanToMap
<1>4. /\ neighbor_label_frame_num' = merge_neighbor_label(neighbor_label_frame_num, l.source_label, l.merged_label)
      /\ keyframe' = [keyframe EXCEPT ![l.current].label = l.merged_label]
      /\ curr_label' \in {l.merged_label, curr_label}
      /\ scan_to_map' = <<>> /\ UNCHANGED <<framing, patches, loops, pending_associated_keyframes, history>>
    BY DEF ApplyScanToMap
<1> HIDE DEF l
<1>5. Labels' = Labels /\ LabelsShaped'
  <2>1. neighbor_label_frame_num' =
           LET both == neighbor_label_frame_num[l.source_label] \cup neighbor_label_frame_num[l.merged_label]
           IN [neighbor_label_frame_num EXCEPT ![l.source_label] = both, ![l.merged_label] = both]
    BY <1>4 DEF merge_neighbor_label
  <2>2. Labels' = Labels
    BY <2>1 DEF Labels
  <2> QED
    BY <1>1, <1>3, <1>4, <2>1, <2>2 DEF LabelsShaped
<1>6. Keys' = Keys /\ Registered' = Registered /\ patch_key' = patch_key
    BY <1>4 DEF Keys, Registered, patches
<1>7. DOMAIN keyframe' = Keyframes /\ keyframe' = [k \in Keyframes |-> keyframe'[k]]
    BY <1>2, <1>4
<1>8. ASSUME NEW k \in Keyframes
      PROVE  /\ keyframe'[k] \in KeyframeInfos(Labels, Keys)
             /\ keyframe'[k].T_w_lidar = keyframe[k].T_w_lidar
             /\ keyframe'[k].local_patches = keyframe[k].local_patches
             /\ keyframe'[k].associated_patches \subseteq keyframe[k].associated_patches
  <2>1. keyframe[k] \in KeyframeInfos(Labels, Keys)
    BY <1>2
  <2>2. keyframe'[k] = IF k = l.current THEN [keyframe[k] EXCEPT !.label = l.merged_label] ELSE keyframe[k]
    BY <1>2, <1>4
  <2>3. CASE k = l.current
    BY <1>3, <2>1, <2>2, <2>3 DEF KeyframeInfos
  <2>4. CASE k # l.current
    BY <2>1, <2>2, <2>4
  <2> QED
    BY <2>3, <2>4
<1>9. Sound(keyframe', patches_by_id', Labels', patch_key', latest_keyframe)
  <2>1. Sound(keyframe, patches_by_id, Labels, patch_key, latest_keyframe)
    BY <1>1 DEF SoundMap, Labels
  <2>2. keyframe' \in [0 .. latest_keyframe -> KeyframeInfos(Labels, 1 .. patch_key)]
    BY <1>7, <1>8 DEF Keyframes, Keys
  <2>3. \A k \in 0 .. latest_keyframe : /\ keyframe'[k].T_w_lidar = keyframe[k].T_w_lidar
                                        /\ keyframe'[k].local_patches = keyframe[k].local_patches
    BY <1>8 DEF Keyframes
  <2>4. Sound(keyframe', patches_by_id, Labels, patch_key, latest_keyframe)
    BY ONLY <2>1, <2>2, <2>3, DressedSound
  <2> QED
    BY <1>4, <1>5, <2>4 DEF patches
<1>10. SoundMap' /\ latest_keyframe' = latest_keyframe
  <2>1. Filed(all_patches_map', CellsOf(patches_by_id', patch_key'))
    BY <1>1, <1>4 DEF SoundMap, patches
  <2> QED
    BY <1>9, <2>1, StillSound
<1>11. keyframe_size' = keyframe_size /\ Keyframes' = Keyframes
    BY <1>2, <1>7, <1>10 DEF keyframe_size, Keyframes
<1>12. Shaped'
  <2>1. LoopsShaped'
    BY <1>1, <1>4, <1>5, <1>6, <1>10 DEF Shaped, LoopsShaped
  <2>2. ScansShaped' /\ PairsShaped'
    BY <1>1, <1>4, <1>11 DEF Shaped, ScansShaped, PairsShaped
  <2> QED
    BY <1>5, <2>1, <2>2 DEF Shaped
<1>13. LatestCloses' /\ FrameFresh' /\ Bounded'
    BY <1>4, <1>6, <1>10, <1>11 DEF Invariant, LatestCloses, FrameFresh, Bounded, framing
<1>14. ReplacementsStay' /\ ReplacedGone' /\ HolesOnlyCrossed'
    BY <1>4, <1>6 DEF Invariant, ReplacementsStay, ReplacedGone, HolesOnlyCrossed, history
<1>15. AssociationsFollow'
    BY <1>2, <1>4, <1>7, <1>8, AssociationsShrink DEF Invariant, history
<1>16. Forward
    BY <1>1, <1>4, SameOwners DEF patches
<1> QED
    BY <1>10, <1>12, <1>13, <1>14, <1>15, <1>16 DEF Invariant

(***************************************************************************)
(* The end of a pass of run().                                             *)
(***************************************************************************)

LivedAs(r1, r2) ==
    \A p \in DOMAIN r1 : /\ r2[p].keyframe = r1[p].keyframe
                         /\ r2[p].enlarged_bound_w = r1[p].enlarged_bound_w

\* A patch that lives on may only get a later middle.
LEMMA LivedSound ==
    ASSUME NEW kf, NEW r1, NEW ls, NEW key, NEW n, Sound(kf, r1, ls, key, n),
           NEW updated, NEW r2,
           r2 = [p \in DOMAIN r1 |-> IF p \in updated
                                     THEN [r1[p] EXCEPT !.last_update_keyframe_num = n]
                                     ELSE r1[p]]
    PROVE  /\ Sound(kf, r2, ls, key, n)
           /\ LivedAs(r1, r2)
<1>1. /\ n \in Nat /\ r1 \in [DOMAIN r1 -> PatchInfos(0 .. n)] /\ DOMAIN r2 = DOMAIN r1
    BY DEF Sound, Typed
<1>2. ASSUME NEW p \in DOMAIN r1
      PROVE  /\ r2[p] \in PatchInfos(0 .. n)
             /\ r2[p].keyframe = r1[p].keyframe /\ r2[p].T_obj_lidar = r1[p].T_obj_lidar
             /\ r2[p].bound_w = r1[p].bound_w /\ r2[p].enlarged_bound_w = r1[p].enlarged_bound_w
             /\ r2[p].create_keyframe_num = r1[p].create_keyframe_num
             /\ r2[p].last_update_keyframe_num >= r1[p].last_update_keyframe_num
  <2>1. r1[p] \in PatchInfos(0 .. n)
    BY <1>1
  <2>2. r2[p] = IF p \in updated THEN [r1[p] EXCEPT !.last_update_keyframe_num = n] ELSE r1[p]
    OBVIOUS
  <2>3. n \in 0 .. n /\ \A j \in 0 .. n : j <= n /\ j <= j
    BY <1>1
  <2>4. r1[p].last_update_keyframe_num \in 0 .. n
    BY <2>1 DEF PatchInfos
  <2>5. CASE p \in updated
    BY <2>1, <2>2, <2>3, <2>4, <2>5 DEF PatchInfos
  <2>6. CASE p \notin updated
    BY <2>1, <2>2, <2>3, <2>4, <2>6
  <2> QED
    BY <2>5, <2>6
<1>3. r2 = [p \in DOMAIN r1 |-> r2[p]]
    OBVIOUS
<1>4. Typed(kf, r2, ls, key, n)
    BY <1>1, <1>2, <1>3 DEF Sound, Typed
<1>5. Listed(kf, r2)
    BY <1>1, <1>2 DEF Sound, Listed
<1>6. Boxed(kf, r2)
    BY <1>1, <1>2 DEF Sound, Boxed, BoxAt
<1>7. BeforeMiddle(r2)
  <2>1. SUFFICES ASSUME NEW p \in DOMAIN r1
                 PROVE  r2[p].keyframe <= Middle(r2[p])
    BY <1>1 DEF BeforeMiddle
  <2>2. r1[p].keyframe <= Middle(r1[p])
    BY DEF Sound, BeforeMiddle
  <2>3. /\ r1[p].keyframe \in Int /\ r1[p].create_keyframe_num \in Int
        /\ r1[p].last_update_keyframe_num \in Int /\ r2[p].last_update_keyframe_num \in Int
    <3>1. r1[p] \in PatchInfos(0 .. n) /\ r2[p] \in PatchInfos(0 .. n) /\ 0 .. n \subseteq Int
      BY <1>1, <1>2
    <3> QED
      BY <3>1 DEF PatchInfos
  <2>4. \A a, b, c \in Int : b <= c => (a + b + 1) \div 2 <= (a + c + 1) \div 2
    OBVIOUS
  <2>5. Middle(r1[p]) <= Middle(r2[p]) /\ Middle(r1[p]) \in Int /\ Middle(r2[p]) \in Int
    <3>1. Middle(r1[p]) = (r1[p].create_keyframe_num + r1[p].last_update_keyframe_num + 1) \div 2
      BY DEF Middle
    <3>2. Middle(r2[p]) = (r1[p].create_keyframe_num + r2[p].last_update_keyframe_num + 1) \div 2
      BY <1>2 DEF Middle
    <3>3. r1[p].last_update_keyframe_num <= r2[p].last_update_keyframe_num
      BY <1>2, <2>3
    <3>4. \A a, b \in Int : (a + b + 1) \div 2 \in Int
      OBVIOUS
    <3> QED
      BY ONLY <2>3, <2>4, <3>1, <3>2, <3>3, <3>4
  <2>6. r2[p].keyframe = r1[p].keyframe
    BY <1>2
  <2> QED
    BY <2>2, <2>3, <2>5, <2>6
<1>8. Sound(kf, r2, ls, key, n)
    BY <1>4, <1>5, <1>6, <1>7 DEF Sound
<1> QED
    BY <1>2, <1>8 DEF LivedAs

LEMMA UpdateMapStep ==
    ASSUME Invariant, NEW updated, UpdateMap(updated)
    PROVE  Invariant' /\ Forward
<1> DEFINE r2 == [p \in Registered |->
                    IF p \in updated
                    THEN [patches_by_id[p] EXCEPT !.last_update_keyframe_num = latest_keyframe]
                    ELSE patches_by_id[p]]
           lived == [Map EXCEPT !.patches_by_id = r2]
           associated == IF is_add_keyframe
                         THEN [lived EXCEPT !.keyframe[latest_keyframe].associated_patches =
                                               @ \cup succeed_associations]
                         ELSE lived
           target == update_patch_keyframe(associated, updated)
           after == swap_patches(associated, target)
           kf == associated.keyframe
           gained == IF is_add_keyframe THEN succeed_associations ELSE {}
<1>1. /\ SoundMap /\ Shaped /\ LabelsShaped /\ Bounded /\ FrameFresh
      /\ ReplacementsStay /\ ReplacedGone /\ HolesOnlyCrossed /\ AssociationsFollow
    BY DEF Invariant, Shaped
<1>2. /\ latest_keyframe \in Nat /\ patch_key \in Nat /\ keyframe_size = latest_keyframe + 1
      /\ DOMAIN keyframe = Keyframes /\ Registered \subseteq Keys
      /\ keyframe \in [Keyframes -> KeyframeInfos(Labels, Keys)]
    BY <1>1, Sizes
<1>3. /\ pc = "update" /\ pc' = "top" /\ updated \subseteq succeed_associations
      /\ loops # <<>> => updated = {}
      /\ MapBecomes(after) /\ succeed_associations' = {}
      /\ late' = (late \/ (is_add_keyframe /\ ~(succeed_associations \subseteq Registered)))
      /\ UNCHANGED <<labels, patch_key, closing, replaced, holes, crossed>>
    BY DEF UpdateMap
<1>4. updated \subseteq Registered
    BY <1>1, <1>3 DEF FrameFresh
<1>5. /\ Sound(keyframe, r2, Labels, patch_key, latest_keyframe)
      /\ DOMAIN r2 = Registered
      /\ \A p \in Registered : /\ r2[p].keyframe = patches_by_id[p].keyframe
                               /\ r2[p].enlarged_bound_w = patches_by_id[p].enlarged_bound_w
  <2>1. Sound(keyframe, patches_by_id, Labels, patch_key, latest_keyframe)
    BY <1>1 DEF SoundMap, Labels
  <2>2. r2 = [p \in DOMAIN patches_by_id |-> IF p \in updated
                THEN [patches_by_id[p] EXCEPT !.last_update_keyframe_num = latest_keyframe]
                ELSE patches_by_id[p]]
    BY DEF Registered
  <2>3. DOMAIN r2 = Registered
    OBVIOUS
  <2> HIDE DEF r2
  <2>4. Sound(keyframe, r2, Labels, patch_key, latest_keyframe)
    BY ONLY <2>1, <2>2, LivedSound
  <2>5. LivedAs(patches_by_id, r2)
    BY ONLY <2>1, <2>2, LivedSound
  <2> QED
    BY <2>3, <2>4, <2>5 DEF LivedAs, Registered
<1> HIDE DEF r2
<1>6. lived = [keyframe |-> keyframe, patches_by_id |-> r2, all_patches_map |-> all_patches_map]
    BY DEF Map
<1> HIDE DEF lived
<1>7. /\ IsMap(associated) /\ associated.patches_by_id = r2 /\ associated.all_patches_map = all_patches_map
      /\ kf \in [Keyframes -> KeyframeInfos(Labels, Keys)]
      /\ \A k \in Keyframes : /\ kf[k].T_w_lidar = keyframe[k].T_w_lidar
                              /\ kf[k].local_patches = keyframe[k].local_patches
                              /\ kf[k].associated_patches \subseteq keyframe[k].associated_patches \cup gained
  <2>1. CASE is_add_keyframe
    <3> DEFINE kf2 == [keyframe EXCEPT ![latest_keyframe].associated_patches = @ \cup succeed_associations]
    <3>1. associated = [keyframe |-> kf2, patches_by_id |-> r2, all_patches_map |-> all_patches_map]
      BY <1>6, <2>1
    <3>2. kf2 = [k \in Keyframes |-> kf2[k]]
      BY <1>2
    <3>3. ASSUME NEW k \in Keyframes
          PROVE  /\ kf2[k] \in KeyframeInfos(Labels, Keys)
                 /\ kf2[k].T_w_lidar = keyframe[k].T_w_lidar
                 /\ kf2[k].local_patches = keyframe[k].local_patches
                 /\ kf2[k].associated_patches \subseteq keyframe[k].associated_patches \cup succeed_associations
      <4>1. keyframe[k] \in KeyframeInfos(Labels, Keys) /\ succeed_associations \subseteq Keys
        BY <1>1, <1>2 DEF Bounded
      <4>2. kf2[k] = IF k = latest_keyframe
                     THEN [keyframe[k] EXCEPT !.associated_patches = @ \cup succeed_associations]
                     ELSE keyframe[k]
        BY <1>2
      <4> HIDE DEF kf2
      <4>3. CASE k = latest_keyframe
        BY <4>1, <4>2, <4>3 DEF KeyframeInfos
      <4>4. CASE k # latest_keyframe
        BY <4>1, <4>2, <4>4
      <4> QED
        BY <4>3, <4>4
    <3> HIDE DEF kf2, associated
    <3>4. IsMap(associated) /\ associated.keyframe = kf2 /\ associated.patches_by_id = r2
          /\ associated.all_patches_map = all_patches_map
      BY <3>1 DEF IsMap
    <3> QED
      BY <2>1, <3>2, <3>3, <3>4
  <2>2. CASE ~is_add_keyframe
    <3>1. associated = lived
      BY <2>2
    <3> HIDE DEF associated
    <3>2. IsMap(associated) /\ associated.keyframe = keyframe /\ associated.patches_by_id = r2
          /\ associated.all_patches_map = all_patches_map
      BY <1>6, <3>1 DEF IsMap
    <3> QED
      BY <1>2, <3>2
  <2> QED
    BY <2>1, <2>2
<1> HIDE DEF associated
<1>8. Sound(associated.keyframe, associated.patches_by_id, Labels, patch_key, latest_keyframe)
  <2>1. kf \in [0 .. latest_keyframe -> KeyframeInfos(Labels, 1 .. patch_key)]
    BY <1>7 DEF Keyframes, Keys
  <2>2. \A k \in 0 .. latest_keyframe : /\ kf[k].T_w_lidar = keyframe[k].T_w_lidar
                                        /\ kf[k].local_patches = keyframe[k].local_patches
    BY <1>7 DEF Keyframes
  <2>3. Sound(kf, r2, Labels, patch_key, latest_keyframe)
    BY ONLY <1>5, <2>1, <2>2, DressedSound
  <2> QED
    BY <1>7, <2>3
<1>9. /\ DOMAIN target \subseteq DOMAIN associated.patches_by_id
      /\ \A p \in DOMAIN target : /\ target[p] = Middle(associated.patches_by_id[p])
                                  /\ target[p] \in 0 .. latest_keyframe
                                  /\ target[p] # associated.patches_by_id[p].keyframe
  <2>1. target = [p \in {q \in updated : /\ Middle(associated.patches_by_id[q]) # associated.patches_by_id[q].keyframe
                                         /\ Middle(associated.patches_by_id[q]) < keyframe_size}
                    |-> Middle(associated.patches_by_id[p])]
    BY DEF update_patch_keyframe
  <2>2. DOMAIN associated.patches_by_id = Registered
    BY <1>5, <1>7
  <2>3. ASSUME NEW p \in updated
        PROVE  Middle(associated.patches_by_id[p]) \in Nat
    <3>1. associated.patches_by_id[p] \in PatchInfos(0 .. latest_keyframe)
      BY <1>4, <1>8, <2>2 DEF Sound, Typed
    <3>2. /\ associated.patches_by_id[p].create_keyframe_num \in 0 .. latest_keyframe
          /\ associated.patches_by_id[p].last_update_keyframe_num \in 0 .. latest_keyframe
      BY <3>1 DEF PatchInfos
    <3> QED
      BY <1>2, <3>2 DEF Middle
  <2>4. ASSUME NEW p \in DOMAIN target
        PROVE  /\ p \in updated /\ target[p] = Middle(associated.patches_by_id[p])
               /\ target[p] # associated.patches_by_id[p].keyframe
               /\ target[p] < keyframe_size
    BY <2>1
  <2> HIDE DEF target
  <2>5. \A p \in DOMAIN target : target[p] \in 0 .. latest_keyframe
    BY <1>2, <2>3, <2>4
  <2> QED
    BY <1>4, <2>2, <2>4, <2>5
<1> HIDE DEF target, kf
<1>10. /\ Sound(after.keyframe, after.patches_by_id, Labels, patch_key, latest_keyframe)
       /\ after.all_patches_map = associated.all_patches_map
       /\ SwappedAs(associated, after, latest_keyframe)
  <2>1. after = swap_patches(associated, target)
    OBVIOUS
  <2> HIDE DEF after
  <2>2. Sound(after.keyframe, after.patches_by_id, Labels, patch_key, latest_keyframe)
    BY ONLY <1>7, <1>8, <1>9, <2>1, SwappedSound
  <2>3. SwappedAs(associated, after, latest_keyframe)
    BY ONLY <1>7, <1>8, <1>9, <2>1, SwappedSound
  <2>4. after.all_patches_map = associated.all_patches_map
    BY <1>7, <2>1 DEF swap_patches, IsMap
  <2> QED
    BY <2>2, <2>3, <2>4
<1> HIDE DEF after
<1>11. /\ keyframe' = after.keyframe /\ patches_by_id' = after.patches_by_id
       /\ all_patches_map' = all_patches_map /\ patch_key' = patch_key
       /\ Registered' = Registered /\ Keys' = Keys /\ Labels' = Labels
    BY <1>3, <1>5, <1>7, <1>10 DEF MapBecomes, Registered, Keys, Labels, labels, SwappedAs
<1>12. Filed(all_patches_map', CellsOf(patches_by_id', patch_key'))
  <2>1. \A p \in Registered : patches_by_id'[p].enlarged_bound_w = patches_by_id[p].enlarged_bound_w
    BY <1>5, <1>7, <1>10, <1>11 DEF SwappedAs
  <2>2. CellsOf(patches_by_id', patch_key') = CellsOf(patches_by_id, patch_key)
    BY <1>11, <2>1 DEF CellsOf, Registered
  <2> QED
    BY <1>1, <1>11, <2>2 DEF SoundMap
<1>13. SoundMap' /\ latest_keyframe' = latest_keyframe
    BY <1>10, <1>11, <1>12, StillSound
<1>14. Keyframes' = Keyframes /\ DOMAIN keyframe' = Keyframes /\ keyframe_size' = keyframe_size
  <2>1. Keyframes' = Keyframes
    BY <1>13 DEF Keyframes
  <2>2. DOMAIN keyframe' = Keyframes'
    BY <1>13 DEF SoundMap, Sound, Typed, Keyframes
  <2> QED
    BY <1>2, <2>1, <2>2 DEF keyframe_size
<1>15. LabelsShaped'
    BY <1>1, <1>3 DEF LabelsShaped, labels, Labels
<1>16. Shaped'
    BY <1>1, <1>2, <1>3, <1>11, <1>13, <1>15, StillShaped DEF closing
<1>17. LatestCloses' /\ FrameFresh'
    BY <1>3 DEF LatestCloses, FrameFresh
<1>18. Bounded'
    BY <1>1, <1>3, <1>11, <1>14 DEF Bounded
<1>19. ReplacementsStay' /\ ReplacedGone' /\ HolesOnlyCrossed'
    BY <1>1, <1>3, <1>11 DEF ReplacementsStay, ReplacedGone, HolesOnlyCrossed, closing
<1>20. AssociationsFollow'
  <2>1. SUFFICES ASSUME ~late', NEW k \in Keyframes
                 PROVE  keyframe'[k].associated_patches \cap replaced = {}
    BY <1>3, <1>14 DEF AssociationsFollow
  <2>2. ~late /\ gained \subseteq Registered
    BY <1>3, <2>1
  <2> HIDE DEF gained
  <2>3. k \in 0 .. latest_keyframe
    BY DEF Keyframes
  <2>4. keyframe'[k].associated_patches = kf[k].associated_patches
    BY <1>10, <1>11, <2>3 DEF SwappedAs, kf
  <2>5. keyframe[k].associated_patches \cap replaced = {}
    BY <1>1, <1>2, <2>2 DEF AssociationsFollow
  <2>6. Registered \cap replaced = {}
    BY <1>1 DEF ReplacedGone
  <2> QED
    BY <1>7, <2>2, <2>4, <2>5, <2>6
<1>21. Forward
    BY <1>5, <1>7, <1>10, <1>11 DEF Forward, SwappedAs
<1> QED
    BY <1>13, <1>16, <1>17, <1>18, <1>19, <1>20, <1>21 DEF Invariant

(***************************************************************************)
(* Frames and keyframes.                                                   *)
(***************************************************************************)

\* A frame comes in: there are the keyframes 0 .. n and the labels ls, and one
\* patch more, if any.
LEMMA FrameComesIn ==
    ASSUME Invariant, NEW n, NEW kf, NEW nbs, NEW k \in 0 .. n, NEW seen \in SUBSET Int,
           Sound(kf, patches_by_id, Labels', patch_key, n),
           \A j \in Keyframes : kf[j].associated_patches \subseteq keyframe[j].associated_patches,
           \A j \in (0 .. n) \ Keyframes : kf[j].associated_patches = {},
           LabelsShaped', Labels \subseteq Labels', latest_keyframe <= n, n + 1 <= MaxKeyframes,
           NEW m, m = with_new_patch(kf, nbs, k, seen), MapBecomes(m),
           patch_key' = patch_key + Cardinality(DOMAIN m.patches_by_id \ Registered),
           patch_key' <= MaxPatches, succeed_associations' \subseteq Registered,
           pc' = "update" \/ (pc' = "detect" /\ latest_keyframe < n),
           UNCHANGED <<closing, history>>
    PROVE  Invariant' /\ Forward
<1>1. /\ SoundMap /\ Shaped
      /\ ReplacementsStay /\ ReplacedGone /\ HolesOnlyCrossed /\ AssociationsFollow
    BY DEF Invariant
<1>2. /\ latest_keyframe \in Nat /\ patch_key \in Nat
      /\ DOMAIN keyframe = Keyframes /\ Registered \subseteq Keys
    BY <1>1, Sizes
<1>3. Filed(all_patches_map, CellsOf(patches_by_id, patch_key))
    BY <1>1 DEF SoundMap
<1>4. /\ Sound(m.keyframe, m.patches_by_id, Labels', patch_key', n)
      /\ Filed(m.all_patches_map, CellsOf(m.patches_by_id, patch_key'))
      /\ NewPatchAs(kf, m, patch_key', n)
    BY <1>3, NewPatchSound
<1>5. /\ keyframe' = m.keyframe /\ patches_by_id' = m.patches_by_id
      /\ all_patches_map' = m.all_patches_map
    BY DEF MapBecomes
<1>6. SoundMap' /\ latest_keyframe' = n
    BY <1>4, <1>5, StillSound
<1>7. /\ n \in Nat /\ patch_key' \in Nat /\ keyframe_size' = n + 1
      /\ DOMAIN keyframe' = 0 .. n /\ Keyframes' = 0 .. n
  <2>1. n \in Nat /\ patch_key' \in Nat /\ DOMAIN keyframe' = 0 .. n
    BY <1>4, <1>5 DEF Sound, Typed
  <2>2. Cardinality(0 .. n) = n + 1
    <3>1. n \in Nat
      BY <2>1
    <3> QED
      BY ONLY <3>1, FS_Interval
  <2> QED
    BY <1>6, <2>1, <2>2 DEF keyframe_size, Keyframes
<1>8. /\ patch_key' >= patch_key
      /\ Registered' = Registered \cup ((patch_key + 1) .. patch_key')
      /\ Keys \subseteq Keys' /\ \A p \in (patch_key + 1) .. patch_key' : p \notin Keys
  <2>1. patch_key' >= patch_key /\ Registered' = Registered \cup ((patch_key + 1) .. patch_key')
    BY <1>4, <1>5 DEF NewPatchAs, Registered
  <2>2. Keys \subseteq Keys' /\ \A p \in (patch_key + 1) .. patch_key' : p \notin Keys
    <3>1. Keys = 1 .. patch_key /\ Keys' = 1 .. patch_key'
      BY DEF Keys
    <3>2. patch_key \in Nat /\ patch_key' \in Nat /\ patch_key' >= patch_key
      BY <1>2, <1>7, <2>1
    <3> QED
      BY ONLY <3>1, <3>2
  <2> QED
    BY <2>1, <2>2
<1>9. Shaped'
    BY <1>1, <1>2, <1>6, <1>7, <1>8, StillShaped DEF closing
<1>10. LatestCloses'
  <2>1. /\ LoopsShaped /\ pc' # "strict" /\ loops' = loops
    BY <1>1 DEF Shaped, closing
  <2>2. pc' = "detect" => \A i \in 1 .. Len(loops) : loops[i].current < n
    <3>1. SUFFICES ASSUME latest_keyframe < n, NEW i \in 1 .. Len(loops)
                   PROVE  loops[i].current < n
      OBVIOUS
    <3>2. loops[i].current \in 0 .. latest_keyframe
      BY <2>1 DEF LoopsShaped, LoopShaped
    <3> QED
      BY <1>2, <1>7, <3>1, <3>2
  <2> QED
    BY <1>6, <2>1, <2>2 DEF LatestCloses
<1>11. FrameFresh' /\ Bounded'
    BY <1>2, <1>7, <1>8 DEF FrameFresh, Bounded
<1>12. ReplacementsStay' /\ HolesOnlyCrossed'
    BY <1>1, <1>8 DEF ReplacementsStay, HolesOnlyCrossed, closing, history
<1>13. ReplacedGone'
    BY <1>1, <1>8 DEF ReplacedGone, history
<1>14. AssociationsFollow'
  <2>1. SUFFICES ASSUME ~late, NEW j \in 0 .. n
                 PROVE  keyframe'[j].associated_patches \cap replaced = {}
    BY <1>7 DEF AssociationsFollow, history
  <2>2. keyframe'[j].associated_patches \subseteq kf[j].associated_patches \cup ((patch_key + 1) .. patch_key')
    BY <1>4, <1>5 DEF NewPatchAs
  <2>3. kf[j].associated_patches \cap replaced = {}
    <3>1. CASE j \in Keyframes
      BY <1>1, <1>2, <2>1, <3>1 DEF AssociationsFollow
    <3>2. CASE j \notin Keyframes
      BY <3>2
    <3> QED
      BY <3>1, <3>2
  <2>4. ((patch_key + 1) .. patch_key') \cap replaced = {}
    BY <1>1, <1>8 DEF ReplacedGone
  <2> QED
    BY <2>2, <2>3, <2>4
<1>15. Forward
  <2>1. \A p \in Registered : patches_by_id'[p] = patches_by_id[p]
    BY <1>4, <1>5 DEF NewPatchAs
  <2> QED
    BY <1>1, <2>1, SameOwners
<1> QED
    BY <1>6, <1>9, <1>10, <1>11, <1>12, <1>13, <1>14, <1>15 DEF Invariant

\* Where a frame sees surfaces.
LEMMA SightsAreInts ==
    ASSUME SoundMap, NEW m \in Motions, NEW seen \in Sights,
           NEW x, x = {keyframe[latest_keyframe].T_w_lidar + m + o : o \in seen}
    PROVE  x \in SUBSET Int /\ keyframe[latest_keyframe].T_w_lidar + m \in Int
<1>1. latest_keyframe \in Keyframes /\ keyframe \in [Keyframes -> KeyframeInfos(Labels, Keys)]
    BY Sizes DEF Keyframes
<1>2. keyframe[latest_keyframe].T_w_lidar \in Int
    BY <1>1 DEF KeyframeInfos
<1>3. m \in Int /\ seen \subseteq Int
    BY ConstantsAssumption DEF Sights
<1> QED
    BY <1>2, <1>3

LEMMA FrameStep ==
    ASSUME Invariant, NEW m \in Motions, NEW seen \in Sights, NEW associations \in SUBSET Registered,
           Frame(m, seen, associations)
    PROVE  Invariant' /\ Forward
<1> DEFINE sights == {keyframe[latest_keyframe].T_w_lidar + m + o : o \in seen}
           becomes == with_new_patch(keyframe, neighbor_label_frame_num, latest_keyframe, sights)
<1>1. SoundMap /\ LabelsShaped /\ Bounded
    BY DEF Invariant, Shaped
<1>2. latest_keyframe \in Nat /\ keyframe_size = latest_keyframe + 1
    BY <1>1, Sizes
<1>3. sights \in SUBSET Int
    BY <1>1, SightsAreInts
<1>4. /\ MapBecomes(becomes)
      /\ patch_key' = patch_key + Cardinality(DOMAIN becomes.patches_by_id \ Registered)
      /\ patch_key' <= MaxPatches /\ succeed_associations' \subseteq Registered
      /\ pc' = "update" /\ UNCHANGED <<labels, closing, history>>
    BY DEF Frame
<1>5. Labels' = Labels /\ LabelsShaped'
    BY <1>1, <1>4 DEF Labels, LabelsShaped, labels
<1>6. Sound(keyframe, patches_by_id, Labels', patch_key, latest_keyframe)
    BY <1>1, <1>5 DEF SoundMap, Labels
<1>7. latest_keyframe \in 0 .. latest_keyframe /\ latest_keyframe + 1 <= MaxKeyframes
    BY <1>1, <1>2 DEF Bounded
<1> HIDE DEF becomes, sights
<1> QED
    BY <1>2, <1>3, <1>4, <1>5, <1>6, <1>7, FrameComesIn DEF becomes, Keyframes

\* Labels with neighbours among themselves, each its own neighbour.
Neighboured(n, ls) ==
    /\ n \in [ls -> SUBSET ls]
    /\ \A l \in ls : l \in n[l]

LEMMA SegmentNeighboured ==
    ASSUME LabelsShaped, NEW k, NEW label \in Labels, label = keyframe[latest_keyframe].label
    PROVE  Neighboured(new_segment(k), Labels \cup {k})
<1> DEFINE n == With(neighbor_label_frame_num, k, {k})
           ls == Labels \cup {k}
<1>1. Neighboured(n, ls)
  <2>1. DOMAIN n = ls /\ n = [l \in ls |-> n[l]]
    BY DEF With, Labels
  <2>2. \A l \in ls : n[l] \subseteq ls /\ l \in n[l]
    BY DEF With, LabelsShaped, Labels
  <2> HIDE DEF n, ls
  <2> QED
    BY <2>1, <2>2 DEF Neighboured
<1>2. curr_label \in ls /\ label \in ls /\ k \in ls
    BY DEF LabelsShaped
<1> HIDE DEF n, ls
<1>3. Neighboured(merge_neighbor_label(n, k, curr_label), ls)
  <2> DEFINE both == n[k] \cup n[curr_label]
             n2 == [n EXCEPT ![k] = both, ![curr_label] = both]
  <2>1. merge_neighbor_label(n, k, curr_label) = n2
    BY DEF merge_neighbor_label
  <2>2. both \subseteq ls /\ k \in both /\ curr_label \in both
    BY <1>1, <1>2 DEF Neighboured
  <2> HIDE DEF both
  <2>3. n2 = [l \in ls |-> IF l \in {k, curr_label} THEN both ELSE n[l]]
    BY <1>1 DEF Neighboured
  <2> HIDE DEF n2
  <2>4. Neighboured(n2, ls)
    BY <1>1, <2>2, <2>3 DEF Neighboured
  <2> QED
    BY <2>1, <2>4
<1>4. Neighboured(insert_neighbor_label(n, k, label), ls)
  <2> DEFINE n1 == [n EXCEPT ![k] = @ \cup {label}]
             n2 == [n1 EXCEPT ![label] = @ \cup {k}]
  <2>1. insert_neighbor_label(n, k, label) = n2
    BY <1>1, <1>2 DEF insert_neighbor_label, Neighboured
  <2>2. Neighboured(n1, ls)
    BY <1>1, <1>2 DEF Neighboured
  <2> HIDE DEF n1
  <2>3. Neighboured(n2, ls)
    BY <1>2, <2>2 DEF Neighboured
  <2> QED
    BY <2>1, <2>3
<1> QED
    BY <1>1, <1>3, <1>4 DEF new_segment, n, ls

\* One keyframe more, which lists no patch yet.
LEMMA ExtendedSound ==
    ASSUME SoundMap, NEW ls, Labels \subseteq ls, NEW pose \in Int, NEW label \in ls,
           NEW kf, kf = With(keyframe, keyframe_size,
                             [T_w_lidar |-> pose, label |-> label,
                              local_patches |-> {}, associated_patches |-> {}])
    PROVE  /\ Sound(kf, patches_by_id, ls, patch_key, keyframe_size)
           /\ \A j \in Keyframes : kf[j].associated_patches \subseteq keyframe[j].associated_patches
           /\ \A j \in (0 .. keyframe_size) \ Keyframes : kf[j].associated_patches = {}
<1> DEFINE n == keyframe_size
           info == [T_w_lidar |-> pose, label |-> label, local_patches |-> {}, associated_patches |-> {}]
<1>1. /\ latest_keyframe \in Nat /\ patch_key \in Nat /\ keyframe_size = latest_keyframe + 1
      /\ DOMAIN keyframe = Keyframes /\ Registered \subseteq Keys
      /\ keyframe \in [Keyframes -> KeyframeInfos(Labels, Keys)]
      /\ patches_by_id \in [Registered -> PatchInfos(Keyframes)]
    BY Sizes
<1>2. n \in Nat /\ n \notin Keyframes /\ 0 .. n = Keyframes \cup {n}
    BY <1>1 DEF Keyframes
<1>3. info \in KeyframeInfos(ls, Keys)
    BY DEF KeyframeInfos
<1>4. /\ info.T_w_lidar = pose /\ info.local_patches = {} /\ info.associated_patches = {}
    OBVIOUS
<1> HIDE DEF info, n
<1>5. /\ kf = [j \in 0 .. n |-> kf[j]] /\ DOMAIN kf = 0 .. n
      /\ kf[n] = info /\ \A j \in Keyframes : kf[j] = keyframe[j]
  <2>1. kf = With(keyframe, n, info)
    BY DEF n, info
  <2> QED
    BY <1>1, <1>2, <2>1 DEF With
<1>6. \A j \in 0 .. n : kf[j] \in KeyframeInfos(ls, 1 .. patch_key)
  <2>1. KeyframeInfos(Labels, Keys) \subseteq KeyframeInfos(ls, Keys)
    BY DEF KeyframeInfos
  <2> QED
    BY <1>1, <1>2, <1>3, <1>5, <2>1 DEF Keys
<1>7. \A p \in Registered : patches_by_id[p] \in PatchInfos(0 .. n) /\ patches_by_id[p].keyframe \in Keyframes
  <2>1. PatchInfos(Keyframes) \subseteq PatchInfos(0 .. n)
    BY <1>2 DEF PatchInfos
  <2> QED
    BY <1>1, <2>1 DEF PatchInfos
<1>8. Typed(kf, patches_by_id, ls, patch_key, n)
    BY <1>1, <1>2, <1>5, <1>6, <1>7 DEF Typed, Registered, Keys
<1>9. Listed(kf, patches_by_id)
  <2>1. SUFFICES ASSUME NEW j \in 0 .. n
                 PROVE  kf[j].local_patches = {p \in Registered : patches_by_id[p].keyframe = j}
    BY <1>5 DEF Listed, Registered
  <2>2. CASE j = n
    BY <1>2, <1>4, <1>5, <1>7, <2>2
  <2>3. CASE j \in Keyframes
    BY <1>1, <1>5, <2>3 DEF SoundMap, Sound, Listed, Registered
  <2> QED
    BY <1>2, <2>2, <2>3
<1>10. Boxed(kf, patches_by_id)
    BY <1>5, <1>7 DEF SoundMap, Sound, Boxed, BoxAt, Registered
<1>11. BeforeMiddle(patches_by_id)
    BY DEF SoundMap, Sound
<1>12. Sound(kf, patches_by_id, ls, patch_key, n)
    BY <1>8, <1>9, <1>10, <1>11 DEF Sound
<1>13. \A j \in (0 .. n) \ Keyframes : kf[j].associated_patches = {}
    BY <1>2, <1>4, <1>5
<1> QED
    BY <1>5, <1>12, <1>13 DEF n

LEMMA KeyframeStep ==
    ASSUME Invariant, NEW m \in Motions, NEW is_add_trajectory_segment \in BOOLEAN,
           NEW seen \in Sights, NEW associations \in SUBSET Registered,
           Keyframe(m, is_add_trajectory_segment, seen, associations)
    PROVE  Invariant' /\ Forward
<1> DEFINE k == keyframe_size
           pose == keyframe[latest_keyframe].T_w_lidar + m
           label == IF is_add_trajectory_segment THEN k ELSE keyframe[latest_keyframe].label
           n == IF is_add_trajectory_segment THEN new_segment(k) ELSE neighbor_label_frame_num
           kf == With(keyframe, k, [T_w_lidar |-> pose, label |-> label,
                                    local_patches |-> {}, associated_patches |-> {}])
           sights == {pose + o : o \in seen}
           becomes == with_new_patch(kf, n, k, sights)
           ls == DOMAIN n
<1>1. SoundMap /\ LabelsShaped /\ Bounded
    BY DEF Invariant, Shaped
<1>2. /\ latest_keyframe \in Nat /\ keyframe_size = latest_keyframe + 1
      /\ latest_keyframe \in Keyframes /\ keyframe \in [Keyframes -> KeyframeInfos(Labels, Keys)]
    BY <1>1, Sizes DEF Keyframes
<1>3. sights \in SUBSET Int /\ pose \in Int
    BY <1>1, SightsAreInts
<1>4. /\ MapBecomes(becomes) /\ keyframe_size < MaxKeyframes
      /\ patch_key' = patch_key + Cardinality(DOMAIN becomes.patches_by_id \ Registered)
      /\ patch_key' <= MaxPatches /\ succeed_associations' \subseteq Registered
      /\ neighbor_label_frame_num' = n
      /\ curr_label' = IF is_add_trajectory_segment THEN label ELSE curr_label
      /\ pc' = "detect" /\ UNCHANGED <<closing, history>>
    BY DEF Keyframe
<1>5. keyframe[latest_keyframe].label \in Labels
    BY <1>2 DEF KeyframeInfos
<1>6. Neighboured(n, ls) /\ Labels \subseteq ls /\ label \in ls /\ curr_label' \in ls
  <2>1. CASE is_add_trajectory_segment
    <3>1. n = new_segment(k) /\ label = k /\ curr_label' = k
      BY <1>4, <2>1
    <3>2. Neighboured(new_segment(k), Labels \cup {k})
      BY <1>1, <1>5, SegmentNeighboured
    <3> HIDE DEF n, label
    <3>3. ls = Labels \cup {k}
      BY <3>1, <3>2 DEF Neighboured
    <3> QED
      BY <3>1, <3>2, <3>3
  <2>2. CASE ~is_add_trajectory_segment
    <3>1. n = neighbor_label_frame_num /\ label = keyframe[latest_keyframe].label /\ curr_label' = curr_label
      BY <1>4, <2>2
    <3> HIDE DEF n, label
    <3> QED
      BY <1>1, <1>5, <3>1 DEF Neighboured, LabelsShaped, Labels
  <2> QED
    BY <2>1, <2>2
<1> HIDE DEF n, label, pose
<1>7. Labels' = ls /\ LabelsShaped'
    BY <1>4, <1>6 DEF LabelsShaped, Labels, Neighboured
<1>8. /\ Sound(kf, patches_by_id, ls, patch_key, keyframe_size)
      /\ \A j \in Keyframes : kf[j].associated_patches \subseteq keyframe[j].associated_patches
      /\ \A j \in (0 .. keyframe_size) \ Keyframes : kf[j].associated_patches = {}
    BY <1>1, <1>3, <1>6, ExtendedSound, SMTT(30)
<1>9. /\ keyframe_size \in 0 .. keyframe_size /\ latest_keyframe <= keyframe_size
      /\ latest_keyframe < keyframe_size /\ keyframe_size + 1 <= MaxKeyframes
    BY <1>2, <1>4, ConstantsAssumption
<1> HIDE DEF kf, sights, becomes, ls
<1> QED
    BY <1>3, <1>4, <1>6, <1>7, <1>8, <1>9, FrameComesIn DEF becomes

-----------------------------------------------------------------------------
(* The theorems.                                                           *)

\* The first frame: one keyframe, one label, nothing else.
LEMMA InitInvariant ==
    ASSUME Init
    PROVE  Invariant
<1> DEFINE kf0 == [T_w_lidar |-> 0, label |-> 0, local_patches |-> {}, associated_patches |-> {}]
<1>1. /\ pc = "top" /\ keyframe = [k \in {0} |-> kf0]
      /\ neighbor_label_frame_num = [l \in {0} |-> {0}] /\ curr_label = 0
      /\ patches_by_id = <<>> /\ patch_key = 0 /\ all_patches_map = <<>>
      /\ succeed_associations = {} /\ scan_to_map = <<>> /\ loops = <<>>
      /\ pending_associated_keyframes = <<>>
      /\ replaced = {} /\ holes = {} /\ crossed = {}
    BY DEF Init
<1>2. DOMAIN keyframe = {0} /\ keyframe[0] = kf0 /\ {0} = 0 .. 0 /\ Labels = {0}
    BY <1>1 DEF Labels
<1>3. Cardinality({0}) = 1
    BY FS_Singleton
<1>4. keyframe_size = 1 /\ latest_keyframe = 0 /\ Keyframes = {0} /\ Keys = {}
    BY <1>1, <1>2, <1>3 DEF keyframe_size, latest_keyframe, Keyframes, Keys
<1>5. DOMAIN patches_by_id = {} /\ Registered = {}
    BY <1>1 DEF Registered
<1>6. SoundMap
  <2>1. kf0 \in KeyframeInfos({0}, {})
    BY DEF KeyframeInfos
  <2> HIDE DEF kf0
  <2>2. keyframe \in [0 .. 0 -> KeyframeInfos({0}, {})]
    BY <1>1, <1>2, <2>1
  <2>3. patches_by_id \in [{} -> PatchInfos(0 .. 0)]
    BY <1>1
  <2>4. 1 .. 0 = {}
    OBVIOUS
  <2>5. Typed(keyframe, patches_by_id, {0}, 0, 0)
    BY <1>5, <2>2, <2>3, <2>4 DEF Typed
  <2>6. keyframe[0].local_patches = {}
    BY <1>2 DEF kf0
  <2>7. Listed(keyframe, patches_by_id)
    BY <1>2, <1>5, <2>6 DEF Listed
  <2>8. Boxed(keyframe, patches_by_id) /\ BeforeMiddle(patches_by_id)
    BY <1>5 DEF Boxed, BeforeMiddle
  <2>9. Filed(all_patches_map, CellsOf(patches_by_id, patch_key))
    <3>1. DOMAIN all_patches_map = {} /\ all_patches_map = [c \in {} |-> all_patches_map[c]]
      BY <1>1
    <3>2. DOMAIN CellsOf(patches_by_id, patch_key) = {}
      BY <1>1, <2>4 DEF CellsOf
    <3> QED
      BY <3>1, <3>2 DEF Filed, Within
  <2> QED
    BY <1>1, <1>2, <1>4, <2>5, <2>7, <2>8, <2>9 DEF SoundMap, Sound, Labels
<1>7. Shaped
  <2>1. LabelsShaped
    BY <1>1, <1>2 DEF LabelsShaped
  <2>2. LoopsShaped
    BY <1>1, EmptySeq DEF LoopsShaped
  <2>3. ScansShaped
    BY <1>1 DEF ScansShaped
  <2>4. PairsShaped
    BY <1>1 DEF PairsShaped
  <2> QED
    BY <2>1, <2>2, <2>3, <2>4 DEF Shaped
<1>8. LatestCloses /\ FrameFresh
    BY <1>1 DEF LatestCloses, FrameFresh
<1>9. Bounded
    BY <1>1, <1>4, ConstantsAssumption DEF Bounded
<1>10. Len(loops) = 0
    BY <1>1, EmptySeq
<1>11. ReplacementsStay /\ ReplacedGone /\ HolesOnlyCrossed /\ AssociationsFollow
    BY <1>1, <1>10 DEF ReplacementsStay, ReplacedGone, HolesOnlyCrossed, AssociationsFollow
<1> QED
    BY <1>6, <1>7, <1>8, <1>9, <1>11 DEF Invariant

\* Every step, or none, keeps the invariant and takes no patch to an earlier keyframe.
LEMMA NextStep ==
    ASSUME Invariant, [Next]_vars
    PROVE  Invariant' /\ Forward
<1>1. SoundMap /\ DOMAIN keyframe = Keyframes /\ Keyframes \subseteq Int
    BY Sizes DEF Invariant, Keyframes
<1>2. \A solve \in Solves : solve[1] \in Int /\ solve[2] \in Int
  <2>1. <<0, 0>>[1] \in Int /\ <<0, 0>>[2] \in Int
    OBVIOUS
  <2>2. \A solve \in (DOMAIN keyframe) \X Shifts : solve[1] \in Int /\ solve[2] \in Int
    BY <1>1, ConstantsAssumption
  <2> QED
    BY <2>1, <2>2, Zenon DEF Solves
<1>3. CASE Next
  <2>1. CASE \E m \in Motions, seen \in Sights, associations \in SUBSET Registered :
                Frame(m, seen, associations)
    BY <2>1, FrameStep
  <2>2. CASE \E m \in Motions, seen \in Sights, associations \in SUBSET Registered,
                is_add_trajectory_segment \in BOOLEAN :
                Keyframe(m, is_add_trajectory_segment, seen, associations)
    BY <2>2, KeyframeStep
  <2>3. CASE NoLoop
    BY <2>3, NoLoopStep
  <2>4. CASE \E h \in DOMAIN keyframe : ScanToMapLoop(h)
    BY <2>4, ScanToMapLoopStep
  <2>5. CASE \E h \in DOMAIN keyframe : StrictLoopRejected(h)
    BY <2>5, StrictLoopRejectedStep
  <2>6. CASE \E h \in DOMAIN keyframe : StrictLoopFound(h)
    BY <2>6, StrictLoopFoundStep
  <2>7. CASE \E solve \in Solves : Stage1(solve[1], solve[2])
    BY <1>2, <2>7, Stage1Step
  <2>8. CASE \E i \in DOMAIN loops : Adjusted(i)
    BY <2>8, AdjustedStep
  <2>9. CASE \E solve \in Solves, pairs \in Pairs : Stage3(solve[1], solve[2], pairs)
    BY <1>2, <2>9, Stage3Step
  <2>10. CASE ApplyScanToMap
    BY <2>10, ApplyScanToMapStep
  <2>11. CASE \E updated \in SUBSET succeed_associations : UpdateMap(updated)
    BY <2>11, UpdateMapStep
  <2> QED
    BY <1>3, <2>1, <2>2, <2>3, <2>4, <2>5, <2>6, <2>7, <2>8, <2>9, <2>10, <2>11 DEF Next
<1>4. CASE UNCHANGED vars
  <2>1. /\ SoundMap /\ Shaped /\ LabelsShaped
        /\ UNCHANGED <<keyframe, neighbor_label_frame_num, curr_label, patches>>
    BY <1>4 DEF Invariant, Shaped, vars, labels
  <2>2. /\ SoundMap' /\ LabelsShaped' /\ Forward
        /\ latest_keyframe' = latest_keyframe /\ keyframe_size' = keyframe_size
        /\ Labels' = Labels /\ Keys' = Keys /\ Registered' = Registered /\ Keyframes' = Keyframes
    BY <2>1, MapStays
  <2>3. Shaped'
    <3>1. patch_key' = patch_key /\ patch_key \in Nat /\ latest_keyframe \in Nat
      BY <2>1, Sizes DEF patches
    <3> QED
      BY <1>4, <2>1, <2>2, <3>1, StillShaped DEF vars, closing
  <2>4. LatestCloses' /\ FrameFresh' /\ Bounded'
    BY <1>4, <2>2 DEF LatestCloses, FrameFresh, Bounded, Invariant, vars, framing, closing, patches
  <2>5. ReplacementsStay' /\ ReplacedGone' /\ HolesOnlyCrossed' /\ AssociationsFollow'
    BY <1>4, <2>2 DEF Invariant, vars, ReplacementsStay, ReplacedGone, HolesOnlyCrossed, AssociationsFollow,
                      closing, history
  <2> QED
    BY <2>2, <2>3, <2>4, <2>5 DEF Invariant
<1> QED
    BY <1>3, <1>4

\* The invariant holds throughout, whatever the order of frames, solves and loops.
LEMMA Invariance == Spec => []Invariant
<1>1. Init => Invariant
    BY InitInvariant
<1>2. Invariant /\ [Next]_vars => Invariant'
    BY NextStep
<1> QED
    BY <1>1, <1>2, PTL DEF Spec

\* Every variable keeps its type: keys are handed out once and never zero, and
\* every label, keyframe and patch that is named exists, for any world, any
\* number of keyframes, patches and loops.
THEOREM TypeCorrect == Spec => []TypeOK
<1>1. Invariant => TypeOK
  <2>1. SUFFICES ASSUME Invariant PROVE TypeOK
    OBVIOUS
  <2>2. /\ latest_keyframe \in Nat /\ keyframe_size = latest_keyframe + 1
        /\ DOMAIN keyframe = Keyframes /\ Registered \subseteq Keys
        /\ keyframe \in [Keyframes -> KeyframeInfos(Labels, Keys)]
        /\ patches_by_id \in [Registered -> PatchInfos(Keyframes)]
    BY <2>1, Sizes DEF Invariant
  <2>3. DOMAIN keyframe = 0 .. keyframe_size - 1
    BY <2>2 DEF Keyframes
  <2>4. ASSUME NEW k \in DOMAIN keyframe
        PROVE  /\ keyframe[k].T_w_lidar \in Int
               /\ keyframe[k].label \in DOMAIN neighbor_label_frame_num
               /\ keyframe[k].local_patches \cup keyframe[k].associated_patches \subseteq 1 .. patch_key
    BY <2>2 DEF KeyframeInfos, Labels, Keys
  <2>5. ASSUME NEW p \in Registered
        PROVE  patches_by_id[p].keyframe \in DOMAIN keyframe
    BY <2>2 DEF PatchInfos
  <2>6. LabelsShaped /\ Bounded
    BY <2>1 DEF Invariant, Shaped
  <2> QED
    BY <2>2, <2>3, <2>4, <2>5, <2>6 DEF TypeOK, LabelsShaped, Labels, Keys, Bounded
<1> QED
    BY <1>1, Invariance, PTL

\* A keyframe lists exactly the patches that name it as their owner, however
\* rebinding, removal plans and erasure interleave.
THEOREM OwnersStayExact == Spec => []OwnersExact
<1>1. Invariant => OwnersExact
    BY DEF Invariant, SoundMap, Sound, Listed, OwnersExact, Registered
<1> QED
    BY <1>1, Invariance, PTL

\* Whatever solves move and plans erase, every patch is where its owner says,
\* and in exactly the buckets of the cells its enlarged box reaches, at the
\* place the bucket's index gives it.
THEOREM PatchesStayPlaced == Spec => []PlacedExact
<1>1. Invariant => PlacedExact
  <2>1. SUFFICES ASSUME Invariant PROVE PlacedExact
    OBVIOUS
  <2>2. BoxFollowsPatch
    BY <2>1 DEF Invariant, SoundMap, Sound, Boxed, BoxAt, BoxFollowsPatch, Registered
  <2> DEFINE cells == CellsOf(patches_by_id, patch_key)
             reach == [p \in Registered |-> get_grid_indices(patches_by_id[p].enlarged_bound_w)]
  <2>3. Filed(all_patches_map, cells)
    BY <2>1 DEF Invariant, SoundMap
  <2>4. /\ DOMAIN cells = Keys /\ Registered \subseteq Keys
        /\ \A p \in Keys : cells[p] = IF p \in Registered THEN reach[p] ELSE {}
    BY <2>1, Sizes DEF Invariant, CellsOf, Keys, Registered
  <2>5. \A p \in Registered : reach[p] = get_grid_indices(patches_by_id[p].enlarged_bound_w)
    OBVIOUS
  <2> HIDE DEF cells, reach
  <2>6. \A c : Within(cells, c) = {p \in Registered : c \in reach[p]}
    BY <2>4 DEF Within
  <2>7. ASSUME NEW c \in DOMAIN all_patches_map
        PROVE  LET bucket == all_patches_map[c]
               IN /\ bucket.patches # <<>>
                  /\ Range(bucket.patches) = {p \in Registered : c \in reach[p]}
                  /\ DOMAIN bucket.index = Range(bucket.patches)
                  /\ \A i \in DOMAIN bucket.patches : bucket.index[bucket.patches[i]] = i
    <3> DEFINE bucket == all_patches_map[c]
               S == {p \in Registered : c \in reach[p]}
    <3>1. Within(cells, c) = S
      BY <2>6
    <3>2. BucketHolds(bucket, S) /\ S # {}
      BY <2>3, <3>1 DEF Filed
    <3> HIDE DEF bucket, S
    <3>3. /\ bucket.patches \in Seq(S) /\ DOMAIN bucket.patches = 1 .. Len(bucket.patches)
          /\ DOMAIN bucket.index = S
          /\ \A i \in 1 .. Len(bucket.patches) : bucket.index[bucket.patches[i]] = i
      BY <3>2 DEF BucketHolds
    <3>4. Range(bucket.patches) = S
      <4>1. \A p \in S : /\ bucket.index[p] \in DOMAIN bucket.patches
                         /\ bucket.patches[bucket.index[p]] = p
        BY <3>2, <3>3 DEF BucketHolds
      <4>2. \A i \in DOMAIN bucket.patches : bucket.patches[i] \in S
        BY <3>3
      <4> QED
        BY <4>1, <4>2 DEF Range
    <3>5. bucket.patches # <<>>
      BY <3>2, <3>4 DEF Range
    <3> QED
      BY <3>3, <3>4, <3>5 DEF bucket, S
  <2>8. ASSUME NEW p \in Registered
        PROVE  reach[p] \subseteq DOMAIN all_patches_map
    <3>1. p \in DOMAIN cells /\ cells[p] = reach[p]
      BY <2>4
    <3> QED
      BY <2>3, <3>1 DEF Filed
  <2>9. GridExact
    BY <2>5, <2>7, <2>8 DEF GridExact
  <2> QED
    BY <2>2, <2>9 DEF PlacedExact
<1> QED
    BY <1>1, Invariance, PTL

\* Only where two plans crossed is a patch removed for one that is in the map
\* no more.
THEOREM HolesStayCrossed == Spec => []HolesOnlyCrossed
<1>1. Invariant => HolesOnlyCrossed
    BY DEF Invariant
<1> QED
    BY <1>1, Invariance, PTL

\* No keyframe is associated with a patch again once it was removed for
\* another, unless a frame's own associations outlived the patch.
THEOREM AssociationsStay == Spec => []AssociationsFollow
<1>1. Invariant => AssociationsFollow
    BY DEF Invariant
<1> QED
    BY <1>1, Invariance, PTL

\* No step gives a patch to an earlier keyframe, so that swap_patch takes its
\* two locks in ascending order.
THEOREM RebindsStayForward == Spec => RebindsForward
<1>1. Invariant /\ [Next]_vars => [Forward]_vars
    BY NextStep
<1>2. RebindsForward <=> [][Forward]_vars
    BY PTL DEF RebindsForward, Forward
<1> QED
    BY <1>1, <1>2, Invariance, PTL DEF Spec
=============================================================================
