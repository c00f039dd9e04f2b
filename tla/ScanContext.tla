----------------------------- MODULE ScanContext -----------------------------
(***************************************************************************)
(* Scancontext.cpp: a scan as a grid of rings and sectors that holds the   *)
(* greatest height in each bin, the distance of two such descriptors under *)
(* a turn of the sensor, and the search for the keyframe most like one.    *)
(*                                                                         *)
(* A point is given by its distance from the sensor, its azimuth in units  *)
(* of which FullTurn make a turn, and its height above the ground.  Means  *)
(* are replaced by sums, and similarities are in percent.                  *)
(***************************************************************************)
EXTENDS Integers, FiniteSets, FiniteSetsExt, Functions

CONSTANTS PC_NUM_RING, PC_NUM_SECTOR, PC_MAX_RADIUS,
          FullTurn,             \* 360 degrees
          SEARCH_RATIO,         \* of the sectors, in percent
          SC_DIST_THRES,        \* in percent
          NUM_EXCLUDE_RECENT

ASSUME ScanContextAssumption ==
    /\ {PC_NUM_RING, PC_MAX_RADIUS, FullTurn} \subseteq Nat \ {0}
    /\ PC_NUM_SECTOR \in Nat \ {0, 1} /\ FullTurn % PC_NUM_SECTOR = 0
    /\ SEARCH_RATIO \in Nat /\ {SC_DIST_THRES, NUM_EXCLUDE_RECENT} \subseteq Nat \ {0}

Rings == 0 .. PC_NUM_RING - 1
Sectors == 0 .. PC_NUM_SECTOR - 1

\* min_dist before anything was compared.
Unlike == 10000000

CeilDiv(a, b) == (a + b - 1) \div b
Clamp(x, n) == Max({Min({x, n}), 1})

SectorOf(azimuth) == Clamp(CeilDiv(azimuth * PC_NUM_SECTOR, FullTurn), PC_NUM_SECTOR) - 1
RingOf(range) == Clamp(CeilDiv(range * PC_NUM_RING, PC_MAX_RADIUS), PC_NUM_RING) - 1

\* A descriptor: for each sector the column of its rings; 0 where no point is.
makeScancontext(scan) ==
    [s \in Sectors |-> [r \in Rings |->
        Max({0} \cup {pt.z : pt \in {q \in scan : /\ q.range <= PC_MAX_RADIUS
                                                  /\ SectorOf(q.azimuth) = s
                                                  /\ RingOf(q.range) = r}})]]

\* Columns move to the right, the last ones to the front.
circshift(columns, n) == [s \in Sectors |-> columns[(s - n) % PC_NUM_SECTOR]]

Dot(c1, c2) == SumFunction([r \in Rings |-> c1[r] * c2[r]])

makeSectorkeyFromScancontext(sc) == [s \in Sectors |-> SumFunction(sc[s])]

\* Squared norm of the difference of two sector keys.
KeyDiff(k1, k2) == SumFunction([s \in Sectors |-> (k1[s] - k2[s]) * (k1[s] - k2[s])])

\* Mutant: the last turn is not tried.
AlignButLast(k1, k2) ==
    LET diff(n) == KeyDiff(k1, circshift(k2, n))
        tried == 0 .. PC_NUM_SECTOR - 2
    IN CHOOSE n \in tried : \A m \in tried : diff(n) <= diff(m) /\ (diff(n) = diff(m) => n <= m)

\* The first turn under which the keys differ least.
fastAlignUsingVkey(k1, k2) ==
    LET diff(n) == KeyDiff(k1, circshift(k2, n))
    IN CHOOSE n \in Sectors : \A m \in Sectors : diff(n) <= diff(m) /\ (diff(n) = diff(m) => n <= m)

\* Cosine of two columns that are not zero.
Similarity(c1, c2) ==
    Max({x \in 0 .. 100 : x * x * Dot(c1, c1) * Dot(c2, c2) <= 10000 * Dot(c1, c2) * Dot(c1, c2)})

\* One less the mean similarity of the sectors where both have points; when
\* there is none the mean is not a number, which is less than nothing.
distDirectSC(sc1, sc2) ==
    LET eff == {s \in Sectors : Dot(sc1[s], sc1[s]) # 0 /\ Dot(sc2[s], sc2[s]) # 0}
    IN IF eff = {} THEN Unlike
       ELSE 100 - SumFunction([s \in eff |-> Similarity(sc1[s], sc2[s])]) \div Cardinality(eff)

\* round(0.5 * SEARCH_RATIO * columns)
SearchRadius == (SEARCH_RATIO * PC_NUM_SECTOR + 100) \div 200

distanceBtnScanContext(sc1, sc2) ==
    LET aligned == fastAlignUsingVkey(makeSectorkeyFromScancontext(sc1),
                                      makeSectorkeyFromScancontext(sc2))
        searched == {(aligned + i) % PC_NUM_SECTOR : i \in -SearchRadius .. SearchRadius}
    IN Min({distDirectSC(sc1, circshift(sc2, n)) : n \in searched})

(***************************************************************************)
(* The search of a query among the descriptors of all keyframes, which are *)
(* numbered from 0; -1 stands for none.                                    *)
(***************************************************************************)
Candidates(size, query) ==
    {c \in 0 .. size - 1 : c # query /\ (c - query >= NUM_EXCLUDE_RECENT \/ query - c >= NUM_EXCLUDE_RECENT)}

\* distance[c]: that of the descriptors of the query and of keyframe c.
detectLoopClosureID(size, query, distance) ==
    LET near == {c \in Candidates(size, query) : distance[c] < SC_DIST_THRES}
    IN IF query \notin 0 .. size - 1 \/ size < NUM_EXCLUDE_RECENT + 1 \/ near = {} THEN -1
       ELSE CHOOSE c \in near : \A e \in near :
              distance[c] <= distance[e] /\ (distance[c] = distance[e] => c <= e)
=============================================================================
