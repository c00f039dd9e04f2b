--------------------------- MODULE GeometryProofs ---------------------------
(***************************************************************************)
(* Proofs about dividing a frame, for every cloud, pose, size of a cell    *)
(* and number of regions, about the residuals of a point, for every        *)
(* surface, image, scan and point, and about the search for near           *)
(* keyframes, for every number of them, places, moves, radius and size of  *)
(* a leaf.                                                                 *)
(***************************************************************************)
EXTENDS Preprocess, PointFactors, LoopSearch, SequenceTheorems, FiniteSetTheorems, TLAPS

-----------------------------------------------------------------------------
(* Division                                                                *)
\* Division with a remainder.
LEMMA Quotient ==
  ASSUME NEW a \in Int, NEW b \in Nat \ {0}
  PROVE  /\ a \div b \in Int /\ a % b \in 0 .. b - 1
         /\ a = (a \div b) * b + (a % b)
         /\ (a \div b) * b <= a /\ a < (a \div b) * b + b
<1>1. b > 0 /\ b \in Int
  OBVIOUS
<1>2. a % b \in 0 .. b - 1
  BY <1>1
<1>3. a = b * (a \div b) + (a % b)
  BY <1>1
<1>4. a \div b \in Int
  BY <1>1
<1>5. b * (a \div b) = (a \div b) * b
  BY <1>1, <1>4
<1> QED
  BY <1>1, <1>2, <1>3, <1>4, <1>5

\* A factor that is positive may be left out.
LEMMA Cancels ==
  ASSUME NEW a \in Int, NEW b \in Int, NEW c \in Nat \ {0}
  PROVE  /\ a * c > b * c => a > b
         /\ a * c >= b * c => a >= b
         /\ a * c = b * c => a = b
<1>1. ASSUME a <= b PROVE a * c <= b * c
  BY <1>1
<1>2. ASSUME a < b PROVE a * c < b * c
  BY <1>2
<1>3. ASSUME b < a PROVE b * c < a * c
  BY <1>3
<1>4. a * c \in Int /\ b * c \in Int
  OBVIOUS
<1> QED
  BY <1>1, <1>2, <1>3, <1>4

\* What a division yields.
LEMMA Divided ==
  ASSUME NEW a \in Int, NEW b \in Nat \ {0}, NEW q \in Int, q * b <= a, a < q * b + b
  PROVE  a \div b = q
<1> DEFINE p == a \div b
<1>1. p \in Int /\ p * b <= a /\ a < p * b + b
  BY Quotient
<1> HIDE DEF p
<1>2. (q + 1) * b = q * b + b /\ (p + 1) * b = p * b + b /\ q * b \in Int /\ p * b \in Int
  BY <1>1
<1>3. (q + 1) * b > p * b /\ (p + 1) * b > q * b
  BY <1>1, <1>2
<1>4. q + 1 \in Int /\ p + 1 \in Int
  BY <1>1
<1>5. q + 1 > p /\ p + 1 > q
  BY <1>1, <1>3, <1>4, Cancels
<1>6. p = q
  BY <1>1, <1>5
<1> QED
  BY <1>6 DEF p

\* Multiples are divided without rest.
LEMMA Exact ==
  ASSUME NEW m \in Int, NEW b \in Nat \ {0}
  PROVE  (b * m) \div b = m
<1>1. b * m \in Int /\ m * b <= b * m /\ b * m < m * b + b
  OBVIOUS
<1> HIDE DEF Divided
<1> DEFINE a == b * m
<1>2. a \in Int /\ m * b <= a /\ a < m * b + b
  BY <1>1
<1> HIDE DEF a
<1>3. a \div b = m
  BY <1>2, Divided
<1> QED
  BY <1>3 DEF a

\* A quotient has the sign of what is divided.
LEMMA QuotientSign ==
  ASSUME NEW a \in Int, NEW b \in Nat \ {0}
  PROVE  (a >= 0 => a \div b >= 0) /\ (a <= 0 => a \div b <= 0)
<1> DEFINE p == a \div b
<1>1. p \in Int /\ p * b <= a /\ a < p * b + b
  BY Quotient
<1> HIDE DEF p
<1>2. (p + 1) * b = p * b + b /\ p * b \in Int /\ 0 * b = 0
  BY <1>1
<1>3. ASSUME a >= 0 PROVE p >= 0
  <2>1. (p + 1) * b > 0 * b
    BY <1>1, <1>2, <1>3
  <2>2. p + 1 > 0
    BY <1>1, <2>1, Cancels, p + 1 \in Int
  <2> QED
    BY <1>1, <2>2
<1>4. ASSUME a <= 0 PROVE p <= 0
  <2>1. 0 * b >= p * b
    BY <1>1, <1>2, <1>4
  <2> QED
    BY <1>1, <2>1, Cancels
<1> QED
  BY <1>3, <1>4 DEF p

\* Rounding up.
LEMMA CeilNear ==
  ASSUME NEW a \in Int, NEW b \in Nat \ {0}
  PROVE  /\ Ceil(a, b) \in Int
         /\ a % b = 0 => Ceil(a, b) = a \div b
         /\ a % b # 0 => Ceil(a, b) = a \div b + 1
<1> DEFINE p == a \div b
           r == a % b
           d == -a
<1>1. p \in Int /\ r \in 0 .. b - 1 /\ a = p * b + r /\ d \in Int
  BY Quotient
<1>2. p * b \in Int /\ (-p) * b = -(p * b) /\ (-p - 1) * b = -(p * b) - b
  BY <1>1
<1>3. Ceil(a, b) = -(d \div b)
  BY DEF Ceil
<1> HIDE DEF p, r
<1>4. ASSUME r = 0 PROVE d \div b = -p
  <2>1. -p \in Int /\ (-p) * b <= d /\ d < (-p) * b + b
    BY <1>1, <1>2, <1>4
  <2> HIDE DEF d
  <2> QED
    BY <1>1, <2>1, Divided
<1>5. ASSUME r # 0 PROVE d \div b = -p - 1
  <2>1. -p - 1 \in Int /\ (-p - 1) * b <= d /\ d < (-p - 1) * b + b
    BY <1>1, <1>2, <1>5
  <2> HIDE DEF d
  <2> QED
    BY <1>1, <2>1, Divided
<1> HIDE DEF d
<1>6. r = 0 => Ceil(a, b) = p
  BY <1>1, <1>3, <1>4
<1>7. r # 0 => Ceil(a, b) = p + 1
  BY <1>1, <1>3, <1>5
<1> QED
  BY <1>1, <1>6, <1>7 DEF p, r

\* Rounding goes half a unit at most.
LEMMA RoundNear ==
  ASSUME NEW a \in Int, NEW b \in Nat \ {0}
  PROVE  LET r == Round(a, b)
         IN  r \in Int /\ 2 * a - b <= 2 * (r * b) /\ 2 * (r * b) <= 2 * a + b
<1> DEFINE e == 2 * b
<1>1. e \in Nat \ {0}
  OBVIOUS
<1>2. CASE a >= 0
  <2> DEFINE u == 2 * a + b
             q == u \div e
  <2>1. u \in Int
    OBVIOUS
  <2>2. q \in Int /\ q * e <= u /\ u < q * e + e
    <3> HIDE DEF u, e
    <3> QED
      BY <1>1, <2>1, Quotient
  <2>3. Round(a, b) = q
    BY <1>2 DEF Round
  <2> HIDE DEF q
  <2>4. q * e = 2 * (q * b) /\ q * b \in Int
    BY <2>2
  <2>5. 2 * a - b <= 2 * (q * b) /\ 2 * (q * b) <= 2 * a + b
    BY <2>2, <2>4
  <2> QED
    BY <2>2, <2>3, <2>5
<1>3. CASE a < 0
  <2> DEFINE u == b - 2 * a
             q == u \div e
             s == -q
  <2>1. u \in Int
    OBVIOUS
  <2>2. q \in Int /\ q * e <= u /\ u < q * e + e
    <3> HIDE DEF u, e
    <3> QED
      BY <1>1, <2>1, Quotient
  <2>3. Round(a, b) = s
    BY <1>3 DEF Round
  <2> HIDE DEF q
  <2>4. q * e = 2 * (q * b) /\ q * b \in Int /\ s * b = -(q * b) /\ s \in Int
    BY <2>2
  <2> HIDE DEF s
  <2>5. 2 * a - b <= 2 * (s * b) /\ 2 * (s * b) <= 2 * a + b
    BY <2>2, <2>4
  <2> QED
    BY <2>3, <2>4, <2>5
<1> QED
  BY <1>2, <1>3

\* A multiple nearer than half a unit is what rounding yields.
LEMMA RoundTo ==
  ASSUME NEW a \in Int, NEW b \in Nat \ {0}, NEW j \in Int,
         2 * a - b < 2 * (j * b), 2 * (j * b) < 2 * a + b
  PROVE  Round(a, b) = j
<1> DEFINE r == Round(a, b)
<1>1. r \in Int /\ 2 * a - b <= 2 * (r * b) /\ 2 * (r * b) <= 2 * a + b
  BY RoundNear
<1> HIDE DEF r
<1>2. /\ r * b \in Int /\ j * b \in Int
      /\ (r + 1) * b = r * b + b /\ (j + 1) * b = j * b + b
  BY <1>1
<1>3. (j + 1) * b > r * b /\ (r + 1) * b > j * b
  BY <1>1, <1>2
<1>4. j + 1 > r /\ r + 1 > j
  BY <1>1, <1>3, Cancels, r + 1 \in Int, j + 1 \in Int
<1>5. r = j
  BY <1>1, <1>4
<1> QED
  BY <1>5 DEF r

\* The size of a number, and of a product.
LEMMA Magnitudes ==
  ASSUME NEW a \in Int
  PROVE  /\ Magnitude(a) \in Nat /\ a <= Magnitude(a) /\ -a <= Magnitude(a)
         /\ \A k \in Int : Magnitude(a) <= k <=> -k <= a /\ a <= k
         /\ \A k \in Int : Magnitude(a) < k <=> -k < a /\ a < k
BY DEF Magnitude

\* A product is bounded by the size of one factor and a bound of the other.
LEMMA ProductBound ==
  ASSUME NEW a \in Int, NEW b \in Int, NEW k \in Nat, -k <= b, b <= k
  PROVE  -(Magnitude(a) * k) <= a * b /\ a * b <= Magnitude(a) * k
<1>1. CASE a >= 0
  <2>1. a * b <= a * k /\ a * (-k) <= a * b /\ a * (-k) = -(a * k)
    BY <1>1
  <2> QED
    BY <1>1, <2>1 DEF Magnitude
<1>2. CASE a < 0
  <2> DEFINE m == -a
  <2>1. m \in Nat /\ a * b = -(m * b)
    BY <1>2
  <2>2. Magnitude(a) = m
    BY <1>2 DEF Magnitude
  <2> HIDE DEF m
  <2>3. m * b <= m * k /\ m * (-k) <= m * b /\ m * (-k) = -(m * k) /\ m * b \in Int /\ m * k \in Int
    BY <2>1
  <2> QED
    BY <2>1, <2>2, <2>3
<1> QED
  BY <1>1, <1>2

-----------------------------------------------------------------------------
(* Arithmetic of the grid                                                  *)

Point == [Axes -> Int]

\* Rounding down and up are within one step of what is rounded.
LEMMA FloorBounds ==
  ASSUME NEW a \in Int, NEW b \in Nat \ {0}
  PROVE  /\ FloorDiv(a, b) \in Int
         /\ FloorDiv(a, b) * b <= a /\ a < FloorDiv(a, b) * b + b
BY Quotient DEF FloorDiv

LEMMA CeilBounds ==
  ASSUME NEW a \in Int, NEW b \in Nat \ {0}
  PROVE  /\ CeilDiv(a, b) \in Int
         /\ a <= CeilDiv(a, b) * b /\ CeilDiv(a, b) * b < a + b
<1> DEFINE f == (-a) \div b
<1>1. f \in Int /\ f * b <= -a /\ -a < f * b + b
  BY FloorBounds, -a \in Int DEF FloorDiv
<1>2. CeilDiv(a, b) = -f
  BY DEF CeilDiv
<1> HIDE DEF f
<1>3. (-f) * b = -(f * b)
  BY <1>1
<1>4. f * b \in Int
  BY <1>1
<1> QED
  BY <1>1, <1>2, <1>3, <1>4

LEMMA Scale ==
  ASSUME NEW a \in Int, NEW b \in Int, NEW c \in Nat, a <= b
  PROVE  a * c <= b * c
OBVIOUS

\* Rounding up keeps the order.
LEMMA CeilGrows ==
  ASSUME NEW a \in Int, NEW c \in Int, NEW b \in Nat \ {0}, a <= c
  PROVE  CeilDiv(a, b) <= CeilDiv(c, b)
<1> DEFINE x == CeilDiv(a, b) 
           y == CeilDiv(c, b)
<1>1. x \in Int /\ a <= x * b /\ x * b < a + b
  BY CeilBounds
<1>2. y \in Int /\ c <= y * b /\ y * b < c + b
  BY CeilBounds
<1> HIDE DEF x, y
<1>3. (y + 1) * b = y * b + b
  BY <1>2
<1>4. (y + 1) * b > x * b
  <2>1. x * b \in Int /\ y * b \in Int
    BY <1>1, <1>2
  <2> QED
    BY <1>1, <1>2, <1>3, <2>1
<1>5. y + 1 > x
  BY <1>1, <1>2, <1>4, Cancels, y + 1 \in Int
<1>6. x <= y
  BY <1>1, <1>2, <1>5
<1> QED
  BY <1>6 DEF x, y

\* What is above 0 and at most n times b is rounded up to one of 1 to n.
LEMMA CeilRange ==
  ASSUME NEW a \in Int, NEW b \in Nat \ {0}, NEW n \in Nat, 0 < a, a <= n * b
  PROVE  CeilDiv(a, b) \in 1 .. n
<1> DEFINE x == CeilDiv(a, b)
<1>1. x \in Int /\ a <= x * b /\ x * b < a + b
  BY CeilBounds
<1> HIDE DEF x
<1>2. n * b \in Int /\ x * b \in Int
  BY <1>1
<1>3. x > 0
  <2>1. 0 * b = 0
    OBVIOUS
  <2>2. x * b > 0 * b
    BY <1>1, <1>2, <2>1
  <2> QED
    BY <1>1, <2>2, Cancels
<1>4. (n + 1) * b = n * b + b
  OBVIOUS
<1>5. (n + 1) * b > x * b
  BY <1>1, <1>2, <1>4
<1>6. n + 1 > x
  BY <1>1, <1>5, Cancels, n + 1 \in Int
<1>7. x \in 1 .. n
  BY <1>1, <1>3, <1>6
<1> QED
  BY <1>7 DEF x

\* The place of a region among W rows of W is read off its number.
LEMMA Digits ==
  ASSUME NEW W \in Nat \ {0}, NEW u \in 0 .. W - 1, NEW v \in 0 .. W - 1
  PROVE  /\ v * W + u \in 0 .. W * W - 1
         /\ (v * W + u) % W = u /\ (v * W + u) \div W = v
<1> DEFINE n == v * W + u
           q == n \div W
           m == n % W
<1>1. v * W \in Int /\ W * W \in Int /\ v * W >= 0
  OBVIOUS
<1>2. v * W <= (W - 1) * W /\ (W - 1) * W = W * W - W
  BY Scale
<1>3. n \in Int /\ n \in 0 .. W * W - 1
  BY <1>1, <1>2
<1>4. q \in Int /\ q * W <= n /\ n < q * W + W
  BY <1>3, FloorBounds DEF FloorDiv
<1>5. m \in 0 .. W - 1 /\ n = W * q + m
  <2>1. W > 0 /\ W \in Int
    OBVIOUS
  <2> HIDE DEF n
  <2> QED
    BY <1>3, <2>1
<1>6. n = v * W + u
  OBVIOUS
<1> HIDE DEF n, q, m
<1>7. q * W \in Int
  BY <1>4
<1>8. (q + 1) * W = q * W + W /\ (v + 1) * W = v * W + W
  BY <1>4
<1>9. (q + 1) * W > v * W /\ (v + 1) * W > q * W
  BY <1>1, <1>3, <1>4, <1>6, <1>7, <1>8
<1>10. q + 1 > v /\ v + 1 > q
  BY <1>4, <1>9, Cancels, q + 1 \in Int, v + 1 \in Int
<1>11. q = v
  BY <1>4, <1>10
<1>12. W * q = v * W
  BY <1>11
<1>13. m = u
  BY <1>1, <1>3, <1>5, <1>6, <1>12
<1> QED
  BY <1>3, <1>11, <1>13 DEF n, q, m

-----------------------------------------------------------------------------
(* The box of a cloud                                                      *)

\* A set that has zero and with every number the next one has them all.
LEMMA EveryNumber ==
  ASSUME NEW T, 0 \in T, \A i \in Nat : i \in T => i + 1 \in T
  PROVE  Nat \subseteq T
<1> SUFFICES ASSUME NEW k \in Nat, k \notin T PROVE FALSE
  OBVIOUS
<1> DEFINE Missing == {i \in Nat : i \notin T}
<1>1. PICK least \in Missing : \A i \in Missing : <<i, least>> \notin OpToRel(<, Nat)
  BY k \in Missing, Missing \subseteq Nat, NatLessThanWellFounded, WFMin
<1>2. least \in Nat /\ least \notin T
  BY <1>1
<1>3. least # 0
  BY <1>2
<1>4. least - 1 \in Nat /\ least - 1 < least
  BY <1>2, <1>3
<1>5. CASE least - 1 \in T
  <2>1. (least - 1) + 1 \in T
    BY <1>4, <1>5
  <2> QED
    BY <1>2, <2>1
<1>6. CASE least - 1 \notin T
  <2>1. least - 1 \in Missing
    BY <1>4, <1>6
  <2>2. <<least - 1, least>> \in OpToRel(<, Nat)
    BY <1>2, <1>4 DEF OpToRel
  <2> QED
    BY <1>1, <2>1, <2>2
<1> QED
  BY <1>5, <1>6

Least(S, x) == x \in S /\ \A y \in S : x <= y
Greatest(S, x) == x \in S /\ \A y \in S : x >= y

\* A finite set of numbers that is not empty has a least and a greatest one.
LEMMA Extremes ==
  ASSUME NEW S, S \subseteq Int, IsFiniteSet(S), S # {}
  PROVE  Least(S, Min(S)) /\ Greatest(S, Max(S))
<1> DEFINE Ends(A) == (\E x \in A : Least(A, x)) /\ (\E x \in A : Greatest(A, x))
           T == {n \in Nat : \A A \in SUBSET Int :
                               IsFiniteSet(A) /\ Cardinality(A) = n + 1 => Ends(A)}
<1>1. 0 \in T
  <2> SUFFICES ASSUME NEW A \in SUBSET Int, IsFiniteSet(A), Cardinality(A) = 0 + 1
               PROVE  Ends(A)
    OBVIOUS
  <2>1. Cardinality(A) = 1
    OBVIOUS
  <2>2. PICK x : A = {x}
    BY ONLY IsFiniteSet(A), <2>1, FS_Singleton
  <2>3. x \in Int /\ x <= x /\ x >= x
    BY <2>2
  <2> QED
    BY <2>2, <2>3 DEF Least, Greatest
<1>2. ASSUME NEW n \in Nat, n \in T PROVE n + 1 \in T
  <2> SUFFICES ASSUME NEW A \in SUBSET Int, IsFiniteSet(A), Cardinality(A) = (n + 1) + 1
               PROVE  Ends(A)
    OBVIOUS
  <2>1. PICK x : x \in A
    BY FS_EmptySet
  <2> DEFINE B == A \ {x}
  <2>2. IsFiniteSet(B) /\ Cardinality(B) = n + 1 /\ B \in SUBSET Int
    BY <2>1, FS_RemoveElement
  <2>3. Ends(B)
    BY <1>2, <2>2
  <2>4. PICK lo \in B : Least(B, lo)
    BY <2>3
  <2>5. PICK hi \in B : Greatest(B, hi)
    BY <2>3
  <2>6. \E y \in A : Least(A, y)
    <3>1. CASE x <= lo
      BY <2>1, <2>4, <3>1 DEF Least
    <3>2. CASE lo <= x
      BY <2>1, <2>4, <3>2 DEF Least
    <3> QED
      BY <2>1, <2>4, <3>1, <3>2
  <2>7. \E y \in A : Greatest(A, y)
    <3>1. CASE x >= hi
      BY <2>1, <2>5, <3>1 DEF Greatest
    <3>2. CASE hi >= x
      BY <2>1, <2>5, <3>2 DEF Greatest
    <3> QED
      BY <2>1, <2>5, <3>1, <3>2
  <2> QED
    BY <2>6, <2>7
<1>3. Nat \subseteq T
  <2> HIDE DEF T
  <2> QED
    BY ONLY <1>1, <1>2, EveryNumber
<1>4. Cardinality(S) \in Nat \ {0}
  BY FS_CardinalityType, FS_EmptySet
<1>5. Cardinality(S) - 1 \in T /\ Cardinality(S) = (Cardinality(S) - 1) + 1
  BY <1>3, <1>4
<1>6. Ends(S)
  BY <1>5
<1>7. Least(S, Min(S))
  BY <1>6 DEF Min, Least
<1>8. Greatest(S, Max(S))
  BY <1>6 DEF Max, Greatest
<1> QED
  BY <1>7, <1>8

\* The values of a function on a finite set are finitely many.
LEMMA ImageFinite ==
  ASSUME NEW S, IsFiniteSet(S), NEW f
  PROVE  IsFiniteSet({f[x] : x \in S})
<1> DEFINE T == {f[x] : x \in S}
           g == [x \in S |-> f[x]]
<1>1. g \in Surjection(S, T)
  BY DEF Surjection
<1> HIDE DEF g, T
<1>2. IsFiniteSet(T)
  BY <1>1, FS_Surjection
<1> QED
  BY <1>2 DEF T

\* The world positions of a cloud, and the box that divide_patches counts in.
Positions(cloud, from) == {InWorld(pt, from) : pt \in cloud}
BoxOf(cloud, from) == WholeCells(get_bounding_box_w(Positions(cloud, from)))

LEMMA BoundingBox ==
  ASSUME NEW cloud \in SUBSET Point, IsFiniteSet(cloud), NEW from \in Point,
         NEW pt \in cloud, NEW a \in Axes
  PROVE  LET box == get_bounding_box_w(Positions(cloud, from))
         IN  /\ box[a].low \in Int /\ box[a].high \in Int
             /\ box[a].low <= InWorld(pt, from)[a] /\ InWorld(pt, from)[a] <= box[a].high
<1> DEFINE f == [q \in cloud |-> InWorld(q, from)[a]]
           S == {f[q] : q \in cloud}
           R == {q[a] : q \in Positions(cloud, from)}
<1>1. R = S
  BY DEF Positions
<1>2. \A q \in cloud : f[q] \in Int /\ f[q] = InWorld(q, from)[a]
  BY DEF InWorld, Point
<1>3. S \subseteq Int /\ f[pt] \in S
  BY <1>2
<1>4. IsFiniteSet(S)
  <2> HIDE DEF f
  <2> QED
    BY ImageFinite
<1>5. Least(S, Min(S)) /\ Greatest(S, Max(S))
  <2> HIDE DEF S
  <2> QED
    BY <1>3, <1>4, Extremes
<1>6. /\ get_bounding_box_w(Positions(cloud, from))[a].low = Min(R)
      /\ get_bounding_box_w(Positions(cloud, from))[a].high = Max(R)
  BY DEF get_bounding_box_w
<1> HIDE DEF f, S, R
<1>7. Min(S) \in Int /\ Max(S) \in Int /\ Min(S) <= f[pt] /\ Max(S) >= f[pt]
  BY <1>3, <1>5 DEF Least, Greatest
<1> QED
  BY <1>1, <1>2, <1>6, <1>7

\* The cell lies in the box, above its lower border and not above its upper one.
Encloses(box, cell) ==
  \A a \in Axes :
    /\ box[a].low \in Int /\ Length(box, a) \in Nat \ {0} /\ cell[a] \in Int
    /\ 0 < cell[a] * cut_threshold - box[a].low
    /\ cell[a] * cut_threshold - box[a].low <= Length(box, a)

\* The box encloses the cell of every point, those on its borders included.
LEMMA BoxEncloses ==
  ASSUME NEW cloud \in SUBSET Point, IsFiniteSet(cloud), NEW from \in Point, NEW pt \in cloud
  PROVE  Encloses(BoxOf(cloud, from), CellOf(pt, from))
<1> SUFFICES ASSUME NEW a \in Axes
             PROVE  LET box == BoxOf(cloud, from)
                        cell == CellOf(pt, from)
                    IN  /\ box[a].low \in Int /\ Length(box, a) \in Nat \ {0} /\ cell[a] \in Int
                        /\ 0 < cell[a] * cut_threshold - box[a].low
                        /\ cell[a] * cut_threshold - box[a].low <= Length(box, a)
  BY DEF Encloses
<1> DEFINE T == cut_threshold
           w == InWorld(pt, from)[a]
           lo == get_bounding_box_w(Positions(cloud, from))[a].low
           hi == get_bounding_box_w(Positions(cloud, from))[a].high
           c == CeilDiv(w, T)
           e == CeilDiv(hi, T)
           f == FloorDiv(lo, T)
           box == BoxOf(cloud, from)
<1>1. T \in Nat \ {0}
  BY PreprocessAssumption
<1>2. w \in Int
  BY DEF InWorld, Point
<1>3. lo \in Int /\ hi \in Int /\ lo <= w /\ w <= hi
  BY BoundingBox
<1>4. /\ CellOf(pt, from)[a] = c
      /\ box[a].low = f * T - 1 /\ box[a].high = e * T
      /\ Length(box, a) = box[a].high - box[a].low
  BY DEF CellOf, BoxOf, WholeCells, Lower, Upper, Length
<1> HIDE DEF w, lo, hi, T, box
<1>5. c \in Int /\ w <= c * T /\ c * T < w + T
  BY <1>1, <1>2, CeilBounds
<1>6. e \in Int /\ c <= e
  BY <1>1, <1>2, <1>3, CeilBounds, CeilGrows
<1>7. f \in Int /\ f * T <= lo
  BY <1>1, <1>3, FloorBounds
<1> HIDE DEF c, e, f
<1>8. c * T <= e * T
  BY <1>1, <1>5, <1>6, Scale
<1>9. c * T \in Int /\ e * T \in Int /\ f * T \in Int
  BY <1>1, <1>5, <1>6, <1>7
<1>10. /\ f * T - 1 \in Int /\ 0 < c * T - (f * T - 1)
       /\ c * T - (f * T - 1) <= e * T - (f * T - 1)
       /\ e * T - (f * T - 1) \in Nat \ {0}
  BY <1>2, <1>3, <1>5, <1>7, <1>8, <1>9
<1>11. Length(box, a) = e * T - (f * T - 1)
  BY <1>4
<1>12. CellOf(pt, from)[a] * T = c * T
  BY <1>4
<1> QED
  BY <1>4, <1>5, <1>10, <1>11, <1>12 DEF T, box

-----------------------------------------------------------------------------
(* The regions                                                             *)

LEMMA IndexRange ==
  ASSUME NEW box, NEW cell, Encloses(box, cell), NEW a \in Axes
  PROVE  RegionIndex(box, a, cell) \in 0 .. region_width_elements - 1
<1> DEFINE W == region_width_elements
           L == Length(box, a)
           x == cell[a] * cut_threshold - box[a].low
           c == CeilDiv(x * W, L)
<1>1. W \in Nat \ {0} /\ cut_threshold \in Nat \ {0}
  BY PreprocessAssumption
<1>2. L \in Nat \ {0} /\ x \in Int /\ 0 < x /\ x <= L
  BY <1>1 DEF Encloses
<1>3. RegionIndex(box, a, cell) = c - 1
  BY DEF RegionIndex
<1> HIDE DEF W, L, x
<1>4. x * W <= L * W /\ L * W = W * L
  BY <1>1, <1>2, Scale
<1>5. 0 < x * W
  <2>1. 1 * W <= x * W /\ 1 * W = W
    BY <1>1, <1>2, Scale
  <2>2. x * W \in Int
    BY <1>1, <1>2
  <2> QED
    BY <1>1, <2>1, <2>2
<1>6. c \in 1 .. W
  <2>1. x * W \in Int /\ W \in Nat
    BY <1>1, <1>2
  <2>2. x * W <= W * L
    BY <1>4
  <2> QED
    BY ONLY <1>2, <1>5, <2>1, <2>2, CeilRange DEF c
<1> HIDE DEF c
<1>7. c - 1 \in 0 .. W - 1
  BY <1>1, <1>6
<1> QED
  BY <1>3, <1>7 DEF W

LEMMA IndexGrows ==
  ASSUME NEW box, NEW cell, Encloses(box, cell), NEW next, Encloses(box, next), NEW a \in Axes,
         cell[a] <= next[a]
  PROVE  RegionIndex(box, a, cell) <= RegionIndex(box, a, next)
<1> DEFINE W == region_width_elements
           L == Length(box, a)
           T == cut_threshold
           x == cell[a] * T - box[a].low
           y == next[a] * T - box[a].low
           c == CeilDiv(x * W, L)
           d == CeilDiv(y * W, L)
<1>1. W \in Nat \ {0} /\ T \in Nat \ {0}
  BY PreprocessAssumption
<1>2. L \in Nat \ {0} /\ cell[a] \in Int /\ next[a] \in Int /\ box[a].low \in Int
  BY DEF Encloses
<1>3. RegionIndex(box, a, cell) = c - 1 /\ RegionIndex(box, a, next) = d - 1
  BY DEF RegionIndex
<1>4. x \in Int /\ y \in Int /\ x <= y
  <2> HIDE DEF T
  <2>1. cell[a] * T <= next[a] * T
    BY <1>1, <1>2, Scale
  <2>2. cell[a] * T \in Int /\ next[a] * T \in Int
    BY <1>1, <1>2
  <2> QED
    BY <1>2, <2>1, <2>2
<1> HIDE DEF W, L, T, x, y
<1>5. x * W \in Int /\ y * W \in Int /\ x * W <= y * W
  BY <1>1, <1>4, Scale
<1>6. c <= d
  BY <1>2, <1>5, CeilGrows
<1>7. c \in Int /\ d \in Int
  BY <1>2, <1>5, CeilBounds
<1> HIDE DEF c, d
<1> QED
  BY <1>3, <1>6, <1>7

\* Regions are counted along two axes in their order; the third is a shortest one.
Chosen(axes, lengths) ==
  /\ axes[1] \in Axes /\ axes[2] \in Axes /\ axes[1] < axes[2]
  /\ \E w \in Axes \ {axes[1], axes[2]} : \A a \in Axes : lengths[w] <= lengths[a]

LEMMA AxesChosen ==
  ASSUME NEW box, \A a \in Axes : Length(box, a) \in Int
  PROVE  Chosen(RegionAxes(box), [a \in Axes |-> Length(box, a)])
<1> DEFINE l == [a \in Axes |-> Length(box, a)]
           S == {a \in Axes : \A b \in Axes : l[a] <= l[b]}
<1>1. /\ 1 \in Axes /\ 2 \in Axes /\ 3 \in Axes
      /\ \A a \in Axes : a = 1 \/ a = 2 \/ a = 3
  BY DEF Axes
<1>2. l[1] \in Int /\ l[2] \in Int /\ l[3] \in Int
  BY <1>1
<1>3. RegionAxes(box) = IF 3 \in S THEN <<1, 2>> ELSE IF 1 \in S THEN <<2, 3>> ELSE <<1, 3>>
  BY DEF RegionAxes
<1> HIDE DEF l
<1>4. 1 \in S \/ 2 \in S \/ 3 \in S
  BY <1>1, <1>2
<1>5. ASSUME NEW u \in Axes, NEW v \in Axes, NEW w \in S, u < v, w # u, w # v,
             RegionAxes(box) = <<u, v>>
      PROVE  Chosen(RegionAxes(box), l)
  BY <1>5 DEF Chosen
<1>6. ASSUME 3 \in S PROVE Chosen(RegionAxes(box), l)
  BY <1>1, <1>3, <1>5, <1>6
<1>7. ASSUME 3 \notin S /\ 1 \in S PROVE Chosen(RegionAxes(box), l)
  BY <1>1, <1>3, <1>5, <1>7
<1>8. ASSUME 3 \notin S /\ 1 \notin S PROVE Chosen(RegionAxes(box), l)
  BY <1>1, <1>3, <1>4, <1>5, <1>8
<1> QED
  BY <1>6, <1>7, <1>8 DEF l

\* A cell in the box has a region, and its two places along the axes tell which.
LEMMA RegionDigits ==
  ASSUME NEW box, NEW cell, Encloses(box, cell)
  PROVE  LET r == RegionOf(box, cell)
             axes == RegionAxes(box)
         IN  /\ r \in Regions
             /\ r % region_width_elements = RegionIndex(box, axes[1], cell)
             /\ r \div region_width_elements = RegionIndex(box, axes[2], cell)
<1> DEFINE axes == RegionAxes(box)
           W == region_width_elements
           u == RegionIndex(box, axes[1], cell)
           v == RegionIndex(box, axes[2], cell)
<1>1. \A a \in Axes : Length(box, a) \in Int
  BY DEF Encloses
<1>2. axes[1] \in Axes /\ axes[2] \in Axes
  BY <1>1, AxesChosen DEF Chosen
<1>3. u \in 0 .. W - 1 /\ v \in 0 .. W - 1
  BY <1>2, IndexRange
<1>4. W \in Nat \ {0}
  BY PreprocessAssumption
<1>5. RegionOf(box, cell) = v * W + u
  BY DEF RegionOf
<1> HIDE DEF u, v, W
<1>6. /\ v * W + u \in 0 .. W * W - 1
      /\ (v * W + u) % W = u /\ (v * W + u) \div W = v
  BY <1>3, <1>4, Digits
<1> QED
  BY <1>5, <1>6 DEF Regions, W, u, v

-----------------------------------------------------------------------------
(* The patches of a frame                                                  *)

\* SetToSeq lists a finite set, every member once.
LEMMA Listed ==
  ASSUME NEW S, IsFiniteSet(S)
  PROVE  LET s == SetToSeq(S)
         IN  /\ s \in Seq(S)
             /\ \A x \in S : \E i \in 1 .. Len(s) : s[i] = x
             /\ \A i, j \in 1 .. Len(s) : s[i] = s[j] => i = j
<1> DEFINE n == Cardinality(S)
           s == SetToSeq(S)
<1>1. n \in Nat /\ ExistsBijection(1 .. n, S)
  BY FS_CardinalityType
<1> HIDE DEF n
<1>2. \E f \in [1 .. n -> S] : IsInjective(f)
  BY <1>1 DEF ExistsBijection, Bijection, Injection
<1>3. s \in [1 .. n -> S] /\ IsInjective(s)
  BY <1>2 DEF SetToSeq, n
<1> HIDE DEF s
<1>4. s \in Injection(1 .. n, S)
  BY <1>3 DEF Injection
<1>5. IsFiniteSet(1 .. n) /\ Cardinality(1 .. n) = n
  <2>1. Cardinality(1 .. n) = IF 1 > n THEN 0 ELSE n - 1 + 1
    BY <1>1, FS_Interval
  <2> QED
    BY <1>1, <2>1, FS_Interval
<1>6. s \in Surjection(1 .. n, S)
  BY <1>4, <1>5, FS_Injection DEF n
<1>7. s \in Seq(S) /\ Len(s) = n
  BY <1>1, <1>3
<1>8. \A i, j \in 1 .. n : s[i] = s[j] => i = j
  BY <1>3 DEF IsInjective
<1>9. \A x \in S : \E i \in 1 .. n : s[i] = x
  BY <1>6 DEF Surjection
<1> QED
  BY <1>7, <1>8, <1>9 DEF s

\* The points of a cloud in a cell, and the patches of a region.
Within(cloud, from, cell) == {pt \in cloud : CellOf(pt, from) = cell}
Enough(cloud, from) ==
  {cell \in {CellOf(pt, from) : pt \in cloud} :
     Cardinality(Within(cloud, from, cell)) >= patch_minimun_pts_num_after_filter}
PatchesOf(cloud, from, box, r) ==
  {Within(cloud, from, cell) : cell \in {c \in Enough(cloud, from) : RegionOf(box, c) = r}}

LEMMA DividedBy ==
  ASSUME NEW cloud, NEW from, NEW box
  PROVE  divide_patches(cloud, from, box) = [r \in Regions |-> SetToSeq(PatchesOf(cloud, from, box, r))]
BY DEF divide_patches, PatchesOf, Enough, Within

LEMMA PatchesFinite ==
  ASSUME NEW cloud, IsFiniteSet(cloud), NEW from, NEW box, NEW r
  PROVE  IsFiniteSet(PatchesOf(cloud, from, box, r))
<1>1. IsFiniteSet(SUBSET cloud)
  BY FS_SUBSET
<1>2. PatchesOf(cloud, from, box, r) \in SUBSET (SUBSET cloud)
  BY DEF PatchesOf, Within
<1> QED
  BY <1>1, <1>2, FS_Subset

\* The entries of a region that are of one kind are its patches of that kind, each
\* of them once.
Filled(is_ground, patches, vec, kinds) ==
  /\ \A i \in DOMAIN vec : kinds[i] = is_ground => vec[i] \in patches
  /\ \A i, j \in DOMAIN vec :
       kinds[i] = is_ground /\ kinds[j] = is_ground /\ vec[i] = vec[j] => i = j
  /\ \A x \in patches : \E i \in DOMAIN vec : kinds[i] = is_ground /\ vec[i] = x

\* Of two sequences, one behind the other, with their kinds beside them.
LEMMA Concatenated ==
  ASSUME NEW A, NEW s \in Seq(A), NEW g \in Seq(A)
  PROVE  LET v == s \o g
             k == [i \in DOMAIN s |-> FALSE] \o [i \in DOMAIN g |-> TRUE]
         IN  /\ \A i \in DOMAIN v :
                  \/ i \in 1 .. Len(s) /\ k[i] = FALSE /\ v[i] = s[i]
                  \/ i - Len(s) \in 1 .. Len(g) /\ k[i] = TRUE /\ v[i] = g[i - Len(s)]
             /\ \A i \in 1 .. Len(s) : i \in DOMAIN v /\ k[i] = FALSE /\ v[i] = s[i]
             /\ \A i \in 1 .. Len(g) :
                  Len(s) + i \in DOMAIN v /\ k[Len(s) + i] = TRUE /\ v[Len(s) + i] = g[i]
<1> DEFINE v == s \o g
           x == [i \in DOMAIN s |-> FALSE]
           y == [i \in DOMAIN g |-> TRUE]
           k == x \o y
           m == Len(s)
           n == Len(g)
<1>1. m \in Nat /\ n \in Nat /\ DOMAIN s = 1 .. m /\ DOMAIN g = 1 .. n
  OBVIOUS
<1>2. x \in Seq(BOOLEAN) /\ Len(x) = m /\ \A i \in 1 .. m : x[i] = FALSE
  BY <1>1
<1>3. y \in Seq(BOOLEAN) /\ Len(y) = n /\ \A i \in 1 .. n : y[i] = TRUE
  BY <1>1
<1>4. /\ v \in Seq(A) /\ Len(v) = m + n
      /\ \A i \in 1 .. m + n : v[i] = IF i <= m THEN s[i] ELSE g[i - m]
  BY ConcatProperties
<1> HIDE DEF x, y
<1>5. \A i \in 1 .. m + n : k[i] = IF i <= m THEN x[i] ELSE y[i - m]
  BY <1>2, <1>3, ConcatProperties
<1>6. DOMAIN v = 1 .. m + n
  BY <1>4
<1> HIDE DEF v, k, m, n
<1>7. ASSUME NEW i \in 1 .. m PROVE i \in 1 .. m + n /\ k[i] = FALSE /\ v[i] = s[i]
  <2>1. i \in 1 .. m + n /\ i <= m
    BY <1>1
  <2> QED
    BY <1>2, <1>4, <1>5, <2>1
<1>8. ASSUME NEW i \in 1 .. m + n, ~ i <= m
      PROVE  i - m \in 1 .. n /\ k[i] = TRUE /\ v[i] = g[i - m]
  <2>1. i - m \in 1 .. n
    BY <1>1, <1>8
  <2>2. k[i] = y[i - m] /\ v[i] = g[i - m]
    BY <1>4, <1>5, <1>8
  <2> QED
    BY <1>3, <2>1, <2>2
<1>9. ASSUME NEW i \in 1 .. n
      PROVE  m + i \in 1 .. m + n /\ k[m + i] = TRUE /\ v[m + i] = g[i]
  <2> DEFINE q == m + i
  <2>1. q \in 1 .. m + n /\ ~ q <= m /\ q - m = i
    BY <1>1
  <2> HIDE DEF q
  <2>2. k[q] = TRUE /\ v[q] = g[i]
    BY <1>8, <2>1
  <2> QED
    BY <2>1, <2>2 DEF q
<1>10. \A i \in DOMAIN v :
         \/ i \in 1 .. m /\ k[i] = FALSE /\ v[i] = s[i]
         \/ i - m \in 1 .. n /\ k[i] = TRUE /\ v[i] = g[i - m]
  <2> SUFFICES ASSUME NEW i \in 1 .. m + n
               PROVE  \/ i \in 1 .. m /\ k[i] = FALSE /\ v[i] = s[i]
                      \/ i - m \in 1 .. n /\ k[i] = TRUE /\ v[i] = g[i - m]
    BY <1>6
  <2>1. CASE i <= m
    <3>1. i \in 1 .. m
      BY <1>1, <2>1
    <3> QED
      BY <1>7, <3>1
  <2>2. CASE ~ i <= m
    BY <1>8, <2>2
  <2> QED
    BY <2>1, <2>2
<1>11. \A i \in 1 .. m : i \in DOMAIN v /\ k[i] = FALSE /\ v[i] = s[i]
  BY <1>6, <1>7
<1>12. \A i \in 1 .. n : m + i \in DOMAIN v /\ k[m + i] = TRUE /\ v[m + i] = g[i]
  BY <1>6, <1>9
<1> QED
  BY <1>10, <1>11, <1>12 DEF v, k, x, y, m, n

LEMMA FilledBoth ==
  ASSUME NEW P, IsFiniteSet(P), NEW Q, IsFiniteSet(Q)
  PROVE  LET s == SetToSeq(P)
             g == SetToSeq(Q)
             v == s \o g
             k == [i \in DOMAIN s |-> FALSE] \o [i \in DOMAIN g |-> TRUE]
         IN  Filled(FALSE, P, v, k) /\ Filled(TRUE, Q, v, k)
<1> DEFINE s == SetToSeq(P)
           g == SetToSeq(Q)
           v == s \o g
           k == [i \in DOMAIN s |-> FALSE] \o [i \in DOMAIN g |-> TRUE]
<1>1. /\ s \in Seq(P) /\ \A x \in P : \E i \in 1 .. Len(s) : s[i] = x
      /\ \A i, j \in 1 .. Len(s) : s[i] = s[j] => i = j
  BY Listed
<1>2. /\ g \in Seq(Q) /\ \A x \in Q : \E i \in 1 .. Len(g) : g[i] = x
      /\ \A i, j \in 1 .. Len(g) : g[i] = g[j] => i = j
  BY Listed
<1> HIDE DEF s, g
<1>3. s \in Seq(P \cup Q) /\ g \in Seq(P \cup Q)
  BY <1>1, <1>2
<1>4. /\ \A i \in DOMAIN v :
           \/ i \in 1 .. Len(s) /\ k[i] = FALSE /\ v[i] = s[i]
           \/ i - Len(s) \in 1 .. Len(g) /\ k[i] = TRUE /\ v[i] = g[i - Len(s)]
      /\ \A i \in 1 .. Len(s) : i \in DOMAIN v /\ k[i] = FALSE /\ v[i] = s[i]
      /\ \A i \in 1 .. Len(g) :
           Len(s) + i \in DOMAIN v /\ k[Len(s) + i] = TRUE /\ v[Len(s) + i] = g[i]
  BY ONLY <1>3, Concatenated
<1>5. Len(s) \in Nat /\ Len(g) \in Nat /\ DOMAIN v \subseteq Int
  BY <1>3, ConcatProperties
<1> HIDE DEF v, k
<1>6. \A i \in 1 .. Len(s) : s[i] \in P
  BY <1>1
<1>7. \A i \in 1 .. Len(g) : g[i] \in Q
  BY <1>2
<1>8. \A i \in DOMAIN v : k[i] = FALSE => i \in 1 .. Len(s) /\ v[i] = s[i]
  BY <1>4
<1>9. \A i \in DOMAIN v : k[i] = TRUE => i - Len(s) \in 1 .. Len(g) /\ v[i] = g[i - Len(s)]
  BY <1>4
<1>10. Filled(FALSE, P, v, k)
  <2>1. \A i \in DOMAIN v : k[i] = FALSE => v[i] \in P
    BY <1>6, <1>8
  <2>2. ASSUME NEW i \in DOMAIN v, NEW j \in DOMAIN v, k[i] = FALSE, k[j] = FALSE, v[i] = v[j]
        PROVE  i = j
    <3>1. i \in 1 .. Len(s) /\ j \in 1 .. Len(s) /\ s[i] = s[j]
      BY <1>8, <2>2
    <3> QED
      BY <1>1, <3>1
  <2>3. ASSUME NEW x \in P PROVE \E i \in DOMAIN v : k[i] = FALSE /\ v[i] = x
    <3>1. PICK i \in 1 .. Len(s) : s[i] = x
      BY <1>1
    <3>2. i \in DOMAIN v /\ k[i] = FALSE /\ v[i] = x
      BY <1>4, <3>1
    <3> QED
      BY <3>2
  <2> QED
    BY <2>1, <2>2, <2>3 DEF Filled
<1>11. Filled(TRUE, Q, v, k)
  <2>1. \A i \in DOMAIN v : k[i] = TRUE => v[i] \in Q
    BY <1>7, <1>9
  <2>2. ASSUME NEW i \in DOMAIN v, NEW j \in DOMAIN v, k[i] = TRUE, k[j] = TRUE, v[i] = v[j]
        PROVE  i = j
    <3>1. i - Len(s) \in 1 .. Len(g) /\ j - Len(s) \in 1 .. Len(g)
      BY <1>9, <2>2
    <3>2. g[i - Len(s)] = g[j - Len(s)]
      BY <1>9, <2>2
    <3>3. i - Len(s) = j - Len(s)
      BY <1>2, <3>1, <3>2
    <3> QED
      BY <1>5, <3>3
  <2>3. ASSUME NEW x \in Q PROVE \E i \in DOMAIN v : k[i] = TRUE /\ v[i] = x
    <3>1. PICK i \in 1 .. Len(g) : g[i] = x
      BY <1>2
    <3> DEFINE j == Len(s) + i
    <3>2. j \in DOMAIN v /\ k[j] = TRUE /\ v[j] = x
      BY <1>4, <3>1
    <3> HIDE DEF j
    <3> QED
      BY <3>2
  <2> QED
    BY <2>1, <2>2, <2>3 DEF Filled
<1> QED
  BY <1>10, <1>11 DEF s, g, v, k

-----------------------------------------------------------------------------
(* The inductive invariant                                                 *)

Points == SegPoints \cup GroundPoints
Clouds == [seg : SUBSET Points, ground : SUBSET Points]

\* What waits are clouds of the sensor, and the last frame is what dividing its
\* clouds at its pose gave: all that FrameDivided says of it follows.
Intake ==
  /\ pcl_ptr_pair_queue \in Seq(Clouds)
  /\ frame.seg \subseteq Points /\ frame.ground \subseteq Points /\ frame.pose \in Poses
  /\ frame.result = preprocessing(frame.seg, frame.ground, frame.pose)

\* The box that the last frame was counted in.
FrameBox == BoxOf(frame.seg \cup frame.ground, frame.pose)

LEMMA PointsFinite ==
  /\ Points \in SUBSET Point /\ Poses \subseteq Point
  /\ \A cloud \in SUBSET Points : IsFiniteSet(cloud)
<1>1. IsFiniteSet(Points)
  BY PreprocessAssumption, FS_Union DEF Points
<1>2. \A cloud \in SUBSET Points : IsFiniteSet(cloud)
  BY <1>1, FS_Subset
<1>3. Points \in SUBSET Point /\ Poses \subseteq Point
  BY PreprocessAssumption DEF Points, Point
<1> QED
  BY <1>2, <1>3

LEMMA FrameEnclosed ==
  ASSUME Intake, NEW pt \in frame.seg \cup frame.ground
  PROVE  Encloses(FrameBox, CellOf(pt, frame.pose))
<1> DEFINE cloud == frame.seg \cup frame.ground
<1>1. cloud \in SUBSET Points /\ frame.pose \in Poses
  BY DEF Intake
<1>2. cloud \in SUBSET Point /\ IsFiniteSet(cloud) /\ frame.pose \in Point
  BY <1>1, PointsFinite
<1>3. pt \in cloud
  OBVIOUS
<1> HIDE DEF cloud
<1> QED
  BY <1>2, <1>3, BoxEncloses DEF FrameBox, cloud

\* Every region holds its patches of either kind.
LEMMA RegionsFilled ==
  ASSUME Intake, NEW r \in Regions
  PROVE  LET vec == frame.result.point_cloud_vec[r]
             kinds == frame.result.is_ground_cloud_vec[r]
         IN  /\ Filled(FALSE, PatchesOf(frame.seg, frame.pose, FrameBox, r), vec, kinds)
             /\ Filled(TRUE, PatchesOf(frame.ground, frame.pose, FrameBox, r), vec, kinds)
<1> DEFINE seg == frame.seg
           ground == frame.ground
           from == frame.pose
           P == PatchesOf(seg, from, FrameBox, r)
           Q == PatchesOf(ground, from, FrameBox, r)
           vec == frame.result.point_cloud_vec[r]
           kinds == frame.result.is_ground_cloud_vec[r]
           points == {InWorld(pt, from) : pt \in seg \cup ground}
<1>1. seg \in SUBSET Points /\ ground \in SUBSET Points
  BY DEF Intake
<1>2. IsFiniteSet(seg) /\ IsFiniteSet(ground)
  BY <1>1, PointsFinite
<1>3. frame.result = preprocessing(seg, ground, from)
  BY DEF Intake
<1>4. CASE points = {}
  <2>1. seg = {} /\ ground = {}
    BY <1>4
  <2>2. P = {} /\ Q = {}
    BY <2>1 DEF PatchesOf, Enough
  <2>3. frame.result.point_cloud_vec = [q \in Regions |-> <<>>]
    BY <1>3, <1>4 DEF preprocessing
  <2>4. vec = <<>> /\ DOMAIN vec = {}
    BY <2>3
  <2> HIDE DEF P, Q, vec, kinds
  <2>5. Filled(FALSE, P, vec, kinds) /\ Filled(TRUE, Q, vec, kinds)
    BY <2>2, <2>4 DEF Filled
  <2> QED
    BY <2>5 DEF P, Q, vec, kinds
<1>5. CASE points # {}
  <2> DEFINE s == SetToSeq(P)
             g == SetToSeq(Q)
  <2>1. FrameBox = WholeCells(get_bounding_box_w(points))
    BY DEF FrameBox, BoxOf, Positions
  <2>2. /\ divide_patches(seg, from, FrameBox)[r] = s
        /\ divide_patches(ground, from, FrameBox)[r] = g
    BY DividedBy
  <2>3. vec = s \o g
    <3> HIDE DEF s, g
    <3>1. frame.result.point_cloud_vec
             = [q \in Regions |-> divide_patches(seg, from, FrameBox)[q]
                                    \o divide_patches(ground, from, FrameBox)[q]]
      BY <1>3, <1>5, <2>1, SMTT(30) DEF preprocessing
    <3> QED
      BY <2>2, <3>1
  <2>4. kinds = [i \in DOMAIN s |-> FALSE] \o [i \in DOMAIN g |-> TRUE]
    <3> HIDE DEF s, g
    <3>1. frame.result.is_ground_cloud_vec
             = [q \in Regions |-> [i \in DOMAIN divide_patches(seg, from, FrameBox)[q] |-> FALSE]
                                    \o [i \in DOMAIN divide_patches(ground, from, FrameBox)[q] |-> TRUE]]
      BY <1>3, <1>5, <2>1, SMTT(30) DEF preprocessing
    <3> QED
      BY <2>2, <3>1
  <2>5. IsFiniteSet(P) /\ IsFiniteSet(Q)
    BY <1>2, PatchesFinite
  <2> HIDE DEF P, Q, vec, kinds
  <2>6. Filled(FALSE, P, vec, kinds) /\ Filled(TRUE, Q, vec, kinds)
    BY <2>3, <2>4, <2>5, FilledBoth
  <2> QED
    BY <2>6 DEF P, Q, vec, kinds
<1> QED
  BY <1>4, <1>5

\* The clouds of a kind.
Kind(is_ground) == IF is_ground THEN frame.ground ELSE frame.seg

\* A patch is all there is in the cell of any of its points, and the region is that
\* cell's.
LEMMA PatchOfRegion ==
  ASSUME NEW cloud, NEW from, NEW box, NEW r, NEW n \in PatchesOf(cloud, from, box, r)
  PROVE  /\ n # {} /\ n \in SUBSET cloud
         /\ Cardinality(n) >= patch_minimun_pts_num_after_filter
         /\ \A pt \in n : /\ n = Within(cloud, from, CellOf(pt, from))
                          /\ RegionOf(box, CellOf(pt, from)) = r
<1>1. PICK c \in Enough(cloud, from) : RegionOf(box, c) = r /\ n = Within(cloud, from, c)
  BY DEF PatchesOf
<1>2. /\ Cardinality(n) >= patch_minimun_pts_num_after_filter
      /\ \E pt \in cloud : CellOf(pt, from) = c
  BY <1>1 DEF Enough
<1>3. n # {} /\ n \in SUBSET cloud
  BY <1>1, <1>2 DEF Within
<1>4. \A pt \in n : CellOf(pt, from) = c
  BY <1>1 DEF Within
<1> QED
  BY <1>1, <1>2, <1>3, <1>4

\* The patches of all regions are the cells that hold enough points.
LEMMA ExpectedByRegion ==
  ASSUME Intake, NEW is_ground \in BOOLEAN
  PROVE  Expected(Kind(is_ground))
           = UNION {PatchesOf(Kind(is_ground), frame.pose, FrameBox, r) : r \in Regions}
<1> DEFINE cloud == Kind(is_ground)
           from == frame.pose
<1>1. cloud \subseteq frame.seg \cup frame.ground
  BY DEF Kind
<1>2. \A pt : Neighbours(cloud, pt) = Within(cloud, from, CellOf(pt, from))
  BY DEF Neighbours, Within
<1> HIDE DEF cloud
<1>3. ASSUME NEW n \in Expected(cloud)
      PROVE  \E r \in Regions : n \in PatchesOf(cloud, from, FrameBox, r)
  <2>1. PICK pt \in cloud : n = Neighbours(cloud, pt)
    BY <1>3 DEF Expected
  <2> DEFINE c == CellOf(pt, from)
  <2>2. Cardinality(n) >= patch_minimun_pts_num_after_filter
    BY <1>3 DEF Expected
  <2>3. n = Within(cloud, from, c)
    BY <1>2, <2>1
  <2>4. c \in Enough(cloud, from)
    BY <2>2, <2>3 DEF Enough
  <2>5. Encloses(FrameBox, c)
    BY <1>1, FrameEnclosed
  <2> HIDE DEF c
  <2>6. RegionOf(FrameBox, c) \in Regions
    BY <2>5, RegionDigits
  <2>7. n \in PatchesOf(cloud, from, FrameBox, RegionOf(FrameBox, c))
    BY <2>3, <2>4 DEF PatchesOf
  <2> QED
    BY <2>6, <2>7
<1>4. ASSUME NEW r \in Regions, NEW n \in PatchesOf(cloud, from, FrameBox, r)
      PROVE  n \in Expected(cloud)
  <2>1. /\ n # {} /\ n \in SUBSET cloud
        /\ Cardinality(n) >= patch_minimun_pts_num_after_filter
        /\ \A pt \in n : n = Within(cloud, from, CellOf(pt, from))
    BY <1>4, PatchOfRegion
  <2>2. PICK pt \in n : pt \in cloud
    BY <2>1
  <2>3. n = Neighbours(cloud, pt)
    BY <1>2, <2>1, <2>2
  <2> QED
    BY <2>1, <2>2, <2>3 DEF Expected
<1>5. Expected(cloud) = UNION {PatchesOf(cloud, from, FrameBox, r) : r \in Regions}
  BY <1>3, <1>4
<1> QED
  BY <1>5 DEF cloud

LEMMA ExpectedFinite ==
  ASSUME Intake, NEW is_ground \in BOOLEAN
  PROVE  IsFiniteSet(Expected(Kind(is_ground)))
<1>1. Kind(is_ground) \in SUBSET Points
  BY DEF Kind, Intake
<1>2. IsFiniteSet(SUBSET Kind(is_ground))
  BY <1>1, PointsFinite, FS_SUBSET
<1>3. Expected(Kind(is_ground)) \in SUBSET (SUBSET Kind(is_ground))
  BY DEF Expected, Neighbours
<1> QED
  BY <1>2, <1>3, FS_Subset

LEMMA PlacedAt ==
  ASSUME NEW is_ground \in BOOLEAN, NEW at
  PROVE  at \in Placed(is_ground) <=>
           \E r \in Regions : \E i \in DOMAIN frame.result.point_cloud_vec[r] :
             at = <<r, i>> /\ frame.result.is_ground_cloud_vec[r][i] = is_ground
BY DEF Placed

\* The places of the patches of a kind: a patch of its region at each, and every
\* patch at one.
LEMMA PlacedInRegions ==
  ASSUME Intake, NEW is_ground \in BOOLEAN
  PROVE  /\ \A at \in Placed(is_ground) :
              /\ at[1] \in Regions
              /\ PatchAt(at) \in PatchesOf(Kind(is_ground), frame.pose, FrameBox, at[1])
         /\ \A at, bt \in Placed(is_ground) : PatchAt(at) = PatchAt(bt) => at = bt
         /\ \A r \in Regions : \A n \in PatchesOf(Kind(is_ground), frame.pose, FrameBox, r) :
              \E at \in Placed(is_ground) : PatchAt(at) = n
<1> DEFINE cloud == Kind(is_ground)
           from == frame.pose
           P(r) == PatchesOf(cloud, from, FrameBox, r)
           vec(r) == frame.result.point_cloud_vec[r]
           kinds(r) == frame.result.is_ground_cloud_vec[r]
<1>1. ASSUME NEW r \in Regions PROVE Filled(is_ground, P(r), vec(r), kinds(r))
  <2>1. CASE is_ground = TRUE
    BY <1>1, <2>1, RegionsFilled DEF Kind
  <2>2. CASE is_ground = FALSE
    BY <1>1, <2>2, RegionsFilled DEF Kind
  <2> QED
    BY <2>1, <2>2
<1>2. \A at \in Placed(is_ground) :
        /\ at[1] \in Regions /\ at[2] \in DOMAIN vec(at[1]) /\ at = <<at[1], at[2]>>
        /\ kinds(at[1])[at[2]] = is_ground /\ PatchAt(at) = vec(at[1])[at[2]]
  <2> SUFFICES ASSUME NEW at \in Placed(is_ground)
               PROVE  /\ at[1] \in Regions /\ at[2] \in DOMAIN vec(at[1]) /\ at = <<at[1], at[2]>>
                      /\ kinds(at[1])[at[2]] = is_ground /\ PatchAt(at) = vec(at[1])[at[2]]
    OBVIOUS
  <2>1. PICK r \in Regions : \E i \in DOMAIN vec(r) : at = <<r, i>> /\ kinds(r)[i] = is_ground
    BY PlacedAt
  <2>2. PICK i \in DOMAIN vec(r) : at = <<r, i>> /\ kinds(r)[i] = is_ground
    BY <2>1
  <2>3. at[1] = r /\ at[2] = i
    BY <2>2
  <2> QED
    BY <2>2, <2>3 DEF PatchAt
<1>3. ASSUME NEW r \in Regions, NEW i \in DOMAIN vec(r), kinds(r)[i] = is_ground
      PROVE  <<r, i>> \in Placed(is_ground) /\ PatchAt(<<r, i>>) = vec(r)[i]
  BY <1>3, PlacedAt DEF PatchAt
<1> HIDE DEF P, vec, kinds
<1>4. ASSUME NEW at \in Placed(is_ground) PROVE at[1] \in Regions /\ PatchAt(at) \in P(at[1])
  BY <1>1, <1>2, <1>4 DEF Filled
<1>5. ASSUME NEW at \in Placed(is_ground), NEW bt \in Placed(is_ground),
             PatchAt(at) = PatchAt(bt)
      PROVE  at = bt
  <2> DEFINE n == PatchAt(at)
  <2>1. n \in P(at[1]) /\ n \in P(bt[1])
    BY <1>4, <1>5
  <2>2. /\ n # {}
        /\ \A pt \in n : RegionOf(FrameBox, CellOf(pt, from)) = at[1]
        /\ \A pt \in n : RegionOf(FrameBox, CellOf(pt, from)) = bt[1]
    BY <2>1, PatchOfRegion DEF P
  <2>3. at[1] = bt[1]
    BY <2>2
  <2>4. at[2] = bt[2]
    BY <1>1, <1>2, <1>5, <2>3 DEF Filled
  <2> QED
    BY <1>2, <2>3, <2>4
<1>6. ASSUME NEW r \in Regions, NEW n \in P(r)
      PROVE  \E at \in Placed(is_ground) : PatchAt(at) = n
  <2>1. PICK i \in DOMAIN vec(r) : kinds(r)[i] = is_ground /\ vec(r)[i] = n
    BY <1>1, <1>6 DEF Filled
  <2> QED
    BY <1>3, <2>1
<1> QED
  BY <1>4, <1>5, <1>6 DEF P

LEMMA IntakeDivides == Intake => CellsBecomePatches
<1> SUFFICES ASSUME Intake, NEW is_ground \in BOOLEAN
             PROVE  /\ {PatchAt(at) : at \in Placed(is_ground)} = Expected(Kind(is_ground))
                    /\ Cardinality(Placed(is_ground)) = Cardinality(Expected(Kind(is_ground)))
  BY DEF CellsBecomePatches, Kind
<1> DEFINE S == Placed(is_ground)
           T == Expected(Kind(is_ground))
           P(r) == PatchesOf(Kind(is_ground), frame.pose, FrameBox, r)
           f == [at \in S |-> PatchAt(at)]
<1>1. T = UNION {P(r) : r \in Regions}
  BY ExpectedByRegion
<1>2. /\ \A at \in S : at[1] \in Regions /\ PatchAt(at) \in P(at[1])
      /\ \A at, bt \in S : PatchAt(at) = PatchAt(bt) => at = bt
      /\ \A r \in Regions : \A n \in P(r) : \E at \in S : PatchAt(at) = n
  BY PlacedInRegions
<1>3. IsFiniteSet(T)
  BY ExpectedFinite
<1> HIDE DEF S, T, P
<1>4. \A at \in S : PatchAt(at) \in T
  BY <1>1, <1>2
<1>5. \A n \in T : \E at \in S : PatchAt(at) = n
  BY <1>1, <1>2
<1>6. {PatchAt(at) : at \in S} = T
  BY <1>4, <1>5
<1>7. f \in Injection(S, T)
  BY <1>2, <1>4 DEF Injection, IsInjective
<1>8. f \in Surjection(S, T)
  BY <1>4, <1>5 DEF Surjection
<1> HIDE DEF f
<1>9. Cardinality(S) = Cardinality(T)
  BY <1>3, <1>7, <1>8, FS_Injection
<1> QED
  BY <1>6, <1>9 DEF S, T

LEMMA IntakeOrders == Intake => RegionsInOrder
<1> SUFFICES ASSUME Intake PROVE RegionsInOrder
  OBVIOUS
<1> DEFINE All == Placed(FALSE) \cup Placed(TRUE)
           cell == [at \in All |-> CellOf(CHOOSE p \in PatchAt(at) : TRUE, frame.pose)]
           W == region_width_elements
           axes == RegionAxes(FrameBox)
           l == [a \in Axes |-> Length(FrameBox, a)]
           Follow(u, v) == \A at, bt \in DOMAIN cell :
                             /\ cell[at][u] <= cell[bt][u] => at[1] % W <= bt[1] % W
                             /\ cell[at][v] <= cell[bt][v] => at[1] \div W <= bt[1] \div W
<1>1. ASSUME NEW is_ground \in BOOLEAN, NEW at \in Placed(is_ground)
      PROVE  Encloses(FrameBox, cell[at]) /\ RegionOf(FrameBox, cell[at]) = at[1]
  <2> DEFINE n == PatchAt(at)
             p == CHOOSE q \in n : TRUE
  <2>1. n \in PatchesOf(Kind(is_ground), frame.pose, FrameBox, at[1])
    BY <1>1, PlacedInRegions
  <2>2. /\ n # {} /\ n \in SUBSET Kind(is_ground)
        /\ \A q \in n : RegionOf(FrameBox, CellOf(q, frame.pose)) = at[1]
    <3> HIDE DEF n
    <3> QED
      BY <2>1, PatchOfRegion
  <2>3. p \in n
    BY <2>2
  <2>4. at \in All
    BY <1>1
  <2>5. cell[at] = CellOf(p, frame.pose)
    BY <2>4
  <2> HIDE DEF p, n, cell
  <2>6. p \in frame.seg \cup frame.ground
    BY <2>2, <2>3 DEF Kind
  <2>7. Encloses(FrameBox, CellOf(p, frame.pose))
    BY <2>6, FrameEnclosed
  <2> QED
    BY <2>2, <2>3, <2>5, <2>7
<1>2. DOMAIN cell = All
  OBVIOUS
<1> HIDE DEF cell
<1>3. ASSUME NEW at \in All
      PROVE  /\ Encloses(FrameBox, cell[at])
             /\ at[1] % W = RegionIndex(FrameBox, axes[1], cell[at])
             /\ at[1] \div W = RegionIndex(FrameBox, axes[2], cell[at])
  <2>1. Encloses(FrameBox, cell[at]) /\ RegionOf(FrameBox, cell[at]) = at[1]
    <3>1. CASE at \in Placed(FALSE)
      BY <1>1, <3>1
    <3>2. CASE at \in Placed(TRUE)
      BY <1>1, <3>2
    <3> QED
      BY <3>1, <3>2
  <2> QED
    BY <2>1, RegionDigits
<1>4. CASE All = {}
  <2>1. DOMAIN cell = {}
    BY <1>2, <1>4
  <2> QED
    BY <2>1 DEF RegionsInOrder, cell
<1>5. CASE All # {}
  <2>1. PICK one \in All : Encloses(FrameBox, cell[one])
    BY <1>3, <1>5
  <2>2. \A a \in Axes : Length(FrameBox, a) \in Int
    BY <2>1 DEF Encloses
  <2>3. Chosen(axes, l)
    BY <2>2, AxesChosen
  <2> HIDE DEF axes, W
  <2>4. axes[1] \in Axes /\ axes[2] \in Axes /\ axes[1] < axes[2]
    BY <2>3 DEF Chosen
  <2>5. PICK w \in Axes \ {axes[1], axes[2]} : \A a \in Axes : Length(FrameBox, w) <= Length(FrameBox, a)
    BY <2>3 DEF Chosen
  <2>6. ASSUME NEW at \in All, NEW bt \in All
        PROVE  /\ cell[at][axes[1]] <= cell[bt][axes[1]] => at[1] % W <= bt[1] % W
               /\ cell[at][axes[2]] <= cell[bt][axes[2]] => at[1] \div W <= bt[1] \div W
    BY <1>3, <2>4, <2>6, IndexGrows
  <2>7. Follow(axes[1], axes[2])
    BY <1>2, <2>6
  <2> HIDE DEF Follow
  <2>8. \E u, v \in Axes : /\ u < v /\ Follow(u, v)
                           /\ \E x \in Axes \ {u, v} : \A a \in Axes :
                                Length(FrameBox, x) <= Length(FrameBox, a)
    BY <2>4, <2>5, <2>7
  <2> QED
    BY <2>8 DEF RegionsInOrder, Follow, FrameBox, BoxOf, Positions, cell, W
<1> QED
  BY <1>4, <1>5

-----------------------------------------------------------------------------
(* The invariant holds                                                     *)

LEMMA ThinnedFrom ==
  ASSUME NEW cloud, NEW size
  PROVE  /\ filterInvalidRangePoints(cloud) \subseteq cloud
         /\ \A s \in subSampleFrame(cloud, size) : s \subseteq cloud
BY DEF filterInvalidRangePoints, subSampleFrame

LEMMA IntakeAtFirst == PreprocessInit => Intake
<1> SUFFICES ASSUME PreprocessInit PROVE Intake
  OBVIOUS
<1> DEFINE p == CHOOSE q \in Poses : TRUE
<1>1. p \in Poses
  BY PreprocessAssumption
<1>2. frame = [seg |-> {}, ground |-> {}, pose |-> p, result |-> preprocessing({}, {}, p)]
  BY DEF PreprocessInit
<1> HIDE DEF p
<1>3. frame.seg = {} /\ frame.ground = {} /\ frame.pose = p /\ frame.result = preprocessing({}, {}, p)
  BY <1>2
<1>4. pcl_ptr_pair_queue \in Seq(Clouds)
  BY DEF PreprocessInit
<1> QED
  BY <1>1, <1>3, <1>4 DEF Intake

LEMMA CallbackKeeps ==
  ASSUME Intake, NEW segments \in SUBSET SegPoints, NEW ground_points \in SUBSET GroundPoints,
         Callback(segments, ground_points)
  PROVE  Intake'
<1> DEFINE seg == IF is_seg_only THEN segments \cup ground_points ELSE segments
           ground == IF is_seg_only THEN {} ELSE ground_points
<1>1. seg \subseteq Points /\ ground \subseteq Points
  BY DEF Points
<1> HIDE DEF seg, ground
<1>2. PICK s \in IF IsThinned THEN subSampleFrame(seg, leaf_size) ELSE {filterInvalidRangePoints(seg)},
           g \in IF IsThinned THEN subSampleFrame(ground, leaf_size * 2)
                 ELSE {filterInvalidRangePoints(ground)} :
        pcl_ptr_pair_queue' = Append(pcl_ptr_pair_queue, [seg |-> s, ground |-> g])
  BY DEF Callback, seg, ground
<1>3. s \subseteq seg /\ g \subseteq ground
  BY <1>2, ThinnedFrom
<1>4. [seg |-> s, ground |-> g] \in Clouds
  BY <1>1, <1>3 DEF Clouds
<1>5. pcl_ptr_pair_queue' \in Seq(Clouds)
  BY <1>2, <1>4 DEF Intake
<1>6. frame' = frame
  BY DEF Callback
<1> QED
  BY <1>5, <1>6 DEF Intake

LEMMA TakeFrameKeeps ==
  ASSUME Intake, TakeFrame
  PROVE  Intake'
<1> DEFINE next == Head(pcl_ptr_pair_queue)
<1>1. pcl_ptr_pair_queue \in Seq(Clouds) /\ pcl_ptr_pair_queue # <<>>
  BY DEF Intake, TakeFrame
<1>2. next \in Clouds /\ Tail(pcl_ptr_pair_queue) \in Seq(Clouds)
  BY <1>1, HeadTailProperties
<1>3. PICK T_w_j \in Poses :
        frame' = [seg |-> next.seg, ground |-> next.ground, pose |-> T_w_j,
                  result |-> preprocessing(next.seg, next.ground, T_w_j)]
  BY DEF TakeFrame
<1>4. pcl_ptr_pair_queue' \in Seq(Clouds)
  BY <1>2 DEF TakeFrame
<1> HIDE DEF next
<1>5. /\ frame'.seg = next.seg /\ frame'.ground = next.ground /\ frame'.pose = T_w_j
      /\ frame'.result = preprocessing(next.seg, next.ground, T_w_j)
  BY <1>3
<1>6. next.seg \subseteq Points /\ next.ground \subseteq Points
  BY <1>2 DEF Clouds
<1>7. (preprocessing(frame.seg, frame.ground, frame.pose))'
         = preprocessing(next.seg, next.ground, T_w_j)
  BY <1>5 DEF preprocessing, divide_patches
<1> QED
  BY <1>4, <1>5, <1>6, <1>7 DEF Intake

LEMMA IntakeHolds == PreprocessSpec => []Intake
<1>1. ASSUME Intake, [PreprocessNext]_preprocessVars PROVE Intake'
  <2>1. CASE \E segments \in SUBSET SegPoints, ground_points \in SUBSET GroundPoints :
               Callback(segments, ground_points)
    BY <1>1, <2>1, CallbackKeeps
  <2>2. CASE TakeFrame
    BY <1>1, <2>2, TakeFrameKeeps
  <2>3. CASE UNCHANGED preprocessVars
    BY <1>1, <2>3 DEF Intake, preprocessVars
  <2> QED
    BY <1>1, <2>1, <2>2, <2>3 DEF PreprocessNext
<1> QED
  BY IntakeAtFirst, <1>1, PTL DEF PreprocessSpec

\* However the points lie on the borders of cells and the scan fills its box,
\* preprocessing and divide_patches turn every cell with enough points of one kind
\* into exactly one patch, with those points and that kind, and the regions are in
\* the order of the cells along the two axes counted.
THEOREM FramesAreDivided == PreprocessSpec => []FrameDivided
<1>1. Intake => FrameDivided
  BY IntakeDivides, IntakeOrders DEF FrameDivided
<1> QED
  BY <1>1, IntakeHolds, PTL

-----------------------------------------------------------------------------
(* The frame                                                               *)

\* What the constants are.
LEMMA Sizes ==
  /\ minimum_img_rso \in Nat \ {0, 1} /\ azi_rso \in Nat \ {0, 1} /\ elev_rso \in Nat \ {0, 1}
  /\ CellWidth \in Nat \ {0} /\ Unit \in Nat \ {0} /\ pyramid_minimum_img_rso \in Nat \ {0}
  /\ max_valid_residual \in Nat \ {0} /\ half_diag_cut_threshold \in Nat \ {0}
  /\ Side \in Nat \ {0} /\ Side = CellWidth * (minimum_img_rso - 1)
<1>1. /\ minimum_img_rso \in Nat \ {0, 1} /\ azi_rso \in Nat \ {0, 1} /\ elev_rso \in Nat \ {0, 1}
      /\ CellWidth \in Nat \ {0} /\ Unit \in Nat \ {0} /\ pyramid_minimum_img_rso \in Nat \ {0}
      /\ max_valid_residual \in Nat \ {0} /\ half_diag_cut_threshold \in Nat \ {0}
  BY FactorAssumption
<1>2. \A a, b \in Nat \ {0} : a * b \in Nat \ {0}
  OBVIOUS
<1>3. minimum_img_rso - 1 \in Nat \ {0}
  BY <1>1
<1>4. Side \in Nat \ {0}
  BY <1>1, <1>2, <1>3 DEF Side
<1> QED
  BY <1>1, <1>4 DEF Side

\* A resolution of the table: the step between its directions divides the side.
Table(rso) == rso \in Nat \ {0, 1} /\ Side % (rso - 1) = 0
Step(rso) == Side \div (rso - 1)

\* Both axes of the table have such a resolution.
LEMMA Tables == Table(azi_rso) /\ Table(elev_rso)
BY FactorAssumption DEF Table

\* Steps are whole, along the side.
LEMMA Steps ==
  ASSUME NEW rso, Table(rso)
  PROVE  Step(rso) \in Nat \ {0} /\ Side = Step(rso) * (rso - 1)
<1> DEFINE s == Step(rso)
           q == rso - 1
<1>1. q \in Nat \ {0} /\ Side \in Nat \ {0} /\ Side % q = 0 /\ s = Side \div q
  BY Sizes DEF Table, Step
<1> HIDE DEF q, s
<1>2. s \in Int /\ Side = s * q
  <2> DEFINE S == Side
  <2>a. S \in Int
    BY <1>1
  <2> HIDE DEF S
  <2>1. /\ S \div q \in Int
        /\ S = (S \div q) * q + (S % q)
    BY <1>1, <2>a, Quotient
  <2> USE DEF S
  <2>2. (Side \div q) * q \in Int
    BY <1>1, <2>1
  <2> QED
    BY <1>1, <2>1, <2>2
<1>3. s > 0
  <2>1. s * q > 0 * q
    BY <1>1, <1>2
  <2> QED
    BY <1>1, <1>2, <2>1, Cancels
<1> QED
  BY <1>2, <1>3 DEF q, s

\* The nearest direction of the table is half a step away at most.
LEMMA Nearest ==
  ASSUME NEW rso, Table(rso), NEW x \in 0 .. Side
  PROVE  LET r == Round(x * (rso - 1), Side)
             s == Step(rso)
         IN  /\ r \in 0 .. rso - 1
             /\ 2 * x - s <= 2 * (r * s) /\ 2 * (r * s) <= 2 * x + s
<1> DEFINE q == rso - 1
           S == Side
           a == x * q
           r == Round(a, S)
           s == Step(rso)
<1>1. q \in Nat \ {0} /\ S \in Nat \ {0} /\ s \in Nat \ {0} /\ S = s * q /\ x \in Int
  BY Sizes, Steps DEF Table
<1> HIDE DEF q, S, s
<1>2. a \in Int
  BY <1>1
<1> HIDE DEF a
<1>3. r \in Int /\ 2 * a - S <= 2 * (r * S) /\ 2 * (r * S) <= 2 * a + S
  BY <1>1, <1>2, RoundNear
<1> HIDE DEF r
<1> DEFINE u == r * s
<1>4. u \in Int /\ r * S = u * q
  <2>1. r * (s * q) = (r * s) * q
    BY <1>1, <1>3
  <2> QED
    BY <1>1, <1>3, <2>1
<1> HIDE DEF u
<1>5. (2 * x - s) * q <= (2 * u) * q /\ (2 * u) * q <= (2 * x + s) * q
  <2>1. (2 * x - s) * q = 2 * (x * q) - s * q /\ (2 * x + s) * q = 2 * (x * q) + s * q
    BY <1>1
  <2>2. (2 * u) * q = 2 * (u * q)
    BY <1>1, <1>4
  <2> QED
    BY <1>1, <1>3, <1>4, <2>1, <2>2 DEF a
<1>6. 2 * x - s <= 2 * u /\ 2 * u <= 2 * x + s
  <2>1. 2 * x - s \in Int /\ 2 * u \in Int /\ 2 * x + s \in Int
    BY <1>1, <1>4
  <2> QED
    BY <1>1, <1>5, <2>1, Cancels
<1>7. x \in 0 .. s * q
  BY <1>1 DEF S
<1>8. r >= 0
  <2>1. (2 * r + 1) * s = 2 * u + s
    BY <1>1, <1>3 DEF u
  <2>2. (2 * r + 1) * s >= 0 * s
    BY <1>1, <1>4, <1>6, <1>7, <2>1
  <2>3. 2 * r + 1 >= 0
    BY <1>1, <1>3, <2>2, Cancels, 2 * r + 1 \in Int
  <2> QED
    BY <1>3, <2>3
<1>9. r <= q
  <2>1. (2 * q + 1) * s = 2 * (s * q) + s /\ (2 * r) * s = 2 * u /\ s * q \in Int
    BY <1>1, <1>3 DEF u
  <2>2. (2 * q + 1) * s >= (2 * r) * s
    BY <1>1, <1>4, <1>6, <1>7, <2>1
  <2>3. 2 * q + 1 >= 2 * r
    BY <1>1, <1>3, <2>2, Cancels, 2 * r \in Int, 2 * q + 1 \in Int
  <2> QED
    BY <1>1, <1>3, <2>3
<1>10. r \in 0 .. q
  BY <1>1, <1>3, <1>8, <1>9
<1> QED
  BY <1>6, <1>10 DEF u, r, s, a, q, S

\* Rounding keeps the order.
LEMMA RoundGrows ==
  ASSUME NEW a \in Nat, NEW b \in Nat, NEW k \in Nat \ {0}, a <= b
  PROVE  Round(a, k) <= Round(b, k)
<1> DEFINE d == 2 * k
           e == 2 * a + k
           f == 2 * b + k
           p == e \div d
           q == f \div d
<1>1. d \in Nat \ {0} /\ e \in Int /\ f \in Int /\ e <= f /\ Round(a, k) = p /\ Round(b, k) = q
  BY DEF Round
<1> HIDE DEF d, e, f
<1>2. p \in Int /\ p * d <= e /\ q \in Int /\ f < q * d + d
  BY <1>1, Quotient
<1> HIDE DEF p, q
<1>3. (q + 1) * d = q * d + d /\ q * d \in Int /\ p * d \in Int /\ q + 1 \in Int
  BY <1>1, <1>2
<1>4. (q + 1) * d > p * d
  BY <1>1, <1>2, <1>3
<1>5. q + 1 > p
  BY <1>1, <1>2, <1>3, <1>4, Cancels
<1> QED
  BY <1>1, <1>2, <1>5

-----------------------------------------------------------------------------
(* The table                                                               *)

Surface == [height : Int, x : Int, y : Int]

\* A row of the table is the height at the place of its direction.
LEMMA TableRow ==
  ASSUME NEW c, NEW a \in 0 .. azi_rso - 1, NEW e \in 0 .. elev_rso - 1
  PROVE  SH_table(c, a * elev_rso + e) = PlaneHeight(c, a * Step(azi_rso), e * Step(elev_rso))
<1> DEFINE E == elev_rso
           row == a * E + e
<1>1. E \in Nat \ {0} /\ a \in Int /\ e \in 0 .. E - 1
  BY Sizes
<1>2. a * E \in Int /\ row \in Int /\ a * E <= row /\ row < a * E + E
  BY <1>1
<1>3. row \div E = a
  <2> HIDE DEF row, E
  <2> QED
    BY <1>1, <1>2, Divided
<1>4. row % E = e
  <2>1. /\ row % E \in 0 .. E - 1
        /\ row = (row \div E) * E + (row % E)
    <3> HIDE DEF row, E
    <3> QED
      BY <1>1, <1>2, Quotient
  <2>2. row = a * E + (row % E)
    BY <1>3, <2>1
  <2> QED
    BY <1>1, <1>2, <2>1, <2>2
<1> HIDE DEF row
<1>5. SH_table(c, row) = PlaneHeight(c, (row \div E) * Step(azi_rso), (row % E) * Step(elev_rso))
  BY DEF SH_table, Step
<1> QED
  BY <1>3, <1>4, <1>5 DEF row

\* Where the table is read for a position, by axis.
ReadAlong(i, t) == IF i = 1 THEN azi_idx(t) * Step(azi_rso) ELSE elev_idx(t) * Step(elev_rso)

\* That is half a step away at most, and further on for a position further on.
LEMMA ReadNear ==
  ASSUME NEW i \in {1, 2}
  PROVE  /\ TableStep(i) \in Nat \ {0}
         /\ \A t \in 0 .. Side :
              /\ ReadAlong(i, t) \in Int
              /\ 2 * t - TableStep(i) <= 2 * ReadAlong(i, t)
              /\ 2 * ReadAlong(i, t) <= 2 * t + TableStep(i)
         /\ \A t, u \in 0 .. Side : t <= u => ReadAlong(i, t) <= ReadAlong(i, u)
<1> DEFINE rso == IF i = 1 THEN azi_rso ELSE elev_rso
           r(t) == Round(t * (rso - 1), Side)
           s == Step(rso)
<1>1. Table(rso) /\ s = TableStep(i)
  BY Tables DEF TableStep, Step
<1>2. \A t : ReadAlong(i, t) = r(t) * s
  BY DEF ReadAlong, azi_idx, elev_idx
<1>3. s \in Nat \ {0} /\ Side \in Nat \ {0} /\ rso - 1 \in Nat
  BY <1>1, Steps, Sizes DEF Table
<1>4. ASSUME NEW t \in 0 .. Side
      PROVE  r(t) \in Int /\ 2 * t - s <= 2 * (r(t) * s) /\ 2 * (r(t) * s) <= 2 * t + s
  <2> HIDE DEF rso
  <2>1. /\ r(t) \in 0 .. rso - 1
        /\ 2 * t - s <= 2 * (r(t) * s) /\ 2 * (r(t) * s) <= 2 * t + s
    BY <1>1, Nearest
  <2> HIDE DEF r, s
  <2> QED
    BY <1>3, <2>1
<1>5. ASSUME NEW t \in 0 .. Side, NEW u \in 0 .. Side, t <= u PROVE r(t) <= r(u)
  <2> DEFINE q == rso - 1
             a == t * q
             b == u * q
  <2>1. t \in Nat /\ u \in Nat /\ q \in Nat
    BY <1>3, <1>5
  <2> HIDE DEF q
  <2>2. a \in Nat /\ b \in Nat /\ a <= b
    BY <1>5, <2>1
  <2> HIDE DEF a, b
  <2>3. Round(a, Side) <= Round(b, Side)
    BY <1>3, <2>2, RoundGrows
  <2> QED
    BY <2>3 DEF a, b, q
<1> HIDE DEF r, rso, s
<1>6. ASSUME NEW t \in 0 .. Side, NEW u \in 0 .. Side, t <= u PROVE r(t) * s <= r(u) * s
  <2> DEFINE a == r(t)
             b == r(u)
  <2>1. a \in Int /\ b \in Int /\ a <= b
    BY <1>4, <1>5, <1>6
  <2> HIDE DEF a, b
  <2>2. a * s <= b * s
    BY <1>3, <2>1
  <2> QED
    BY <2>2 DEF a, b
<1>7. \A t \in 0 .. Side : r(t) * s \in Int
  BY <1>3, <1>4
<1> QED
  BY <1>1, <1>2, <1>3, <1>4, <1>6, <1>7

\* Where the table is read for a position.
ReadAt(x, y) == <<ReadAlong(1, x), ReadAlong(2, y)>>

\* The table yields the height at that place.
LEMMA TableRead ==
  ASSUME NEW c, NEW x \in 0 .. Side, NEW y \in 0 .. Side
  PROVE  LET at == ReadAt(x, y)
         IN  /\ get_recons_height(c, x, y) = PlaneHeight(c, at[1], at[2])
             /\ invLeastSquaresSHT_table(c, x, y) = PlaneHeight(c, at[1], at[2])
             /\ at[1] \in Int /\ at[2] \in Int
<1> DEFINE a == azi_idx(x)
           e == elev_idx(y)
<1>1. a \in 0 .. azi_rso - 1 /\ e \in 0 .. elev_rso - 1
  BY Tables, Nearest DEF azi_idx, elev_idx
<1>2. invLeastSquaresSHT_table(c, x, y) = SH_table(c, a * elev_rso + e)
  BY DEF invLeastSquaresSHT_table
<1>3. ReadAt(x, y) = <<a * Step(azi_rso), e * Step(elev_rso)>>
  BY DEF ReadAt, ReadAlong
<1> HIDE DEF a, e
<1>4. invLeastSquaresSHT_table(c, x, y) = PlaneHeight(c, a * Step(azi_rso), e * Step(elev_rso))
  BY <1>1, <1>2, TableRow
<1>5. get_recons_height(c, x, y) = invLeastSquaresSHT_table(c, x, y)
  BY DEF get_recons_height, InFrame
<1>6. ReadAt(x, y)[1] \in Int /\ ReadAt(x, y)[2] \in Int
  BY ReadNear DEF ReadAt
<1> QED
  BY <1>3, <1>4, <1>5, <1>6

\* The height on a plane, and how it changes.
LEMMA PlaneSlope ==
  ASSUME NEW c \in Surface, NEW x \in Int, NEW y \in Int, NEW u \in Int, NEW v \in Int
  PROVE  /\ PlaneHeight(c, x, y) \in Int
         /\ PlaneHeight(c, x, y) - PlaneHeight(c, u, v) = Unit * (c.x * (x - u) + c.y * (y - v))
<1>1. c.height \in Int /\ c.x \in Int /\ c.y \in Int /\ Unit \in Int
  BY Sizes DEF Surface
<1>2. c.x * x \in Int /\ c.y * y \in Int /\ c.x * u \in Int /\ c.y * v \in Int
  BY <1>1
<1>3. c.x * (x - u) = c.x * x - c.x * u /\ c.y * (y - v) = c.y * y - c.y * v
  BY <1>1
<1> DEFINE a == c.x * x
           b == c.y * y
           d == c.x * u
           e == c.y * v
           h == c.height
<1> HIDE DEF a, b, d, e, h
<1>4. a \in Int /\ b \in Int /\ d \in Int /\ e \in Int /\ h \in Int
  BY <1>1, <1>2 DEF a, b, d, e, h
<1>5. Unit * (h + a + b) - Unit * (h + d + e) = Unit * ((a - d) + (b - e))
  BY <1>1, <1>4
<1>6. Unit * (h + a + b) \in Int
  BY <1>1, <1>4
<1> QED
  BY <1>3, <1>5, <1>6 DEF PlaneHeight, a, b, d, e, h

\* Units are positive.
LEMMA UnitMagnitude ==
  ASSUME NEW s \in Int
  PROVE  Magnitude(Unit * s) = Unit * Magnitude(s)
<1>1. Unit \in Nat \ {0}
  BY Sizes
<1>2. CASE s < 0
  <2>1. Unit * s < 0 /\ Unit * (-s) = -(Unit * s)
    BY <1>1, <1>2
  <2> QED
    BY <1>2, <2>1 DEF Magnitude
<1>3. CASE s >= 0
  <2>1. ~ Unit * s < 0
    BY <1>1, <1>3
  <2> QED
    BY <1>3, <2>1 DEF Magnitude
<1> QED
  BY <1>2, <1>3

\* The error of the table in units of height.
LEMMA ErrorUnits ==
  ASSUME NEW c \in Surface
  PROVE  /\ TableError(c) = Unit * (TableStep(1) * Magnitude(c.x) + TableStep(2) * Magnitude(c.y))
         /\ TableStep(1) * Magnitude(c.x) + TableStep(2) * Magnitude(c.y) \in Nat
         /\ TableError(c) \in Nat
<1> DEFINE mx == Magnitude(c.x)
           my == Magnitude(c.y)
           sx == TableStep(1)
           sy == TableStep(2)
<1>1. Unit \in Nat \ {0} /\ c.x \in Int /\ c.y \in Int /\ sx \in Nat /\ sy \in Nat
  BY Sizes, ReadNear DEF Surface
<1>2. mx \in Nat /\ my \in Nat
  BY <1>1, Magnitudes
<1>3. Magnitude(Unit * c.x) = Unit * mx /\ Magnitude(Unit * c.y) = Unit * my
  BY <1>1, UnitMagnitude
<1>4. TableError(c) = sx * (Unit * mx) + sy * (Unit * my)
  BY <1>3 DEF TableError, Slopes
<1> HIDE DEF mx, my, sx, sy
<1>5. sx * (Unit * mx) = Unit * (sx * mx) /\ sy * (Unit * my) = Unit * (sy * my)
  BY <1>1, <1>2
<1> DEFINE a == sx * mx
           b == sy * my
<1>6. a \in Nat /\ b \in Nat
  BY <1>1, <1>2
<1> HIDE DEF a, b
<1>7. Unit * a + Unit * b = Unit * (a + b) /\ Unit * (a + b) \in Nat /\ a + b \in Nat
  BY <1>1, <1>6
<1> QED
  BY <1>4, <1>5, <1>7 DEF a, b, mx, my, sx, sy

\* What the table misses is at most half a step along each axis.
LEMMA TableWithin ==
  ASSUME NEW c \in Surface, NEW x \in 0 .. Side, NEW y \in 0 .. Side
  PROVE  LET f == PlaneHeight(c, x, y)
             g == PlaneHeight(c, ReadAt(x, y)[1], ReadAt(x, y)[2])
         IN  /\ f \in Int /\ g \in Int /\ TableError(c) \in Int
             /\ -TableError(c) <= 2 * (f - g) /\ 2 * (f - g) <= TableError(c)
<1> DEFINE u == ReadAt(x, y)[1]
           v == ReadAt(x, y)[2]
           sa == TableStep(1)
           se == TableStep(2)
           g == PlaneHeight(c, u, v)
           f == PlaneHeight(c, x, y)
<1>1. x \in Int /\ y \in Int
  BY Sizes
<1>2. u \in Int /\ v \in Int
  BY TableRead
<1>3. /\ 2 * x - sa <= 2 * u /\ 2 * u <= 2 * x + sa
      /\ 2 * y - se <= 2 * v /\ 2 * v <= 2 * y + se
  BY ReadNear DEF ReadAt
<1>4. sa \in Nat \ {0} /\ se \in Nat \ {0} /\ Unit \in Nat \ {0} /\ c.x \in Int /\ c.y \in Int
  BY ReadNear, Sizes DEF Surface
<1>5. g \in Int /\ f \in Int /\ f - g = Unit * (c.x * (x - u) + c.y * (y - v))
  BY <1>1, <1>2, PlaneSlope
<1>6. TableError(c) = Unit * (sa * Magnitude(c.x) + se * Magnitude(c.y)) /\ TableError(c) \in Int
  BY ErrorUnits
<1> HIDE DEF u, v, sa, se, g, f
<1> DEFINE a == 2 * (x - u)
           b == 2 * (y - v)
           mx == Magnitude(c.x)
           my == Magnitude(c.y)
           k == c.x * a
           l == c.y * b
<1>7. a \in Int /\ b \in Int /\ -sa <= a /\ a <= sa /\ -se <= b /\ b <= se
  BY <1>1, <1>2, <1>3, <1>4
<1>8. mx \in Nat /\ my \in Nat
  BY <1>4, Magnitudes
<1>9. /\ k \in Int /\ l \in Int
      /\ -(mx * sa) <= k /\ k <= mx * sa
      /\ -(my * se) <= l /\ l <= my * se
  <2>1. k \in Int /\ l \in Int
    BY <1>4, <1>7
  <2> HIDE DEF a, b
  <2>2. -(mx * sa) <= k /\ k <= mx * sa
    BY <1>4, <1>7, ProductBound
  <2>3. -(my * se) <= l /\ l <= my * se
    BY <1>4, <1>7, ProductBound
  <2> QED
    BY <2>1, <2>2, <2>3
<1>10. 2 * (f - g) = Unit * (k + l)
  <2>1. k = 2 * (c.x * (x - u)) /\ l = 2 * (c.y * (y - v))
    BY <1>1, <1>2, <1>4
  <2> DEFINE i == c.x * (x - u)
             j == c.y * (y - v)
  <2>2. i \in Int /\ j \in Int
    BY <1>1, <1>2, <1>4
  <2> HIDE DEF i, j, k, l
  <2>3. 2 * (Unit * (i + j)) = Unit * (2 * i + 2 * j)
    BY <1>4, <2>2
  <2>4. f - g = Unit * (i + j) /\ k = 2 * i /\ l = 2 * j
    BY <1>5, <2>1 DEF i, j
  <2> QED
    BY <2>3, <2>4
<1> DEFINE e == sa * mx + se * my
<1> HIDE DEF a, b, k, l
<1>11. e \in Nat /\ -e <= k + l /\ k + l <= e
  <2>1. mx * sa = sa * mx /\ my * se = se * my /\ sa * mx \in Nat /\ se * my \in Nat
    BY <1>4, <1>8
  <2> HIDE DEF mx, my
  <2> QED
    BY <1>9, <2>1
<1> HIDE DEF e
<1>12. -(Unit * e) <= Unit * (k + l) /\ Unit * (k + l) <= Unit * e
  <2> DEFINE t == k + l
  <2>1. t \in Int /\ -e <= t /\ t <= e
    BY <1>9, <1>11
  <2> HIDE DEF t
  <2>2. Unit * t <= Unit * e /\ Unit * (-e) <= Unit * t /\ Unit * (-e) = -(Unit * e)
    BY <1>4, <1>11, <2>1
  <2> QED
    BY <2>2 DEF t
<1>13. -TableError(c) <= 2 * (f - g) /\ 2 * (f - g) <= TableError(c)
  BY <1>6, <1>10, <1>12 DEF e, mx, my
<1> QED
  BY <1>5, <1>6, <1>13 DEF f, g, u, v

\* A height within half the error of the surface's is near enough.
LEMMA WithinNear ==
  ASSUME NEW c \in Surface, NEW p \in Int \X Int \X Int, InFrame(p[1], p[2]), NEW g \in Int,
         -TableError(c) <= 2 * (PlaneHeight(c, p[1], p[2]) - g),
         2 * (PlaneHeight(c, p[1], p[2]) - g) <= TableError(c)
  PROVE  NearTable(c, p, Unit * p[3] - g)
<1> DEFINE f == PlaneHeight(c, p[1], p[2])
<1>1. f \in Int /\ TableError(c) \in Int
  BY TableWithin DEF InFrame
<1> HIDE DEF f
<1>2. (Unit * p[3] - g) - Distance(c, p) = f - g
  <2>1. Unit * p[3] \in Int
    BY Sizes
  <2>2. Distance(c, p) = Unit * p[3] - f
    BY DEF Distance, f
  <2> QED
    BY <1>1, <2>1, <2>2
<1>3. 2 * Magnitude(f - g) <= TableError(c)
  BY <1>1 DEF Magnitude, f
<1> QED
  BY <1>2, <1>3 DEF NearTable

\* So near is what the table yields.
LEMMA TableNear ==
  ASSUME NEW c \in Surface, NEW p \in Int \X Int \X Int, InFrame(p[1], p[2])
  PROVE  /\ get_recons_height(c, p[1], p[2]) \in Int
         /\ NearTable(c, p, Unit * p[3] - get_recons_height(c, p[1], p[2]))
<1> DEFINE x == p[1]
           y == p[2]
           g == get_recons_height(c, x, y)
<1>1. x \in 0 .. Side /\ y \in 0 .. Side
  BY DEF InFrame
<1> HIDE DEF x, y
<1>2. g = PlaneHeight(c, ReadAt(x, y)[1], ReadAt(x, y)[2])
  BY <1>1, TableRead
<1>3. /\ g \in Int /\ -TableError(c) <= 2 * (PlaneHeight(c, x, y) - g)
      /\ 2 * (PlaneHeight(c, x, y) - g) <= TableError(c)
  BY <1>1, <1>2, TableWithin
<1> HIDE DEF g
<1>4. NearTable(c, p, Unit * p[3] - g)
  BY <1>3, WithinNear DEF x, y
<1> QED
  BY <1>3, <1>4 DEF g, x, y

Probe == Int \X Int \X Int

\* The slopes of the table are the surface's or none.
LEMMA TableSlopesSound ==
  ASSUME NEW c, NEW x, NEW y
  PROVE  SlopesOrNone(c, TableSlopes(c, x, y))
BY DEF TableSlopes, SlopesOrNone, Slopes

\* A position is in the mask only within half a cell of a cell of it, and is if it is
\* nearer than that.
LEMMA MaskNear ==
  ASSUME mask \subseteq Int \X Int, NEW p \in Probe, InFrame(p[1], p[2])
  PROVE  /\ is_valid_in_mask(p[1], p[2]) => NearMask(p, CellWidth)
         /\ NearMask(p, CellWidth - 1) => is_valid_in_mask(p[1], p[2])
<1> DEFINE w == CellWidth
           x == p[1]
           d == Side - p[2]
           col == Round(x, w)
           row == Round(d, w)
<1>1. w \in Nat \ {0} /\ x \in Int /\ d \in Int /\ p[2] \in Int /\ Side \in Int
  BY Sizes DEF Probe
<1>2. NearestCell(p[1], p[2]) = <<row, col>>
  BY DEF NearestCell
<1>3. is_valid_in_mask(p[1], p[2]) <=> <<row, col>> \in mask
  BY <1>2 DEF is_valid_in_mask
<1>4. ASSUME NEW cell \in Int \X Int, NEW reach \in Int
      PROVE  (\A i \in 1 .. 2 : 2 * Magnitude(PositionOf(cell)[i] - p[i]) <= reach) <=>
               /\ 2 * x - reach <= 2 * (cell[2] * w) /\ 2 * (cell[2] * w) <= 2 * x + reach
               /\ 2 * d - reach <= 2 * (cell[1] * w) /\ 2 * (cell[1] * w) <= 2 * d + reach
  <2> DEFINE a == cell[2] * w
             b == cell[1] * w
  <2>1. a \in Int /\ b \in Int
    BY <1>1
  <2>2. PositionOf(cell) = <<a, Side - b>>
    BY DEF PositionOf
  <2> HIDE DEF a, b
  <2>3. 2 * Magnitude(a - x) <= reach <=> 2 * x - reach <= 2 * a /\ 2 * a <= 2 * x + reach
    BY <1>1, <2>1 DEF Magnitude
  <2>4. 2 * Magnitude((Side - b) - p[2]) <= reach <=> 2 * d - reach <= 2 * b /\ 2 * b <= 2 * d + reach
    BY <1>1, <2>1 DEF Magnitude
  <2>5. (\A i \in 1 .. 2 : 2 * Magnitude(PositionOf(cell)[i] - p[i]) <= reach) <=>
          2 * Magnitude(a - x) <= reach /\ 2 * Magnitude((Side - b) - p[2]) <= reach
    <3>1. 1 .. 2 = {1, 2}
      OBVIOUS
    <3>2. PositionOf(cell)[1] = a /\ PositionOf(cell)[2] = Side - b
      BY <2>2
    <3> QED
      BY <3>1, <3>2
  <2> QED
    BY <2>3, <2>4, <2>5 DEF a, b
<1> HIDE DEF w, x, d
<1>5. /\ col \in Int /\ 2 * x - w <= 2 * (col * w) /\ 2 * (col * w) <= 2 * x + w
      /\ row \in Int /\ 2 * d - w <= 2 * (row * w) /\ 2 * (row * w) <= 2 * d + w
  BY <1>1, RoundNear
<1>6. ASSUME is_valid_in_mask(p[1], p[2]) PROVE NearMask(p, w)
  <2> DEFINE cell == <<row, col>>
  <2>1. cell \in mask /\ cell \in Int \X Int /\ cell[1] = row /\ cell[2] = col
    BY <1>3, <1>5, <1>6
  <2> HIDE DEF cell, row, col
  <2>2. \A i \in 1 .. 2 : 2 * Magnitude(PositionOf(cell)[i] - p[i]) <= w
    BY <1>1, <1>4, <1>5, <2>1
  <2> QED
    BY <2>1, <2>2 DEF NearMask
<1>7. ASSUME NearMask(p, w - 1) PROVE is_valid_in_mask(p[1], p[2])
  <2>1. PICK cell \in mask : \A i \in 1 .. 2 : 2 * Magnitude(PositionOf(cell)[i] - p[i]) <= w - 1
    BY <1>7 DEF NearMask
  <2> DEFINE i == cell[2]
             j == cell[1]
  <2>2. cell \in Int \X Int /\ i \in Int /\ j \in Int /\ cell = <<j, i>>
    OBVIOUS
  <2>3. /\ 2 * x - (w - 1) <= 2 * (i * w) /\ 2 * (i * w) <= 2 * x + (w - 1)
        /\ 2 * d - (w - 1) <= 2 * (j * w) /\ 2 * (j * w) <= 2 * d + (w - 1)
    BY <1>1, <1>4, <2>1, <2>2, w - 1 \in Int
  <2> HIDE DEF i, j
  <2>4. i * w \in Int /\ j * w \in Int
    BY <1>1, <2>2
  <2>5. /\ 2 * x - w < 2 * (i * w) /\ 2 * (i * w) < 2 * x + w
        /\ 2 * d - w < 2 * (j * w) /\ 2 * (j * w) < 2 * d + w
    BY <1>1, <2>3, <2>4
  <2>6. col = i /\ row = j
    BY <1>1, <2>2, <2>5, RoundTo
  <2> QED
    BY <1>3, <2>1, <2>2, <2>6
<1> QED
  BY <1>6, <1>7 DEF w

\* A residual of the adjustment at a point is as it must be.
LEMMA CoupleIsSound ==
  ASSUME mask \subseteq Int \X Int, NEW p \in Probe, NEW c \in Surface, NEW opt_status,
         evaluation = CoupleSphModFactor(p, c, opt_status)
  PROVE  /\ CoupleSound(p, c)
         /\ evaluation.kind = "couple" /\ evaluation.p = p /\ evaluation.coeff = c
         /\ ~evaluation.used => evaluation.residual = 0
<1> DEFINE is_fault == ~ InFrame(p[1], p[2])
           res == Unit * p[3] - get_recons_height(c, p[1], p[2])
           valid == is_valid_in_mask(p[1], p[2])
           near == Magnitude(res) <= Unit * max_valid_residual
           moves == ~is_fault /\ is_optimize_pose(opt_status, near, valid)
<1>1. /\ evaluation.kind = "couple" /\ evaluation.p = p /\ evaluation.coeff = c
      /\ evaluation.used = ~is_fault
      /\ evaluation.residual = IF is_fault THEN 0 ELSE res
      /\ evaluation.weight = IF is_fault THEN "none" ELSE IF valid THEN "prior" ELSE "observation"
      /\ evaluation.slopes = IF moves THEN TableSlopes(c, p[1], p[2]) ELSE <<0, 0>>
      /\ evaluation.pose = moves
      /\ evaluation.surface = (~is_fault /\ is_optimize_sph_coeff(opt_status, valid))
  BY DEF CoupleSphModFactor
<1> HIDE DEF res
<1>2. evaluation.used <=> InFrame(p[1], p[2])
  BY <1>1
<1>3. evaluation.used => NearTable(c, p, evaluation.residual)
  BY <1>1, TableNear DEF Probe, res
<1>4. SlopesOrNone(c, evaluation.slopes)
  <2>1. SlopesOrNone(c, TableSlopes(c, p[1], p[2]))
    BY TableSlopesSound
  <2>2. SlopesOrNone(c, <<0, 0>>)
    BY DEF SlopesOrNone
  <2>3. CASE moves
    <3>1. evaluation.slopes = TableSlopes(c, p[1], p[2])
      BY <1>1, <2>3
    <3> QED
      BY <2>1, <3>1
  <2>4. CASE ~moves
    <3>1. evaluation.slopes = <<0, 0>>
      BY <1>1, <2>4
    <3> QED
      BY <2>2, <3>1
  <2> QED
    BY <2>3, <2>4
<1>5. evaluation.pose => Magnitude(evaluation.residual) <= Unit * max_valid_residual
  BY <1>1 DEF is_optimize_pose
<1>6. evaluation.weight = "prior" => NearMask(p, CellWidth)
  BY <1>1, MaskNear
<1>7. evaluation.used /\ NearMask(p, CellWidth - 1) => evaluation.weight = "prior"
  BY <1>1, MaskNear
<1>8. evaluation.used /\ evaluation.weight = "observation" => evaluation.surface
  BY <1>1 DEF is_optimize_sph_coeff
<1>9. ~evaluation.used => evaluation.residual = 0
  BY <1>1
<1> HIDE DEF valid, near, moves, is_fault
<1> QED
  BY <1>1, <1>2, <1>3, <1>4, <1>5, <1>6, <1>7, <1>8, <1>9 DEF CoupleSound

-----------------------------------------------------------------------------
(* The cells                                                               *)

Near(cell, at, reach) ==
  \A i \in 1 .. 2 : -reach < PositionOf(cell)[i] - at[i] /\ PositionOf(cell)[i] - at[i] < reach

\* A cell lies in the frame, at a multiple of its width.
LEMMA CellPosition ==
  ASSUME NEW cell \in Cells(0)
  PROVE  /\ cell[1] \in 0 .. minimum_img_rso - 1 /\ cell[2] \in 0 .. minimum_img_rso - 1
         /\ PositionOf(cell)[1] = cell[2] * CellWidth
         /\ PositionOf(cell)[2] = (minimum_img_rso - 1 - cell[1]) * CellWidth
         /\ PositionOf(cell)[1] \in 0 .. Side /\ PositionOf(cell)[2] \in 0 .. Side
<1> DEFINE n == minimum_img_rso - 1
           w == CellWidth
           i == cell[1]
           j == cell[2]
<1>1. n \in Nat \ {0} /\ w \in Nat \ {0} /\ Side \in Nat \ {0} /\ Side = w * n
  BY Sizes
<1>2. i \in 0 .. n /\ j \in 0 .. n
  BY DEF Cells, ImageSize
<1>3. PositionOf(cell) = <<j * w, Side - i * w>>
  BY DEF PositionOf
<1> HIDE DEF n, w, i, j
<1>4. /\ 0 <= j * w /\ j * w <= n * w /\ 0 <= i * w /\ i * w <= n * w
      /\ j * w \in Int /\ i * w \in Int /\ w * n = n * w
      /\ (n - i) * w = n * w - i * w
  BY <1>1, <1>2
<1> QED
  BY <1>1, <1>2, <1>3, <1>4 DEF n, w, i, j

\* The points read from a surface lie on cells, at the height the table has there.
OfSurface(c, points) ==
  \A p \in points :
    /\ p[1] \in 0 .. Side /\ p[2] \in 0 .. Side
    /\ p[3] = invLeastSquaresSHT_table(c, p[1], p[2])

\* Those that an adjustment reads are.
LEMMA PointsRead ==
  ASSUME mask \subseteq Cells(0)
  PROVE  OfSurface(sph_coeff, get_recons_v_obj_downsample)
<1> SUFFICES ASSUME NEW p \in get_recons_v_obj_downsample
             PROVE  /\ p[1] \in 0 .. Side /\ p[2] \in 0 .. Side
                    /\ p[3] = invLeastSquaresSHT_table(sph_coeff, p[1], p[2])
  BY DEF OfSurface
<1>1. PICK cell \in mask :
        p = <<cell[2] * CellWidth, Side - cell[1] * CellWidth,
              invLeastSquaresSHT_table(sph_coeff, cell[2] * CellWidth, Side - cell[1] * CellWidth)>>
  BY DEF get_recons_v_obj_downsample
<1>2. p[1] = PositionOf(cell)[1] /\ p[2] = PositionOf(cell)[2]
  BY <1>1 DEF PositionOf
<1>3. p[1] \in 0 .. Side /\ p[2] \in 0 .. Side
  BY <1>2, CellPosition
<1> QED
  BY <1>1, <1>3

\* A residual that holds a surface where it was vanishes for that surface.
LEMMA RegIsSound ==
  ASSUME NEW points, NEW b \in Surface, OfSurface(b, points), NEW p \in points, NEW c,
         evaluation = CoupleSphModRegFactor(p, c)
  PROVE  /\ evaluation.kind = "reg" /\ evaluation.coeff = c
         /\ ~evaluation.used => evaluation.residual = 0
         /\ c = b => evaluation.residual = 0
<1> DEFINE is_fault == Magnitude(p[3]) >= Unit * half_diag_cut_threshold
<1>1. /\ evaluation.kind = "reg" /\ evaluation.coeff = c /\ evaluation.used = ~is_fault
      /\ evaluation.residual = IF is_fault THEN 0 ELSE p[3] - get_recons_height(c, p[1], p[2])
  BY DEF CoupleSphModRegFactor
<1> DEFINE x == p[1]
           y == p[2]
           z == p[3]
           u == ReadAt(x, y)
<1>2. x \in 0 .. Side /\ y \in 0 .. Side /\ z = invLeastSquaresSHT_table(b, x, y)
  BY DEF OfSurface
<1> HIDE DEF x, y, z
<1>3. /\ z = PlaneHeight(b, u[1], u[2]) /\ u[1] \in Int /\ u[2] \in Int
      /\ get_recons_height(b, x, y) = PlaneHeight(b, u[1], u[2])
  BY <1>2, TableRead
<1> HIDE DEF u
<1>4. z \in Int
  BY <1>3, PlaneSlope
<1>5. c = b => z - get_recons_height(c, x, y) = 0
  BY <1>3, <1>4
<1> HIDE DEF is_fault
<1>6. evaluation.residual = IF is_fault THEN 0 ELSE z - get_recons_height(c, x, y)
  BY <1>1 DEF x, y, z
<1> QED
  BY <1>1, <1>5, <1>6

\* A unit of height is a multiple of what divides it below.
LEMMA Whole ==
  /\ \E m \in Nat \ {0} : Unit = 2 * m
  /\ \E m \in Nat \ {0} : Unit = 256 * m
  /\ \E m \in Nat \ {0} : Unit = (2 * CellWidth) * m
  /\ \E m \in Nat \ {0} : Unit = (2 * CellWidth * CellWidth) * m
  /\ \E m \in Nat \ {0} : Unit = (2 * CellWidth) * ((2 * CellWidth * CellWidth) * m)
<1> DEFINE w == CellWidth
           k == 8192 * w * w * w
           q == Unit \div k
<1>1. w \in Nat \ {0} /\ Unit \in Nat \ {0} /\ Unit % k = 0
  BY Sizes, FactorAssumption
<1> HIDE DEF w
<1>2. \A a, b \in Nat \ {0} : a * b \in Nat \ {0}
  OBVIOUS
<1> DEFINE s == w * w
           t == s * w
<1>3. s \in Nat \ {0} /\ t \in Nat \ {0}
  <2>1. s \in Nat \ {0}
    BY <1>1, <1>2
  <2> HIDE DEF s
  <2> QED
    BY <1>1, <1>2, <2>1
<1>4. k = 8192 * t /\ k \in Nat \ {0} /\ Unit \in Int
  <2>1. 8192 * w * w * w = 8192 * ((w * w) * w)
    BY <1>1
  <2> HIDE DEF t
  <2> QED
    BY <1>1, <1>3, <2>1 DEF t
<1> HIDE DEF k
<1>5. q \in Int /\ Unit = q * k
  <2>0. k \in Nat \ {0} /\ Unit \in Int
    BY <1>4
  <2>1. /\ q \in Int
        /\ Unit = q * k + (Unit % k)
    BY ONLY <2>0, Quotient
  <2> HIDE DEF q
  <2>2. q * k \in Int
    BY <1>4, <2>1
  <2> QED
    BY <1>1, <2>1, <2>2
<1> HIDE DEF q
<1>6. q > 0
  <2>1. q * k > 0 * k
    BY <1>1, <1>4, <1>5
  <2> QED
    BY <1>4, <1>5, <2>1, Cancels
<1> DEFINE v == q * t
           u == q * s
           r == q * w
<1>7. q \in Nat \ {0}
  BY <1>5, <1>6
<1>8. v \in Nat \ {0} /\ u \in Nat \ {0} /\ r \in Nat \ {0}
  <2> HIDE DEF s, t
  <2> QED
    BY <1>1, <1>2, <1>3, <1>7
<1>9. Unit = 8192 * v
  <2> HIDE DEF t
  <2> QED
    BY <1>3, <1>4, <1>5
<1>10. v = w * u
  <2> HIDE DEF s
  <2>1. q * (s * w) = w * (q * s)
    BY <1>1, <1>3, <1>7
  <2> QED
    BY <2>1
<1>11. u = w * r
  BY <1>1, <1>7
<1>12. v = s * r
  <2>1. w * (w * r) = (w * w) * r
    BY <1>1, <1>8
  <2> QED
    BY <1>10, <1>11, <2>1
<1> HIDE DEF s, t, v, u, r
<1>13. Unit = 2 * (4096 * v) /\ 4096 * v \in Nat \ {0} /\ Unit = 256 * (32 * v) /\ 32 * v \in Nat \ {0}
  BY <1>8, <1>9
<1>14. Unit = (2 * w) * (4096 * u) /\ 4096 * u \in Nat \ {0}
  BY <1>1, <1>8, <1>9, <1>10
<1>15. 2 * w * w = 2 * s
  <2>1. 2 * w * w = 2 * (w * w)
    BY <1>1
  <2> QED
    BY <2>1 DEF s
<1>16. Unit = (2 * s) * (4096 * r) /\ 4096 * r \in Nat \ {0}
  BY <1>3, <1>8, <1>9, <1>12
<1>17. Unit = (2 * w) * ((2 * s) * (2048 * q)) /\ 2048 * q \in Nat \ {0}
  <2>1. (2 * s) * (2048 * q) = 4096 * (q * s)
    BY <1>3, <1>7
  <2>2. (2 * s) * (2048 * q) = 4096 * u
    BY <2>1 DEF u
  <2> QED
    BY <1>7, <1>14, <2>2
<1> QED
  BY <1>13, <1>14, <1>15, <1>16, <1>17 DEF w

\* A height in units.
Raw(c, x, y) == c.height + c.x * x + c.y * y

\* The height of a surface is a whole number of units, and so never reads as missing.
LEMMA HeightKnown ==
  ASSUME NEW c \in Surface, NEW x \in Int, NEW y \in Int
  PROVE  /\ Raw(c, x, y) \in Int /\ PlaneHeight(c, x, y) = Unit * Raw(c, x, y)
         /\ PlaneHeight(c, x, y) \in Int /\ PlaneHeight(c, x, y) # T_INVALID
<1>1. c.height \in Int /\ c.x \in Int /\ c.y \in Int
  BY DEF Surface
<1>2. c.x * x \in Int /\ c.y * y \in Int
  BY <1>1
<1> DEFINE r == Raw(c, x, y)
<1>3. r \in Int /\ PlaneHeight(c, x, y) = Unit * r
  BY <1>1, <1>2 DEF Raw, PlaneHeight
<1> HIDE DEF r
<1>4. PICK m \in Nat \ {0} : Unit = 2 * m
  BY Whole
<1>5. m * r \in Int /\ Unit * r = 2 * (m * r)
  BY <1>3, <1>4
<1> DEFINE k == m * r
<1> HIDE DEF k
<1>6. k \in Int /\ Unit * r = 2 * k
  BY <1>5 DEF k
<1>7. 2 * k # T_INVALID /\ 2 * k \in Int
  BY <1>6 DEF T_INVALID
<1> QED
  BY <1>3, <1>6, <1>7 DEF r

\* The columns left and right of a place are those nearer to it than a width.
LEMMA Columns ==
  ASSUME NEW w \in Nat \ {0}, NEW n \in Nat, NEW x \in 0 .. n * w
  PROVE  /\ x \div w \in 0 .. n /\ Ceil(x, w) \in 0 .. n
         /\ \A j \in Int : -w < j * w - x /\ j * w - x < w <=> j \in {x \div w, Ceil(x, w)}
<1> DEFINE q == x \div w
           r == x % w
           e == Ceil(x, w)
<1>0. n * w \in Int
  OBVIOUS
<1>1. x \in Int /\ q \in Int /\ r \in 0 .. w - 1 /\ x = q * w + r
  <2>1. x \in Int
    BY <1>0
  <2> QED
    BY <2>1, Quotient
<1>2. /\ e \in Int
      /\ r = 0 => e = q
      /\ r # 0 => e = q + 1
  BY <1>1, CeilNear
<1>3. 0 <= x /\ x <= n * w
  BY <1>0
<1> HIDE DEF q, r, e
<1>4. (q + 1) * w = q * w + w /\ q * w \in Int /\ 0 * w = 0 /\ (n + 1) * w = n * w + w
  BY <1>1
<1>5. q >= 0
  <2>1. (q + 1) * w > 0 * w
    BY <1>0, <1>1, <1>3, <1>4
  <2> QED
    BY <1>1, <2>1, Cancels, q + 1 \in Int
<1>6. e <= n
  <2>1. CASE r = 0
    <3>1. n * w >= q * w
      BY <1>0, <1>1, <1>3, <1>4, <2>1
    <3> QED
      BY <1>1, <1>2, <2>1, <3>1, Cancels
  <2>2. CASE r # 0
    <3>1. n * w > q * w
      BY <1>0, <1>1, <1>3, <1>4, <2>2
    <3>2. n > q
      BY <1>1, <3>1, Cancels
    <3> QED
      BY <1>1, <1>2, <2>2, <3>2
  <2> QED
    BY <2>1, <2>2
<1>7. ASSUME NEW j \in Int PROVE -w < j * w - x /\ j * w - x < w <=> j \in {q, e}
  <2>1. j * w \in Int /\ (j + 1) * w = j * w + w
    OBVIOUS
  <2>2. ASSUME -w < j * w - x, j * w - x < w PROVE j \in {q, e}
    <3>1. (j + 1) * w > q * w
      BY <1>1, <1>4, <2>1, <2>2
    <3>2. j + 1 > q
      BY <1>1, <3>1, Cancels, j + 1 \in Int
    <3>3. CASE r = 0
      <4>1. (q + 1) * w > j * w
        BY <1>1, <1>4, <2>1, <2>2, <3>3
      <4>2. q + 1 > j
        BY <1>1, <4>1, Cancels, q + 1 \in Int
      <4> QED
        BY <1>1, <3>2, <4>2
    <3>4. CASE r # 0
      <4>1. (q + 2) * w = q * w + w + w
        BY <1>1
      <4>2. (q + 2) * w > j * w
        BY <1>1, <1>4, <2>1, <2>2, <4>1
      <4>3. q + 2 > j
        BY <1>1, <4>2, Cancels, q + 2 \in Int
      <4>4. j = q \/ j = q + 1
        BY <1>1, <3>2, <4>3
      <4> QED
        BY <1>2, <3>4, <4>4
    <3> QED
      BY <3>3, <3>4
  <2>3. ASSUME j = q PROVE -w < j * w - x /\ j * w - x < w
    BY <1>1, <1>4, <2>3
  <2>4. ASSUME j = e PROVE -w < j * w - x /\ j * w - x < w
    <3>1. CASE r = 0
      BY <1>2, <2>3, <2>4, <3>1
    <3>2. CASE r # 0
      <4>1. j * w = q * w + w
        BY <1>2, <1>4, <2>4, <3>2
      <4> QED
        BY <1>1, <1>4, <3>2, <4>1
    <3> QED
      BY <3>1, <3>2
  <2> QED
    BY <2>2, <2>3, <2>4
<1>8. q \in 0 .. n /\ e \in 0 .. n
  BY <1>1, <1>2, <1>5, <1>6
<1> QED
  BY <1>7, <1>8 DEF q, e

\* The corners around a point are the cells nearer to it than a cell's width.
LEMMA CornersAround ==
  ASSUME NEW p \in Probe, InFrame(p[1], p[2])
  PROVE  /\ CornerCells(p[1], p[2], CellWidth) \subseteq Cells(0)
         /\ CornerCells(p[1], p[2], CellWidth) = Around(p, CellWidth)
<1> DEFINE w == CellWidth
           n == minimum_img_rso - 1
           x == p[1]
           y == p[2]
           d == Side - p[2]
           X == {x \div w, Ceil(x, w)}
           D == {d \div w, Ceil(d, w)}
<1>1. /\ w \in Nat \ {0} /\ n \in Nat /\ Side \in Nat /\ Side = n * w
      /\ x \in Int /\ y \in Int /\ x \in 0 .. n * w /\ d \in 0 .. n * w /\ d \in Int
  <2>1. w \in Nat \ {0} /\ n \in Nat /\ Side \in Nat /\ Side = w * n /\ w * n = n * w
    BY Sizes
  <2> QED
    BY <2>1 DEF InFrame, Probe
<1>2. d = Side - y /\ CornerCells(x, y, w) = D \X X
  BY DEF CornerCells
<1>3. Cells(0) = (0 .. n) \X (0 .. n)
  BY DEF Cells, ImageSize
<1>4. ASSUME NEW cell \in Cells(0), NEW reach \in Int
      PROVE  (\A i \in 1 .. 2 : Magnitude(PositionOf(cell)[i] - p[i]) < reach) <=>
               /\ -reach < cell[2] * w - x /\ cell[2] * w - x < reach
               /\ -reach < cell[1] * w - d /\ cell[1] * w - d < reach
  <2> DEFINE a == cell[2] * w
             b == cell[1] * w
  <2>1. cell[1] \in Int /\ cell[2] \in Int
    BY <1>1, <1>3
  <2>2. a \in Int /\ b \in Int
    BY <1>1, <2>1
  <2>3. PositionOf(cell)[1] = a /\ PositionOf(cell)[2] = Side - b
    BY DEF PositionOf
  <2> HIDE DEF a, b
  <2>4. Magnitude(a - x) < reach <=> -reach < a - x /\ a - x < reach
    BY <1>1, <2>2 DEF Magnitude
  <2>5. Magnitude((Side - b) - y) < reach <=> -reach < b - d /\ b - d < reach
    BY <1>1, <2>2 DEF Magnitude
  <2>6. (\A i \in 1 .. 2 : Magnitude(PositionOf(cell)[i] - p[i]) < reach) <=>
          Magnitude(a - x) < reach /\ Magnitude((Side - b) - y) < reach
    <3>1. 1 .. 2 = {1, 2}
      OBVIOUS
    <3> QED
      BY <2>3, <3>1
  <2> QED
    BY <2>4, <2>5, <2>6 DEF a, b
<1> HIDE DEF w, n, x, y, d
<1>5. /\ X \subseteq 0 .. n
      /\ \A j \in Int : -w < j * w - x /\ j * w - x < w <=> j \in X
  <2>1. w \in Nat \ {0} /\ n \in Nat /\ x \in 0 .. n * w
    BY <1>1
  <2>2. /\ x \div w \in 0 .. n /\ Ceil(x, w) \in 0 .. n
        /\ \A j \in Int : -w < j * w - x /\ j * w - x < w <=> j \in {x \div w, Ceil(x, w)}
    BY ONLY <2>1, Columns
  <2> QED
    BY <2>2
<1>6. /\ D \subseteq 0 .. n
      /\ \A j \in Int : -w < j * w - d /\ j * w - d < w <=> j \in D
  <2>1. w \in Nat \ {0} /\ n \in Nat /\ d \in 0 .. n * w
    BY <1>1
  <2>2. /\ d \div w \in 0 .. n /\ Ceil(d, w) \in 0 .. n
        /\ \A j \in Int : -w < j * w - d /\ j * w - d < w <=> j \in {d \div w, Ceil(d, w)}
    BY ONLY <2>1, Columns
  <2> QED
    BY <2>2
<1> HIDE DEF X, D
<1>7. CornerCells(x, y, w) \subseteq Cells(0)
  BY <1>2, <1>3, <1>5, <1>6
<1>8. ASSUME NEW cell \in Cells(0)
      PROVE  cell \in CornerCells(x, y, w) <=> cell \in Around(p, w)
  <2>1. cell[1] \in Int /\ cell[2] \in Int /\ cell = <<cell[1], cell[2]>>
    BY <1>1, <1>3
  <2>2. cell \in D \X X <=> cell[1] \in D /\ cell[2] \in X
    BY <2>1
  <2>3. cell \in Around(p, w) <=> \A i \in 1 .. 2 : Magnitude(PositionOf(cell)[i] - p[i]) < w
    BY DEF Around
  <2> QED
    BY <1>1, <1>2, <1>4, <1>5, <1>6, <2>1, <2>2, <2>3
<1>9. CornerCells(x, y, w) = Around(p, w)
  BY <1>7, <1>8 DEF Around
<1> QED
  BY <1>7, <1>9 DEF x, y, w

\* Where the table is read for a cell.
ReadOf(cell) == ReadAt(PositionOf(cell)[1], PositionOf(cell)[2])

\* It is read along each axis.
LEMMA ReadOfCell ==
  ASSUME NEW cell \in Cells(0)
  PROVE  /\ ReadOf(cell)[1] \in Int /\ ReadOf(cell)[2] \in Int
         /\ \A i \in {1, 2} : /\ ReadOf(cell)[i] = ReadAlong(i, PositionOf(cell)[i])
                              /\ PositionOf(cell)[i] \in 0 .. Side
<1>1. PositionOf(cell)[1] \in 0 .. Side /\ PositionOf(cell)[2] \in 0 .. Side
  BY CellPosition
<1>2. /\ ReadOf(cell)[1] = ReadAlong(1, PositionOf(cell)[1])
      /\ ReadOf(cell)[2] = ReadAlong(2, PositionOf(cell)[2])
  BY DEF ReadOf, ReadAt
<1> QED
  BY <1>1, <1>2, ReadNear

\* The finest image has the heights that the table has for its cells.
LEMMA FineCells ==
  ASSUME NEW c \in Surface, NEW cells \in SUBSET Cells(0), NEW cell \in Cells(0)
  PROVE  LET J == calculate_I(c, cells)
             at == ReadOf(cell)
         IN  /\ cell \in cells => J[cell] = PlaneHeight(c, at[1], at[2])
             /\ cell \in cells <=> J[cell] # T_INVALID
             /\ J[cell] \in Int /\ at[1] \in Int /\ at[2] \in Int
<1> DEFINE J == calculate_I(c, cells)
           x == PositionOf(cell)[1]
           y == PositionOf(cell)[2]
           u == ReadOf(cell)[1]
           v == ReadOf(cell)[2]
           h == invLeastSquaresSHT_table(c, x, y)
<1>1. x = cell[2] * CellWidth /\ y = Side - cell[1] * CellWidth
  BY DEF PositionOf
<1>2. J[cell] = IF cell \in cells THEN h ELSE T_INVALID
  BY <1>1 DEF calculate_I
<1>3. x \in 0 .. Side /\ y \in 0 .. Side
  BY CellPosition
<1> HIDE DEF x, y
<1>4. h = PlaneHeight(c, u, v) /\ u \in Int /\ v \in Int
  BY <1>3, TableRead DEF ReadOf, x, y
<1> HIDE DEF u, v
<1>5. h \in Int /\ h # T_INVALID
  BY <1>4, HeightKnown
<1> HIDE DEF h
<1>6. T_INVALID \in Int
  BY DEF T_INVALID
<1> QED
  BY <1>2, <1>4, <1>5, <1>6 DEF u, v

\* Cells have a width at both levels.
LEMMA GridLen == \A k \in {0, 1} : grid_len(k) \in Nat \ {0}
<1>1. CellWidth \in Nat \ {0}
  BY Sizes
<1> QED
  BY <1>1 DEF grid_len

\* What the interpolation yields between two cells that are len apart.
Between(len, a, b, d) == (a \div len) * (len - d) + (b \div len) * d

AlongRow(I, len, row, x) ==
  Between(len, I[<<row, x \div len>>], I[<<row, Ceil(x, len)>>], x % len)

Fetched(I, len, x, d) ==
  Between(len, AlongRow(I, len, d \div len, x), AlongRow(I, len, Ceil(d, len), x), d % len)

\* Whether a level shows all corners around a position.
CornersShown(I, x, y, k) ==
  /\ InFrame(x, y) /\ CornerCells(x, y, grid_len(k)) \subseteq Cells(k)
  /\ \A cell \in CornerCells(x, y, grid_len(k)) : I[cell] # T_INVALID

\* A level yields what lies between the corners if it shows them all, and nothing
\* otherwise.
LEMMA FetchCases ==
  ASSUME NEW I, NEW x, NEW y, NEW k
  PROVE  /\ CornersShown(I, x, y, k) => fetch_I(I, x, y, k) = Fetched(I, grid_len(k), x, Side - y)
         /\ ~CornersShown(I, x, y, k) => fetch_I(I, x, y, k) = T_INVALID
BY DEF fetch_I, CornersShown, Fetched, AlongRow, Between

\* What is interpolated exceeds no multiple of the distance that both cells do not.
LEMMA BetweenBoth ==
  ASSUME NEW len \in Nat \ {0}, NEW a \in Int, NEW b \in Int, NEW d \in 0 .. len - 1
  PROVE  /\ Between(len, a, b, d) \in Int
         /\ \A l \in Int : a >= len * l /\ b >= len * l => Between(len, a, b, d) >= len * l
         /\ \A l \in Int : a <= len * l /\ b <= len * l => Between(len, a, b, d) <= len * l
<1> DEFINE p == a \div len
           q == b \div len
           e == len - d
<1>1. p \in Int /\ p * len <= a /\ a < p * len + len /\ q \in Int /\ q * len <= b /\ b < q * len + len
  BY Quotient
<1>2. e \in Nat /\ d \in Nat /\ e + d = len
  OBVIOUS
<1>3. Between(len, a, b, d) = p * e + q * d
  BY DEF Between
<1> HIDE DEF p, q, e
<1>4. p * e \in Int /\ q * d \in Int
  BY <1>1, <1>2
<1>5. ASSUME NEW l \in Int, a >= len * l, b >= len * l PROVE p * e + q * d >= len * l
  <2>1. (p + 1) * len = p * len + len /\ (q + 1) * len = q * len + len /\ l * len = len * l
        /\ p * len \in Int /\ q * len \in Int /\ len * l \in Int
    BY <1>1
  <2>2. (p + 1) * len > l * len /\ (q + 1) * len > l * len
    BY <1>1, <1>5, <2>1
  <2>3. p >= l /\ q >= l
    <3>1. p + 1 > l /\ q + 1 > l
      BY <1>1, <2>2, Cancels, p + 1 \in Int, q + 1 \in Int
    <3> QED
      BY <1>1, <3>1
  <2>4. p * e >= l * e /\ q * d >= l * d
    BY <1>1, <1>2, <2>3
  <2>5. l * e + l * d = len * l /\ l * e \in Int /\ l * d \in Int
    BY <1>2
  <2> QED
    BY <1>4, <2>4, <2>5
<1>6. ASSUME NEW l \in Int, a <= len * l, b <= len * l PROVE p * e + q * d <= len * l
  <2>1. l * len = len * l /\ p * len \in Int /\ q * len \in Int /\ len * l \in Int
    BY <1>1
  <2>2. l * len >= p * len /\ l * len >= q * len
    BY <1>1, <1>6, <2>1
  <2>3. l >= p /\ l >= q
    BY <1>1, <2>2, Cancels
  <2>4. p * e <= l * e /\ q * d <= l * d
    BY <1>1, <1>2, <2>3
  <2>5. l * e + l * d = len * l /\ l * e \in Int /\ l * d \in Int
    BY <1>2
  <2> QED
    BY <1>4, <2>4, <2>5
<1> QED
  BY <1>3, <1>4, <1>5, <1>6

\* What is a multiple of a number.
Multiple(m, a) == \E n \in Int : a = m * n

\* Twice the difference of two heights is at most an error.
HalfOff(E, a, b) == -E <= 2 * (a - b) /\ 2 * (a - b) <= E

\* A line, and the places before and behind one at which cells are, len apart.
Line(h, g, x) == h + g * x
PlaceBefore(len, x) == (x \div len) * len
PlaceBehind(len, x) == Ceil(x, len) * len

\* What is interpolated between two multiples of len is near a line that both are near.
LEMMA BetweenNear ==
  ASSUME NEW len \in Nat \ {0}, NEW h \in Int, NEW g \in Int, NEW x \in Int, NEW E \in Int,
         NEW a, NEW c, Multiple(len, a), Multiple(len, c),
         HalfOff(E, Line(h, g, PlaceBefore(len, x)), a), HalfOff(E, Line(h, g, PlaceBehind(len, x)), c)
  PROVE  HalfOff(E, Line(h, g, x), Between(len, a, c, x % len))
<1>a. PICK i \in Int : a = len * i
  BY DEF Multiple
<1>b. PICK j \in Int : c = len * j
  BY DEF Multiple
<1> DEFINE q == x \div len
           e == Ceil(x, len)
           r == x % len
           s == h + g * (q * len)
           t == h + g * (e * len)
           b == Between(len, len * i, len * j, r)
           l == h + g * x
           da == 2 * (s - len * i)
           db == 2 * (t - len * j)
<1>0. -E <= da /\ da <= E /\ -E <= db /\ db <= E
  BY <1>a, <1>b DEF HalfOff, Line, PlaceBefore, PlaceBehind
<1>1. q \in Int /\ r \in 0 .. len - 1 /\ x = q * len + r
  BY Quotient
<1>2. /\ e \in Int
      /\ r = 0 => e = q
      /\ r # 0 => e = q + 1
  BY <1>1, CeilNear
<1>3. b = i * (len - r) + j * r
  BY Exact DEF Between
<1> HIDE DEF q, e, r, b
<1>4. q * len \in Int /\ e * len \in Int /\ g * len \in Int /\ s \in Int /\ t \in Int
  BY <1>1, <1>2
<1>5. l = s + g * r /\ g * r \in Int /\ l \in Int
  <2>1. g * (q * len + r) = g * (q * len) + g * r /\ g * (q * len) \in Int /\ g * r \in Int
    BY <1>1, <1>4
  <2> QED
    BY <1>1, <2>1
<1>6. r = 0 => t = s
  BY <1>2
<1>7. r # 0 => t = s + g * len
  <2>1. (q + 1) * len = q * len + len
    BY <1>1
  <2>2. g * (q * len + len) = g * (q * len) + g * len /\ g * (q * len) \in Int
    BY <1>4
  <2> QED
    BY <1>2, <1>4, <2>1, <2>2
<1>8. da \in Int /\ db \in Int /\ -E <= da /\ da <= E /\ -E <= db /\ db <= E
  <2>1. len * i \in Int /\ len * j \in Int
    OBVIOUS
  <2>2. da \in Int /\ db \in Int
    BY <1>4, <2>1
  <2> HIDE DEF da, db
  <2> QED
    BY <1>0, <2>2
<1> HIDE DEF s, t, l
<1>9. b \in Int /\ len - r \in Nat /\ r \in Nat
  <2>1. len - r \in Nat /\ r \in Nat
    BY <1>1
  <2>2. i * (len - r) \in Int /\ j * r \in Int
    BY <2>1
  <2> QED
    BY <1>3, <2>1, <2>2
<1>10. l * len = s * (len - r) + t * r
  <2>1. CASE r = 0
    <3>1. s * (len - r) = s * len /\ t * r = 0 /\ g * r = 0 /\ s * len \in Int
      BY <1>4, <2>1
    <3> QED
      BY <1>4, <1>5, <2>1, <3>1
  <2>2. CASE r # 0
    <3> DEFINE o == g * len
    <3>1. o \in Int /\ t = s + o
      BY <1>4, <1>7, <2>2
    <3>2. (g * r) * len = o * r
      BY <1>9
    <3> HIDE DEF o
    <3>3. (s + o) * r = s * r + o * r /\ s * (len - r) = s * len - s * r
          /\ s * r \in Int /\ s * len \in Int /\ o * r \in Int
      BY <1>4, <1>9, <3>1
    <3>4. (s + g * r) * len = s * len + (g * r) * len
      <4> DEFINE f == g * r
      <4>1. f \in Int
        BY <1>5
      <4> HIDE DEF f
      <4>2. (s + f) * len = s * len + f * len
        BY <1>4, <4>1
      <4> QED
        BY <4>2 DEF f
    <3> QED
      BY <1>5, <3>1, <3>2, <3>3, <3>4
  <2> QED
    BY <2>1, <2>2
<1> DEFINE m == len - r
<1> HIDE DEF m
<1>11. m \in Nat /\ m + r = len
  BY <1>1, <1>9 DEF m
<1>12. (2 * (l - b)) * len = da * m + db * r
  <2>1. b * len = (len * i) * m + (len * j) * r
    <3>1. (i * m) * len = (len * i) * m /\ (j * r) * len = (len * j) * r
      BY <1>9, <1>11
    <3>2. (i * m + j * r) * len = (i * m) * len + (j * r) * len
      <4> DEFINE f == i * m
                 o == j * r
      <4>1. f \in Int /\ o \in Int
        BY <1>9, <1>11
      <4> HIDE DEF f, o
      <4>2. (f + o) * len = f * len + o * len
        BY <4>1
      <4> QED
        BY <4>2 DEF f, o
    <3> QED
      BY <1>3, <3>1, <3>2 DEF m
  <2> DEFINE y == len * i
             z == len * j
  <2>2. y \in Int /\ z \in Int
    OBVIOUS
  <2>3. b * len = y * m + z * r
    BY <2>1
  <2>4. da = 2 * (s - y) /\ db = 2 * (t - z)
    OBVIOUS
  <2> HIDE DEF y, z, da, db
  <2>5. da * m = 2 * (s * m) - 2 * (y * m) /\ db * r = 2 * (t * r) - 2 * (z * r)
    BY <1>4, <1>9, <1>11, <2>2, <2>4
  <2>6. (2 * (l - b)) * len = 2 * (l * len) - 2 * (b * len)
    BY <1>5, <1>9
  <2>7. s * m \in Int /\ y * m \in Int /\ t * r \in Int /\ z * r \in Int
    BY <1>4, <1>9, <1>11, <2>2
  <2>8. l * len = s * m + t * r
    BY <1>10 DEF m
  <2> QED
    BY <2>3, <2>5, <2>6, <2>7, <2>8
<1> HIDE DEF da, db
<1>13. -(E * m) <= da * m /\ da * m <= E * m /\ -(E * r) <= db * r /\ db * r <= E * r
  <2>1. da * m <= E * m /\ (-E) * m <= da * m /\ (-E) * m = -(E * m)
    BY <1>8, <1>11
  <2>2. db * r <= E * r /\ (-E) * r <= db * r /\ (-E) * r = -(E * r)
    BY <1>8, <1>9
  <2> QED
    BY <2>1, <2>2
<1>14. E * m + E * r = E * len /\ E * m \in Int /\ E * r \in Int /\ da * m \in Int /\ db * r \in Int
  <2>1. E * (m + r) = E * m + E * r
    BY <1>9, <1>11
  <2> QED
    BY <1>8, <1>9, <1>11, <2>1
<1> DEFINE f == 2 * (l - b)
<1>15. f \in Int /\ f * len = da * m + db * r
  BY <1>5, <1>9, <1>12
<1> HIDE DEF f
<1>16. E * len >= f * len /\ f * len >= (-E) * len
  <2>1. (-E) * len = -(E * len)
    OBVIOUS
  <2> QED
    BY <1>13, <1>14, <1>15, <2>1
<1>17. E >= f /\ f >= -E
  BY <1>15, <1>16, Cancels, -E \in Int
<1>18. HalfOff(E, l, b)
  <2>1. -E <= f /\ f <= E
    BY <1>15, <1>17
  <2> QED
    BY <2>1 DEF HalfOff, f
<1> QED
  BY <1>a, <1>b, <1>18 DEF l, b, r, Line

\* What is interpolated between multiples of m len is one of m.
LEMMA BetweenWhole ==
  ASSUME NEW len \in Nat \ {0}, NEW m \in Int, NEW k, k = m * len, NEW a, NEW b,
         Multiple(k, a), Multiple(k, b), NEW d \in 0 .. len - 1
  PROVE  Multiple(m, Between(len, a, b, d))
<1>1. PICK i \in Int : a = k * i
  BY DEF Multiple
<1>2. PICK j \in Int : b = k * j
  BY DEF Multiple
<1> DEFINE v == m * i
           w == m * j
           e == len - d
           n == i * e + j * d
<1>3. a = len * v /\ b = len * w /\ v \in Int /\ w \in Int
  BY <1>1, <1>2
<1> HIDE DEF v, w
<1>4. (len * v) \div len = v /\ (len * w) \div len = w
  BY <1>3, Exact
<1>5. Between(len, a, b, d) = v * e + w * d
  BY <1>3, <1>4 DEF Between
<1>6. e \in Int /\ d \in Int
  OBVIOUS
<1> HIDE DEF e
<1>7. (m * i) * e = m * (i * e) /\ (m * j) * d = m * (j * d) /\ i * e \in Int /\ j * d \in Int
  BY <1>6
<1>8. n \in Int /\ v * e + w * d = m * n
  <2> DEFINE f == i * e
             g == j * d
  <2> HIDE DEF f, g
  <2>1. f \in Int /\ g \in Int
    BY <1>7 DEF f, g
  <2>2. m * f + m * g = m * (f + g)
    BY <2>1
  <2> QED
    BY <1>7, <2>1, <2>2 DEF v, w, f, g
<1> HIDE DEF n
<1> QED
  BY <1>5, <1>8 DEF Multiple

\* Between four multiples of 2 len len, the interpolation yields whole heights, along the
\* rows first, and what it yields is even and so never reads as missing.
LEMMA FetchWhole ==
  ASSUME NEW I, NEW x \in Int, NEW y \in Int, NEW k \in {0, 1}, CornersShown(I, x, y, k),
         NEW len, len = grid_len(k), NEW d, d = Side - y,
         \A cell \in CornerCells(x, y, len) : Multiple(2 * len * len, I[cell])
  PROVE  /\ Multiple(2 * len, AlongRow(I, len, d \div len, x))
         /\ Multiple(2 * len, AlongRow(I, len, Ceil(d, len), x))
         /\ fetch_I(I, x, y, k) \in Int /\ fetch_I(I, x, y, k) # T_INVALID
<1> DEFINE left == x \div len
           right == Ceil(x, len)
           top == d \div len
           bottom == Ceil(d, len)
           m == 2 * len
           n == 2 * len * len
<1>1. len \in Nat \ {0} /\ d \in Int
  BY GridLen, Sizes
<1>2. m \in Int /\ n = m * len /\ m = 2 * len
  BY <1>1
<1>3. \A row \in {top, bottom}, col \in {left, right} : Multiple(n, I[<<row, col>>])
  BY DEF CornerCells
<1> HIDE DEF m, n
<1>4. fetch_I(I, x, y, k) = Fetched(I, len, x, d)
  BY FetchCases
<1> DEFINE rx == x % len
           rd == d % len
<1>5. rx \in 0 .. len - 1 /\ rd \in 0 .. len - 1
  BY <1>1, Quotient
<1> HIDE DEF rx, rd
<1>6. ASSUME NEW row \in {top, bottom} PROVE Multiple(m, AlongRow(I, len, row, x))
  <2> DEFINE a == I[<<row, left>>]
             b == I[<<row, right>>]
  <2>1. Multiple(n, a) /\ Multiple(n, b)
    BY <1>3
  <2>2. AlongRow(I, len, row, x) = Between(len, a, b, rx)
    BY DEF AlongRow, rx
  <2> HIDE DEF a, b
  <2>3. Multiple(m, Between(len, a, b, rx))
    BY ONLY <1>1, <1>2, <1>5, <2>1, BetweenWhole
  <2> QED
    BY <2>2, <2>3
<1> DEFINE a == AlongRow(I, len, top, x)
           b == AlongRow(I, len, bottom, x)
<1>7. Multiple(m, a) /\ Multiple(m, b)
  BY <1>6
<1>8. Multiple(2, Fetched(I, len, x, d))
  <2>1. Fetched(I, len, x, d) = Between(len, a, b, rd)
    BY DEF Fetched, rd
  <2> HIDE DEF a, b
  <2>2. 2 \in Int /\ m = 2 * len
    BY <1>2
  <2>3. Multiple(2, Between(len, a, b, rd))
    BY ONLY <1>1, <1>5, <1>7, <2>2, BetweenWhole
  <2> QED
    BY <2>1, <2>3
<1>9. \A z \in Int : 2 * z \in Int /\ 2 * z # T_INVALID
  BY DEF T_INVALID
<1>10. fetch_I(I, x, y, k) \in Int /\ fetch_I(I, x, y, k) # T_INVALID
  BY <1>4, <1>8, <1>9 DEF Multiple
<1> QED
  BY <1>7, <1>10 DEF m

\* Heights along a row.
LEMMA RowHeight ==
  ASSUME NEW c \in Surface, NEW y \in Int, NEW t \in Int
  PROVE  /\ PlaneHeight(c, 0, y) \in Int /\ Unit * c.x \in Int
         /\ PlaneHeight(c, t, y) = Line(PlaneHeight(c, 0, y), Unit * c.x, t)
<1>1. Unit \in Int /\ c.x \in Int /\ c.y \in Int /\ 0 \in Int
  BY Sizes DEF Surface
<1>2. /\ PlaneHeight(c, 0, y) \in Int /\ PlaneHeight(c, t, y) \in Int
      /\ PlaneHeight(c, t, y) - PlaneHeight(c, 0, y) = Unit * (c.x * (t - 0) + c.y * (y - y))
  BY <1>1, PlaneSlope
<1>3. Unit * (c.x * (t - 0) + c.y * (y - y)) = (Unit * c.x) * t
  <2>1. c.y * (y - y) = 0 /\ c.x * (t - 0) = c.x * t /\ c.x * t \in Int
    BY <1>1
  <2>2. Unit * (c.x * t) = (Unit * c.x) * t
    BY <1>1
  <2> QED
    BY <2>1, <2>2
<1> DEFINE a == (Unit * c.x) * t
           f == PlaneHeight(c, 0, y)
           g == PlaneHeight(c, t, y)
<1>4. g - f = a /\ a \in Int /\ f \in Int /\ g \in Int /\ Unit * c.x \in Int
  BY <1>1, <1>2, <1>3
<1> HIDE DEF a, f, g
<1>5. g = f + a
  BY <1>4
<1> QED
  BY <1>4, <1>5 DEF a, f, g, Line

\* Heights along a column, which counts from above.
LEMMA ColumnHeight ==
  ASSUME NEW c \in Surface, NEW x \in Int, NEW t \in Int
  PROVE  /\ PlaneHeight(c, x, Side) \in Int /\ -(Unit * c.y) \in Int
         /\ PlaneHeight(c, x, Side - t) = Line(PlaneHeight(c, x, Side), -(Unit * c.y), t)
<1>1. Unit \in Int /\ Side \in Int /\ c.x \in Int /\ c.y \in Int
  BY Sizes DEF Surface
<1> DEFINE o == Side - t
<1>2. o \in Int /\ o - Side = -t
  BY <1>1
<1> HIDE DEF o
<1>3. /\ PlaneHeight(c, x, Side) \in Int /\ PlaneHeight(c, x, o) \in Int
      /\ PlaneHeight(c, x, o) - PlaneHeight(c, x, Side) = Unit * (c.x * (x - x) + c.y * (o - Side))
  BY <1>1, <1>2, PlaneSlope
<1>4. Unit * (c.x * (x - x) + c.y * (o - Side)) = (-(Unit * c.y)) * t
  <2>1. c.x * (x - x) = 0 /\ c.y * (-t) = -(c.y * t) /\ c.y * t \in Int
    BY <1>1
  <2>2. Unit * (-(c.y * t)) = (-(Unit * c.y)) * t
    BY <1>1
  <2> QED
    BY <1>2, <2>1, <2>2
<1> DEFINE b == (-(Unit * c.y)) * t
           h == PlaneHeight(c, x, Side)
           i == PlaneHeight(c, x, o)
<1>5. i - h = b /\ b \in Int /\ h \in Int /\ i \in Int /\ -(Unit * c.y) \in Int
  BY <1>1, <1>3, <1>4
<1> HIDE DEF b, h, i
<1>6. i = h + b
  BY <1>5
<1> QED
  BY <1>5, <1>6 DEF b, h, i, o, Line

\* The finest image yields the height of the surface up to the error of the table where
\* it shows all corners, and there it yields one.
LEMMA FineHeight ==
  ASSUME NEW c \in Surface, NEW cells \in SUBSET Cells(0), NEW p \in Probe
  PROVE  LET J == calculate_I(c, cells)
             f == fetch_I(J, p[1], p[2], 0)
             shown == InFrame(p[1], p[2]) /\ CornerCells(p[1], p[2], CellWidth) \subseteq cells
         IN  /\ CornersShown(J, p[1], p[2], 0) <=> shown
             /\ shown => /\ f \in Int /\ f # T_INVALID
                         /\ HalfOff(TableError(c), PlaneHeight(c, p[1], p[2]), f)
<1> DEFINE J == calculate_I(c, cells)
           w == CellWidth
           x == p[1]
           y == p[2]
           d == Side - y
           X == {x \div w, Ceil(x, w)}
           D == {d \div w, Ceil(d, w)}
           shown == InFrame(x, y) /\ CornerCells(x, y, w) \subseteq cells
           E == TableError(c)
<1>1. x \in Int /\ y \in Int /\ d \in Int /\ Side \in Int /\ w \in Nat \ {0} /\ grid_len(0) = w
      /\ E \in Int
  BY Sizes, ErrorUnits DEF Probe, grid_len
<1>2. \A cell \in Cells(0) : cell \in cells <=> J[cell] # T_INVALID
  BY FineCells
<1>3. InFrame(x, y) => CornerCells(x, y, w) \subseteq Cells(0)
  BY CornersAround
<1>4. CornersShown(J, x, y, 0) <=> shown
  BY <1>1, <1>2, <1>3 DEF CornersShown
<1>5. ASSUME shown
      PROVE  /\ fetch_I(J, x, y, 0) \in Int /\ fetch_I(J, x, y, 0) # T_INVALID
             /\ HalfOff(TableError(c), PlaneHeight(c, x, y), fetch_I(J, x, y, 0))
  <2>1. CornersShown(J, x, y, 0) /\ fetch_I(J, x, y, 0) = Fetched(J, w, x, d)
    <3> HIDE DEF J, shown
    <3> QED
      BY <1>1, <1>4, <1>5, FetchCases
  <2>2. x \div w \in Int /\ Ceil(x, w) \in Int /\ d \div w \in Int /\ Ceil(d, w) \in Int
    <3> HIDE DEF x, d, w
    <3> QED
      BY <1>1, Quotient, CeilNear
  <2>3. ASSUME NEW row \in D, NEW col \in X
        PROVE  /\ Multiple(2 * w * w, J[<<row, col>>])
               /\ HalfOff(TableError(c), PlaneHeight(c, col * w, Side - row * w), J[<<row, col>>])
    <3> DEFINE cell == <<row, col>>
               at == PositionOf(cell)
               u == ReadOf(cell)
    <3>1. cell \in cells /\ cell[1] = row /\ cell[2] = col
      BY <1>5 DEF CornerCells
    <3>2. at = <<col * w, Side - row * w>>
      BY <3>1 DEF PositionOf
    <3> HIDE DEF cell, J
    <3>3. J[cell] = PlaneHeight(c, u[1], u[2]) /\ u[1] \in Int /\ u[2] \in Int
      BY <3>1, FineCells DEF J
    <3>4. at[1] = col * w /\ at[2] = Side - row * w
      BY <3>2
    <3>5. at[1] \in 0 .. Side /\ at[2] \in 0 .. Side
      BY <3>1, CellPosition
    <3>6. HalfOff(TableError(c), PlaneHeight(c, at[1], at[2]), J[cell])
      <4> DEFINE a == at[1]
                 b == at[2]
      <4>1. a \in 0 .. Side /\ b \in 0 .. Side /\ u = ReadAt(a, b)
        BY <3>5 DEF ReadOf
      <4> HIDE DEF a, b, u, at
      <4>2. HalfOff(TableError(c), PlaneHeight(c, a, b), PlaneHeight(c, u[1], u[2]))
        BY <4>1, TableWithin DEF HalfOff
      <4> QED
        BY <3>3, <4>2 DEF a, b
    <3>7. Multiple(2 * w * w, J[cell])
      <4>1. PICK m \in Nat \ {0} : Unit = (2 * w * w) * m
        BY Whole
      <4> DEFINE r == Raw(c, u[1], u[2])
                 k == 2 * w * w
      <4> HIDE DEF u
      <4>2. r \in Int /\ J[cell] = Unit * r
        BY <3>3, HeightKnown
      <4> HIDE DEF r, k
      <4>3. k \in Int /\ Unit = k * m
        BY <1>1, <4>1 DEF k
      <4>4. J[cell] = k * (m * r) /\ m * r \in Int
        BY <4>2, <4>3
      <4> QED
        BY <4>4 DEF Multiple, k
    <3> QED
      BY <3>4, <3>6, <3>7 DEF cell
  <2>4. /\ Multiple(2 * w, AlongRow(J, w, d \div w, x))
        /\ Multiple(2 * w, AlongRow(J, w, Ceil(d, w), x))
        /\ fetch_I(J, x, y, 0) \in Int /\ fetch_I(J, x, y, 0) # T_INVALID
    <3>1. CornerCells(x, y, w) = D \X X
      BY DEF CornerCells
    <3>2. CornersShown(J, x, y, 0) /\ d = Side - y
      BY <2>1
    <3> HIDE DEF J, D, X, x, y, w, d
    <3>3. \A cell \in CornerCells(x, y, w) : Multiple(2 * w * w, J[cell])
      BY <2>3, <3>1
    <3> QED
      BY <1>1, <3>2, <3>3, FetchWhole, 0 \in {0, 1}
  <2>5. ASSUME NEW row \in D
        PROVE  HalfOff(E, PlaneHeight(c, x, Side - row * w), AlongRow(J, w, row, x))
    <3> DEFINE z == Side - row * w
               h == PlaneHeight(c, 0, z)
               g == Unit * c.x
               a == J[<<row, x \div w>>]
               b == J[<<row, Ceil(x, w)>>]
    <3>1. z \in Int
      BY <1>1, <2>2
    <3>2. Multiple(w, a) /\ Multiple(w, b)
      <4>1. Multiple(2 * w * w, a) /\ Multiple(2 * w * w, b)
        BY <2>3
      <4> HIDE DEF a, b, w
      <4>2. \A n \in Int : (2 * w * w) * n = w * ((2 * w) * n) /\ (2 * w) * n \in Int
        BY <1>1
      <4> QED
        BY <4>1, <4>2 DEF Multiple
    <3>3. HalfOff(E, PlaneHeight(c, PlaceBefore(w, x), z), a) /\ HalfOff(E, PlaneHeight(c, PlaceBehind(w, x), z), b)
      BY <2>3 DEF PlaceBefore, PlaceBehind
    <3>4. PlaceBefore(w, x) \in Int /\ PlaceBehind(w, x) \in Int
      BY <1>1, <2>2 DEF PlaceBefore, PlaceBehind
    <3>5. AlongRow(J, w, row, x) = Between(w, a, b, x % w)
      BY DEF AlongRow
    <3> HIDE DEF z, E
    <3>6. /\ h \in Int /\ g \in Int
          /\ \A t \in Int : PlaneHeight(c, t, z) = Line(h, g, t)
      BY <3>1, RowHeight, 0 \in Int
    <3> HIDE DEF J, w, x, a, b, h, g
    <3>7. /\ HalfOff(E, Line(h, g, PlaceBefore(w, x)), a) /\ HalfOff(E, Line(h, g, PlaceBehind(w, x)), b)
          /\ PlaneHeight(c, x, z) = Line(h, g, x)
      BY <1>1, <3>3, <3>4, <3>6
    <3>8. HalfOff(E, Line(h, g, x), Between(w, a, b, x % w))
      BY ONLY <1>1, <3>2, <3>6, <3>7, BetweenNear
    <3> QED
      BY <3>5, <3>7, <3>8 DEF z
  <2>6. HalfOff(E, PlaneHeight(c, x, Side - d), Fetched(J, w, x, d))
    <3> DEFINE h == PlaneHeight(c, x, Side)
               g == -(Unit * c.y)
               a == AlongRow(J, w, d \div w, x)
               b == AlongRow(J, w, Ceil(d, w), x)
    <3>1. Multiple(w, a) /\ Multiple(w, b)
      <4>1. Multiple(2 * w, a) /\ Multiple(2 * w, b)
        BY <2>4
      <4> HIDE DEF a, b, w
      <4>2. \A n \in Int : (2 * w) * n = w * (2 * n) /\ 2 * n \in Int
        BY <1>1
      <4> QED
        BY <4>1, <4>2 DEF Multiple
    <3>2. /\ HalfOff(E, PlaneHeight(c, x, Side - PlaceBefore(w, d)), a)
          /\ HalfOff(E, PlaneHeight(c, x, Side - PlaceBehind(w, d)), b)
      BY <2>5 DEF PlaceBefore, PlaceBehind
    <3>3. PlaceBefore(w, d) \in Int /\ PlaceBehind(w, d) \in Int
      BY <1>1, <2>2 DEF PlaceBefore, PlaceBehind
    <3>4. Fetched(J, w, x, d) = Between(w, a, b, d % w)
      BY DEF Fetched
    <3> HIDE DEF J, w, x, d, a, b, E
    <3>5. /\ h \in Int /\ g \in Int
          /\ \A t \in Int : PlaneHeight(c, x, Side - t) = Line(h, g, t)
      BY <1>1, ColumnHeight, 0 \in Int
    <3> HIDE DEF h, g
    <3>6. /\ HalfOff(E, Line(h, g, PlaceBefore(w, d)), a) /\ HalfOff(E, Line(h, g, PlaceBehind(w, d)), b)
          /\ PlaneHeight(c, x, Side - d) = Line(h, g, d)
      BY <1>1, <3>2, <3>3, <3>5
    <3>7. HalfOff(E, Line(h, g, d), Between(w, a, b, d % w))
      BY ONLY <1>1, <3>1, <3>5, <3>6, BetweenNear
    <3> QED
      BY <3>4, <3>6, <3>7
  <2>7. Side - d = y
    BY <1>1
  <2> HIDE DEF J, d, x, y, w
  <2> QED
    BY <2>1, <2>4, <2>6, <2>7
<1> QED
  BY <1>4, <1>5

-----------------------------------------------------------------------------
(* The gradients                                                           *)

AxisName(i) == IF i = 1 THEN "x" ELSE "y"
Slope(c, i) == IF i = 1 THEN c.x ELSE c.y
NextCell(cell, i) == IF i = 1 THEN <<cell[1], cell[2] + 1>> ELSE <<cell[1] - 1, cell[2]>>
PrevCell(cell, i) == IF i = 1 THEN <<cell[1], cell[2] - 1>> ELSE <<cell[1] + 1, cell[2]>>

\* Whether the gradient at a cell is known.
Inner(I, cell, i, k) ==
  /\ {PrevCell(cell, i), NextCell(cell, i)} \subseteq Cells(k)
  /\ \A near \in {PrevCell(cell, i), cell, NextCell(cell, i)} : I[near] # T_INVALID

\* A gradient is the difference of the neighbours, if all three cells are known.
LEMMA GradientCases ==
  ASSUME NEW I, NEW i \in {1, 2}, NEW k \in {0, 1}, NEW cell \in Cells(k)
  PROVE  /\ Inner(I, cell, i, k) =>
              eigen_central_gradient(I, AxisName(i), k)[cell] =
                (I[NextCell(cell, i)] - I[PrevCell(cell, i)]) \div (2 * grid_len(k))
         /\ ~Inner(I, cell, i, k) => eigen_central_gradient(I, AxisName(i), k)[cell] = T_INVALID
<1>1. cell[1] \in Int /\ cell[2] \in Int
  <2>1. ImageSize(k) \in Int
    <3>1. (minimum_img_rso + 1) \div 2 \in Int
      BY Sizes
    <3> QED
      BY <3>1, Sizes DEF ImageSize
  <2> DEFINE n == ImageSize(k)
  <2> HIDE DEF n
  <2>2. cell \in (0 .. n - 1) \X (0 .. n - 1)
    BY DEF Cells, n
  <2>3. n \in Int
    BY <2>1 DEF n
  <2> QED
    BY <2>2, <2>3
<1> DEFINE o == Forward(AxisName(i))
<1>2. <<cell[1] + o[1], cell[2] + o[2]>> = NextCell(cell, i)
  <2>1. CASE i = 1
    <3>1. o[1] = 0 /\ o[2] = 1 /\ NextCell(cell, i) = <<cell[1], cell[2] + 1>>
      BY <2>1 DEF AxisName, Forward, NextCell
    <3> QED
      BY <1>1, <3>1
  <2>2. CASE i = 2
    <3>1. o[1] = -1 /\ o[2] = 0 /\ NextCell(cell, i) = <<cell[1] - 1, cell[2]>>
      BY <2>2 DEF AxisName, Forward, NextCell
    <3> QED
      BY <1>1, <3>1
  <2> QED
    BY <2>1, <2>2
<1>3. <<cell[1] - o[1], cell[2] - o[2]>> = PrevCell(cell, i)
  <2>1. CASE i = 1
    <3>1. o[1] = 0 /\ o[2] = 1 /\ PrevCell(cell, i) = <<cell[1], cell[2] - 1>>
      BY <2>1 DEF AxisName, Forward, PrevCell
    <3> QED
      BY <1>1, <3>1
  <2>2. CASE i = 2
    <3>1. o[1] = -1 /\ o[2] = 0 /\ PrevCell(cell, i) = <<cell[1] + 1, cell[2]>>
      BY <2>2 DEF AxisName, Forward, PrevCell
    <3> QED
      BY <1>1, <3>1
  <2> QED
    BY <2>1, <2>2
<1>4. eigen_central_gradient(I, AxisName(i), k)[cell] =
        IF Inner(I, cell, i, k)
        THEN (I[NextCell(cell, i)] - I[PrevCell(cell, i)]) \div (2 * grid_len(k))
        ELSE T_INVALID
  BY <1>2, <1>3 DEF eigen_central_gradient, Inner
<1> QED
  BY <1>4

\* Forward along an axis, a cell lies one width further, and as far along the other.
LEMMA CellAhead ==
  ASSUME NEW i \in {1, 2}, NEW cell \in Int \X Int
  PROVE  /\ NextCell(cell, i) \in Int \X Int /\ PrevCell(cell, i) \in Int \X Int
         /\ PositionOf(cell)[1] \in Int /\ PositionOf(cell)[2] \in Int
         /\ PositionOf(NextCell(cell, i))[i] = PositionOf(cell)[i] + CellWidth
         /\ PositionOf(PrevCell(cell, i))[i] = PositionOf(cell)[i] - CellWidth
         /\ PositionOf(NextCell(cell, i))[3 - i] = PositionOf(cell)[3 - i]
         /\ PositionOf(PrevCell(cell, i))[3 - i] = PositionOf(cell)[3 - i]
<1> DEFINE w == CellWidth
           a == cell[1]
           b == cell[2]
<1>1. w \in Nat \ {0} /\ Side \in Int /\ a \in Int /\ b \in Int
  BY Sizes
<1>2. \A j \in Int \X Int : PositionOf(j) = <<j[2] * w, Side - j[1] * w>>
  BY DEF PositionOf
<1> HIDE DEF w
<1>3. /\ b * w \in Int /\ a * w \in Int
      /\ (b + 1) * w = b * w + w /\ (b - 1) * w = b * w - w
      /\ (a + 1) * w = a * w + w /\ (a - 1) * w = a * w - w
  BY <1>1
<1>4. CASE i = 1
  <2>1. NextCell(cell, i) = <<a, b + 1>> /\ PrevCell(cell, i) = <<a, b - 1>> /\ 3 - i = 2
    BY <1>4 DEF NextCell, PrevCell
  <2>2. /\ PositionOf(cell) = <<b * w, Side - a * w>>
        /\ PositionOf(NextCell(cell, i)) = <<b * w + w, Side - a * w>>
        /\ PositionOf(PrevCell(cell, i)) = <<b * w - w, Side - a * w>>
    BY <1>1, <1>2, <1>3, <2>1
  <2> HIDE DEF a, b
  <2> QED
    BY <1>1, <1>3, <1>4, <2>1, <2>2 DEF w
<1>5. CASE i = 2
  <2>1. NextCell(cell, i) = <<a - 1, b>> /\ PrevCell(cell, i) = <<a + 1, b>> /\ 3 - i = 1
    BY <1>5 DEF NextCell, PrevCell
  <2>2. /\ PositionOf(cell) = <<b * w, Side - a * w>>
        /\ PositionOf(NextCell(cell, i)) = <<b * w, Side - (a * w - w)>>
        /\ PositionOf(PrevCell(cell, i)) = <<b * w, Side - (a * w + w)>>
    BY <1>1, <1>2, <1>3, <2>1
  <2> HIDE DEF a, b
  <2> QED
    BY <1>1, <1>3, <1>5, <2>1, <2>2 DEF w
<1> QED
  BY <1>4, <1>5

\* What a level yields exceeds no multiple of the distance of its cells that none of
\* the corners exceeds.
LEMMA FetchBetween ==
  ASSUME NEW I, NEW x \in Int, NEW y \in Int, NEW k \in {0, 1}, CornersShown(I, x, y, k),
         \A cell \in CornerCells(x, y, grid_len(k)) : I[cell] \in Int
  PROVE  /\ fetch_I(I, x, y, k) \in Int
         /\ \A l \in Int :
              /\ (\A cell \in CornerCells(x, y, grid_len(k)) : I[cell] >= grid_len(k) * l)
                   => fetch_I(I, x, y, k) >= grid_len(k) * l
              /\ (\A cell \in CornerCells(x, y, grid_len(k)) : I[cell] <= grid_len(k) * l)
                   => fetch_I(I, x, y, k) <= grid_len(k) * l
<1> DEFINE len == grid_len(k)
           d == Side - y
           left == x \div len
           right == Ceil(x, len)
           top == d \div len
           bottom == Ceil(d, len)
           rx == x % len
           rd == d % len
           C == CornerCells(x, y, len)
<1>1. len \in Nat \ {0} /\ d \in Int
  BY GridLen, Sizes
<1>2. C = {top, bottom} \X {left, right}
  BY DEF CornerCells
<1>3. fetch_I(I, x, y, k) = Fetched(I, len, x, d)
  BY FetchCases
<1> DEFINE R(row) == AlongRow(I, len, row, x)
<1>4. R(top) = Between(len, I[<<top, left>>], I[<<top, right>>], rx)
      /\ R(bottom) = Between(len, I[<<bottom, left>>], I[<<bottom, right>>], rx)
  BY DEF AlongRow
<1>5. Fetched(I, len, x, d) = Between(len, R(top), R(bottom), rd)
  BY DEF Fetched
<1>6. \A cell \in C : I[cell] \in Int
  OBVIOUS
<1> HIDE DEF len
<1>7. rx \in 0 .. len - 1 /\ rd \in 0 .. len - 1
  <2> HIDE DEF d
  <2> QED
    BY <1>1, Quotient
<1> HIDE DEF d, left, right, top, bottom, rx, rd, C
<1> DEFINE tl == I[<<top, left>>]
           tr == I[<<top, right>>]
           bl == I[<<bottom, left>>]
           br == I[<<bottom, right>>]
<1>8. <<top, left>> \in C /\ <<top, right>> \in C /\ <<bottom, left>> \in C /\ <<bottom, right>> \in C
  BY <1>2
<1>9. tl \in Int /\ tr \in Int /\ bl \in Int /\ br \in Int
  BY <1>6, <1>8
<1> DEFINE rt == R(top)
           rb == R(bottom)
<1>10. rt = Between(len, tl, tr, rx) /\ rb = Between(len, bl, br, rx)
  BY <1>4
<1> DEFINE f == fetch_I(I, x, y, k)
<1>11. f = Between(len, rt, rb, rd)
  BY <1>3, <1>5
<1> HIDE DEF tl, tr, bl, br, rt, rb, R, f
<1>12. /\ rt \in Int
       /\ \A l \in Int : tl >= len * l /\ tr >= len * l => rt >= len * l
       /\ \A l \in Int : tl <= len * l /\ tr <= len * l => rt <= len * l
  BY ONLY <1>1, <1>7, <1>9, <1>10, BetweenBoth
<1>13. /\ rb \in Int
       /\ \A l \in Int : bl >= len * l /\ br >= len * l => rb >= len * l
       /\ \A l \in Int : bl <= len * l /\ br <= len * l => rb <= len * l
  BY ONLY <1>1, <1>7, <1>9, <1>10, BetweenBoth
<1>14. /\ f \in Int
       /\ \A l \in Int : rt >= len * l /\ rb >= len * l => f >= len * l
       /\ \A l \in Int : rt <= len * l /\ rb <= len * l => f <= len * l
  BY ONLY <1>1, <1>7, <1>11, <1>12, <1>13, BetweenBoth
<1>15. ASSUME NEW l \in Int, \A cell \in C : I[cell] >= len * l
       PROVE  f >= len * l
  <2>1. tl >= len * l /\ tr >= len * l /\ bl >= len * l /\ br >= len * l
    BY <1>8, <1>15 DEF tl, tr, bl, br
  <2> QED
    BY <1>12, <1>13, <1>14, <2>1
<1>16. ASSUME NEW l \in Int, \A cell \in C : I[cell] <= len * l
       PROVE  f <= len * l
  <2>1. tl <= len * l /\ tr <= len * l /\ bl <= len * l /\ br <= len * l
    BY <1>8, <1>16 DEF tl, tr, bl, br
  <2> QED
    BY <1>12, <1>13, <1>14, <2>1
<1> QED
  BY <1>14, <1>15, <1>16 DEF f, C, len

\* The neighbours of a cell within the frame.
LEMMA AheadInside ==
  ASSUME NEW i \in {1, 2}, NEW cell \in Cells(0)
  PROVE  /\ PositionOf(cell)[i] < Side => NextCell(cell, i) \in Cells(0)
         /\ 0 < PositionOf(cell)[i] => PrevCell(cell, i) \in Cells(0)
<1> DEFINE w == CellWidth
           n == minimum_img_rso - 1
           a == cell[1]
           b == cell[2]
<1>1. w \in Nat \ {0} /\ n \in Nat /\ Side = n * w /\ a \in 0 .. n /\ b \in 0 .. n
      /\ PositionOf(cell)[1] = b * w /\ PositionOf(cell)[2] = (n - a) * w
  <2>1. w * n = n * w
    BY Sizes
  <2> QED
    BY <2>1, Sizes, CellPosition
<1>2. Cells(0) = (0 .. n) \X (0 .. n)
  BY DEF Cells, ImageSize
<1> HIDE DEF w, n, a, b
<1>3. 0 * w = 0
  BY <1>1
<1>4. CASE i = 1
  <2>1. ASSUME b * w < n * w PROVE b < n
    <3>1. n * w > b * w
      BY <1>1, <2>1
    <3> QED
      BY <1>1, <3>1, Cancels
  <2>2. ASSUME 0 < b * w PROVE 0 < b
    <3>1. b * w > 0 * w
      BY <1>1, <1>3, <2>2
    <3> QED
      BY <1>1, <3>1, Cancels
  <2>3. b < n => b + 1 \in 0 .. n
    BY <1>1
  <2>4. 0 < b => b - 1 \in 0 .. n
    BY <1>1
  <2>5. NextCell(cell, i) = <<a, b + 1>> /\ PrevCell(cell, i) = <<a, b - 1>>
    BY <1>4 DEF NextCell, PrevCell, a, b
  <2> QED
    BY <1>1, <1>2, <1>4, <2>1, <2>2, <2>3, <2>4, <2>5
<1>5. CASE i = 2
  <2> DEFINE e == n - a
  <2>1. e \in Int
    BY <1>1
  <2> HIDE DEF e
  <2>2. ASSUME e * w < n * w PROVE e < n
    <3>1. n * w > e * w
      BY <1>1, <2>1, <2>2
    <3> QED
      BY <1>1, <2>1, <3>1, Cancels
  <2>3. ASSUME 0 < e * w PROVE 0 < e
    <3>1. e * w > 0 * w
      BY <1>1, <1>3, <2>1, <2>3
    <3> QED
      BY <1>1, <2>1, <3>1, Cancels
  <2>4. (e < n => a - 1 \in 0 .. n) /\ (0 < e => a + 1 \in 0 .. n)
    BY <1>1 DEF e
  <2>5. NextCell(cell, i) = <<a - 1, b>> /\ PrevCell(cell, i) = <<a + 1, b>>
    BY <1>5 DEF NextCell, PrevCell, a, b
  <2>6. PositionOf(cell)[i] = e * w
    BY <1>1, <1>5 DEF e
  <2> QED
    BY <1>1, <1>2, <2>2, <2>3, <2>4, <2>5, <2>6
<1> QED
  BY <1>4, <1>5

\* The slope of a surface is a whole number of units, too.
LEMMA SlopeKnown ==
  ASSUME NEW c \in Surface, NEW i \in {1, 2}
  PROVE  /\ Slope(c, i) \in Int /\ Unit * Slope(c, i) \in Int
         /\ Unit * Slope(c, i) # T_INVALID /\ Slopes(c)[i] = Unit * Slope(c, i)
<1> DEFINE s == Slope(c, i)
<1>1. s \in Int
  BY DEF Slope, Surface
<1>2. Slopes(c)[i] = Unit * s
  BY DEF Slopes, Slope
<1> HIDE DEF s
<1>3. PICK m \in Nat \ {0} : Unit = 2 * m
  BY Whole
<1>4. m * s \in Int /\ Unit * s = 2 * (m * s)
  BY <1>1, <1>3
<1> DEFINE k == m * s
<1> HIDE DEF k
<1>5. k \in Int /\ Unit * s = 2 * k
  BY <1>4 DEF k
<1>6. 2 * k # T_INVALID /\ 2 * k \in Int
  BY <1>5 DEF T_INVALID
<1> QED
  BY <1>1, <1>2, <1>5, <1>6 DEF s

\* How far apart the table is read for the neighbours of a cell, along an axis: two cells
\* and at most a step more or less.  Across it, it is read alike.
LEMMA ReadAcross ==
  ASSUME NEW i \in {1, 2}, NEW cell \in Cells(0), NextCell(cell, i) \in Cells(0),
         PrevCell(cell, i) \in Cells(0)
  PROVE  LET u == ReadOf(NextCell(cell, i))
             v == ReadOf(PrevCell(cell, i))
         IN  /\ u[i] \in Int /\ v[i] \in Int /\ u[3 - i] = v[3 - i]
             /\ -TableStep(i) <= (u[i] - v[i]) - 2 * CellWidth
             /\ (u[i] - v[i]) - 2 * CellWidth <= TableStep(i)
<1> DEFINE next == NextCell(cell, i)
           prev == PrevCell(cell, i)
           a == PositionOf(next)[i]
           b == PositionOf(prev)[i]
           at == PositionOf(cell)[i]
           o == 3 - i
           s == TableStep(i)
<1>1. cell \in Int \X Int
  <2>1. \A j \in 0 .. minimum_img_rso - 1 : j \in Int
    BY Sizes
  <2> QED
    BY <2>1 DEF Cells, ImageSize
<1>2. a = at + CellWidth /\ b = at - CellWidth /\ at \in Int
  <2>1. a = at + CellWidth /\ b = at - CellWidth
    BY <1>1, CellAhead
  <2>2. PositionOf(cell)[1] \in Int /\ PositionOf(cell)[2] \in Int
    BY <1>1, CellAhead
  <2> QED
    BY <2>1, <2>2
<1>3. PositionOf(next)[o] = PositionOf(prev)[o] /\ o \in {1, 2}
  <2>1. PositionOf(next)[3 - i] = PositionOf(cell)[3 - i] /\ PositionOf(prev)[3 - i] = PositionOf(cell)[3 - i]
    BY <1>1, CellAhead
  <2> QED
    BY <2>1
<1> HIDE DEF next, prev, o
<1>4. /\ ReadOf(next)[i] = ReadAlong(i, a) /\ ReadOf(prev)[i] = ReadAlong(i, b)
      /\ a \in 0 .. Side /\ b \in 0 .. Side
  BY ReadOfCell DEF next, prev
<1>5. ReadOf(next)[o] = ReadOf(prev)[o]
  BY <1>3, ReadOfCell DEF next, prev
<1> HIDE DEF a, b, at
<1> DEFINE u == ReadAlong(i, a)
           v == ReadAlong(i, b)
<1>6. /\ s \in Nat /\ u \in Int /\ v \in Int
      /\ 2 * a - s <= 2 * u /\ 2 * u <= 2 * a + s
      /\ 2 * b - s <= 2 * v /\ 2 * v <= 2 * b + s
  BY <1>4, ReadNear
<1> HIDE DEF u, v, s
<1>7. -s <= (u - v) - 2 * CellWidth /\ (u - v) - 2 * CellWidth <= s
  BY <1>2, <1>6, Sizes
<1> QED
  BY <1>4, <1>5, <1>6, <1>7 DEF next, prev, o, s, u, v

\* The bounds of a slope, of which a step of the table is missed or added per two cells.
SlopeLow(c, i) == Slope(c, i) * (2 * CellWidth) - Magnitude(Slope(c, i)) * TableStep(i)
SlopeHigh(c, i) == Slope(c, i) * (2 * CellWidth) + Magnitude(Slope(c, i)) * TableStep(i)

\* A gradient of the finest image is a slope within these bounds or missing, and there
\* where the cell and its neighbours are.
LEMMA FineGradient ==
  ASSUME NEW c \in Surface, NEW cells \in SUBSET Cells(0), NEW i \in {1, 2}, NEW cell \in Cells(0),
         NEW m \in Nat \ {0}, Unit = (2 * CellWidth) * ((2 * CellWidth * CellWidth) * m)
  PROVE  LET G == eigen_central_gradient(calculate_I(c, cells), AxisName(i), 0)
         IN  /\ G[cell] # T_INVALID =>
                  \E k \in Int : /\ G[cell] = (2 * CellWidth * CellWidth) * (m * k)
                                 /\ SlopeLow(c, i) <= k /\ k <= SlopeHigh(c, i)
             /\ {PrevCell(cell, i), cell, NextCell(cell, i)} \subseteq cells => G[cell] # T_INVALID
<1> DEFINE I == calculate_I(c, cells)
           G == eigen_central_gradient(I, AxisName(i), 0)
           next == NextCell(cell, i)
           prev == PrevCell(cell, i)
           w == CellWidth
           n == 2 * w * w
           s == Slope(c, i)
           du == ReadOf(next)[i] - ReadOf(prev)[i]
           k == s * du
<1>1. \A q \in Cells(0) : q \in cells <=> I[q] # T_INVALID
  BY FineCells
<1>2. Inner(I, cell, i, 0) <=> {prev, cell, next} \subseteq cells
  <2> HIDE DEF I, next, prev
  <2> QED
    BY <1>1 DEF Inner, next, prev
<1>3. grid_len(0) = w /\ w \in Nat \ {0} /\ Unit = (2 * w) * (n * m)
  BY Sizes DEF grid_len
<1>4. ~Inner(I, cell, i, 0) => G[cell] = T_INVALID
  <2> HIDE DEF I
  <2> QED
    BY GradientCases
<1>5. Inner(I, cell, i, 0) => G[cell] = (I[next] - I[prev]) \div (2 * w)
  <2> HIDE DEF I
  <2> QED
    BY <1>3, GradientCases
<1>6. ASSUME {prev, cell, next} \subseteq cells
      PROVE  /\ (I[next] - I[prev]) \div (2 * w) = n * (m * k)
             /\ k \in Int /\ SlopeLow(c, i) <= k /\ k <= SlopeHigh(c, i)
             /\ n * (m * k) # T_INVALID
  <2> DEFINE nx == ReadOf(next)[1]
             ny == ReadOf(next)[2]
             px == ReadOf(prev)[1]
             py == ReadOf(prev)[2]
  <2>1. next \in Cells(0) /\ prev \in Cells(0) /\ next \in cells /\ prev \in cells
    BY <1>6
  <2>2. I[next] = PlaneHeight(c, nx, ny) /\ I[prev] = PlaneHeight(c, px, py)
        /\ nx \in Int /\ ny \in Int /\ px \in Int /\ py \in Int
    <3> HIDE DEF next, prev
    <3> QED
      BY <2>1, FineCells
  <2>3. c.x \in Int /\ c.y \in Int /\ Unit \in Int /\ s \in Int /\ TableStep(i) \in Nat
    BY Sizes, SlopeKnown, ReadNear DEF Surface
  <2>4. /\ ReadOf(next)[3 - i] = ReadOf(prev)[3 - i] /\ du \in Int
        /\ -TableStep(i) <= du - 2 * w /\ du - 2 * w <= TableStep(i)
    <3>1. /\ ReadOf(next)[i] \in Int /\ ReadOf(prev)[i] \in Int
          /\ ReadOf(next)[3 - i] = ReadOf(prev)[3 - i]
          /\ -TableStep(i) <= (ReadOf(next)[i] - ReadOf(prev)[i]) - 2 * w
          /\ (ReadOf(next)[i] - ReadOf(prev)[i]) - 2 * w <= TableStep(i)
      BY <2>1, ReadAcross
    <3> HIDE DEF next, prev
    <3> QED
      BY <3>1
  <2>5. I[next] - I[prev] = Unit * (c.x * (nx - px) + c.y * (ny - py))
    <3> HIDE DEF nx, ny, px, py, I, next, prev
    <3> QED
      BY <2>2, PlaneSlope
  <2>6. c.x * (nx - px) + c.y * (ny - py) = k /\ k \in Int
    <3>1. CASE i = 1
      <4>1. ny = py /\ nx - px = du /\ s = c.x
        BY <2>4, <3>1 DEF Slope
      <4> HIDE DEF nx, ny, px, py, du, s
      <4>2. c.y * (ny - py) = 0 /\ c.x * (nx - px) = s * du /\ s * du \in Int
        BY <2>2, <2>3, <2>4, <4>1
      <4> QED
        BY <4>2
    <3>2. CASE i = 2
      <4>1. nx = px /\ ny - py = du /\ s = c.y
        BY <2>4, <3>2 DEF Slope
      <4> HIDE DEF nx, ny, px, py, du, s
      <4>2. c.x * (nx - px) = 0 /\ c.y * (ny - py) = s * du /\ s * du \in Int
        BY <2>2, <2>3, <2>4, <4>1
      <4> QED
        BY <4>2
    <3> QED
      BY <3>1, <3>2
  <2>7. SlopeLow(c, i) <= k /\ k <= SlopeHigh(c, i)
    <3> DEFINE b == du - 2 * w
               t == TableStep(i)
               f == Magnitude(s) * t
    <3>1. b \in Int /\ t \in Nat /\ -t <= b /\ b <= t /\ du = 2 * w + b
      BY <1>3, <2>3, <2>4
    <3> HIDE DEF b, t, s, du
    <3>2. -f <= s * b /\ s * b <= f
      BY <2>3, <3>1, ProductBound
    <3>3. s * (2 * w + b) = s * (2 * w) + s * b /\ s * b \in Int /\ s * (2 * w) \in Int
      BY <1>3, <2>3, <3>1
    <3>4. f \in Int
      <4>1. Magnitude(s) \in Int
        BY <2>3, Magnitudes
      <4> QED
        BY <3>1, <4>1
    <3>5. SlopeLow(c, i) = s * (2 * w) - f /\ SlopeHigh(c, i) = s * (2 * w) + f
      BY DEF SlopeLow, SlopeHigh, s, t
    <3> HIDE DEF f
    <3> QED
      BY <3>1, <3>2, <3>3, <3>4, <3>5
  <2> HIDE DEF nx, ny, px, py, k, I, next, prev
  <2>8. I[next] - I[prev] = (2 * w) * (n * (m * k))
    <3> DEFINE b == 2 * w
    <3>1. b \in Int /\ n \in Int
      BY <1>3
    <3> HIDE DEF b, n
    <3>2. (b * (n * m)) * k = b * (n * (m * k))
      <4> DEFINE f == n * m
      <4>1. f \in Int /\ f * k = n * (m * k)
        BY <2>6, <3>1
      <4> HIDE DEF f
      <4>2. (b * f) * k = b * (f * k)
        BY <2>6, <3>1, <4>1
      <4> QED
        BY <4>1, <4>2 DEF f
    <3> QED
      BY <1>3, <2>5, <2>6, <3>2 DEF b
  <2>9. (I[next] - I[prev]) \div (2 * w) = n * (m * k)
    <3> DEFINE b == 2 * w
               v == n * (m * k)
    <3>1. b \in Nat \ {0} /\ v \in Int
      <4>1. n \in Int /\ m * k \in Int
        BY <1>3, <2>6
      <4> HIDE DEF n
      <4> QED
        BY <1>3, <4>1
    <3> HIDE DEF b, v
    <3>2. (b * v) \div b = v
      BY <3>1, Exact
    <3> QED
      BY <2>8, <3>2 DEF b, v
  <2>10. n * (m * k) # T_INVALID
    <3> DEFINE f == w * w
               j == m * k
               v == f * j
    <3>1. f \in Int /\ j \in Int /\ n = 2 * f
      BY <1>3, <2>6
    <3> HIDE DEF f, j, n
    <3>2. n * j = 2 * v /\ v \in Int
      BY <3>1
    <3> HIDE DEF v
    <3>3. 2 * v # T_INVALID
      BY <3>2 DEF T_INVALID
    <3> QED
      BY <3>2, <3>3 DEF j
  <2> QED
    BY <2>6, <2>7, <2>9, <2>10
<1> HIDE DEF I, G, next, prev, n, k
<1>7. G[cell] # T_INVALID => G[cell] = n * (m * k) /\ k \in Int /\ SlopeLow(c, i) <= k /\ k <= SlopeHigh(c, i)
  BY <1>2, <1>4, <1>5, <1>6
<1>8. {prev, cell, next} \subseteq cells => G[cell] # T_INVALID
  BY <1>2, <1>5, <1>6
<1> QED
  BY <1>7, <1>8 DEF I, G, next, prev, n

\* A value between the bounds of a slope, in units, is near the slope.
LEMMA BoundsNear ==
  ASSUME NEW c \in Surface, NEW i \in {1, 2}, NEW g \in Int,
         Unit * SlopeLow(c, i) <= (2 * CellWidth) * g, (2 * CellWidth) * g <= Unit * SlopeHigh(c, i)
  PROVE  NearSlope(c, i, g)
<1> DEFINE w == 2 * CellWidth
           s == Slope(c, i)
           t == TableStep(i)
           f == Magnitude(s) * t
           b == Unit * f
           v == g - Unit * s
<1>1. /\ w \in Nat \ {0} /\ s \in Int /\ t \in Nat /\ Unit \in Nat \ {0} /\ f \in Int
      /\ Slopes(c)[i] = Unit * s /\ Unit * s \in Int
  <2>1. s \in Int /\ t \in Nat
    BY SlopeKnown, ReadNear
  <2>2. Magnitude(s) \in Int
    BY <2>1, Magnitudes
  <2> QED
    BY <2>1, <2>2, SlopeKnown, Sizes
<1>2. SlopeLow(c, i) = s * w - f /\ SlopeHigh(c, i) = s * w + f
  BY DEF SlopeLow, SlopeHigh
<1>3. t * Magnitude(Unit * s) = b
  <2>1. Magnitude(Unit * s) = Unit * Magnitude(s)
    BY <1>1, UnitMagnitude
  <2> DEFINE a == Magnitude(s)
  <2>2. a \in Int
    BY <1>1, Magnitudes
  <2> HIDE DEF a, s, t
  <2>3. t * (Unit * a) = Unit * (a * t)
    BY <1>1, <2>2
  <2> QED
    BY <2>1, <2>3 DEF a
<1> HIDE DEF w, s, t, f
<1>4. -b <= w * v /\ w * v <= b /\ b \in Int /\ v \in Int
  <2>1. Unit * (s * w - f) = Unit * (s * w) - Unit * f /\ Unit * (s * w + f) = Unit * (s * w) + Unit * f
        /\ Unit * (s * w) \in Int /\ Unit * f \in Int
    <3> DEFINE a == s * w
    <3>1. a \in Int
      BY <1>1
    <3> HIDE DEF a
    <3>2. Unit * (a - f) = Unit * a - Unit * f /\ Unit * (a + f) = Unit * a + Unit * f
          /\ Unit * a \in Int /\ Unit * f \in Int
      BY <1>1, <3>1
    <3> QED
      BY <3>2 DEF a
  <2>2. w * v = w * g - Unit * (s * w) /\ w * g \in Int
    <3> DEFINE a == Unit * s
    <3>1. a \in Int
      BY <1>1
    <3>2. w * a = Unit * (s * w)
      BY <1>1
    <3> HIDE DEF a
    <3>3. w * (g - a) = w * g - w * a /\ w * g \in Int
      BY <1>1, <3>1
    <3> QED
      BY <3>2, <3>3 DEF a
  <2>3. Unit * (s * w - f) <= w * g /\ w * g <= Unit * (s * w + f)
    BY <1>2 DEF w
  <2>4. v \in Int
    BY <1>1
  <2> DEFINE x == w * v
             y == w * g
             z == Unit * (s * w)
  <2> HIDE DEF v, x, y, z
  <2>5. x = y - z /\ y \in Int /\ z \in Int /\ b \in Int /\ z - b <= y /\ y <= z + b
    BY <2>1, <2>2, <2>3 DEF x, y, z
  <2> HIDE DEF b
  <2>6. -b <= x /\ x <= b
    BY <2>5
  <2> QED
    BY <2>4, <2>5, <2>6 DEF x
<1> HIDE DEF b, v
<1>5. w * Magnitude(v) <= b
  <2>1. w * (-v) = -(w * v) /\ w * v \in Int
    BY <1>1, <1>4
  <2> DEFINE x == w * v
  <2>2. x \in Int /\ w * (-v) = -x /\ -b <= x /\ x <= b
    BY <1>4, <2>1
  <2>3. Magnitude(v) = v \/ Magnitude(v) = -v
    BY DEF Magnitude
  <2> HIDE DEF x
  <2>4. -x <= b
    BY <1>4, <2>2
  <2>5. w * v <= b
    BY <2>2 DEF x
  <2>6. w * (-v) <= b
    BY <2>2, <2>4
  <2> QED
    BY <2>3, <2>5, <2>6
<1> QED
  BY <1>1, <1>3, <1>5 DEF NearSlope, w, v, t

\* What the finest gradients yield is near the surface's slope or missing, and it is
\* there in the inner part where the cells around are shown.
LEMMA FineSlope ==
  ASSUME NEW c \in Surface, NEW cells \in SUBSET Cells(0), NEW i \in {1, 2}, NEW p \in Probe
  PROVE  LET G == eigen_central_gradient(calculate_I(c, cells), AxisName(i), 0)
             g == fetch_I(G, p[1], p[2], 0)
         IN  /\ g # T_INVALID => g \in Int /\ NearSlope(c, i, g)
             /\ /\ InFrame(p[1], p[2]) /\ p[i] \in CellWidth .. Side - CellWidth
                /\ Around(p, 2 * CellWidth) \subseteq cells
                => g # T_INVALID
<1> DEFINE G == eigen_central_gradient(calculate_I(c, cells), AxisName(i), 0)
           x == p[1]
           y == p[2]
           g == fetch_I(G, x, y, 0)
           w == CellWidth
           n == 2 * w * w
           C == CornerCells(p[1], p[2], w)
           low == SlopeLow(c, i)
           high == SlopeHigh(c, i)
<1>1. PICK m \in Nat \ {0} : Unit = (2 * w) * (n * m)
  BY Whole
<1>2. \A cell \in Cells(0) :
        /\ G[cell] # T_INVALID => \E k \in Int : G[cell] = n * (m * k) /\ low <= k /\ k <= high
        /\ {PrevCell(cell, i), cell, NextCell(cell, i)} \subseteq cells => G[cell] # T_INVALID
  BY <1>1, FineGradient
<1>3. /\ grid_len(0) = w /\ w \in Nat \ {0} /\ p[1] \in Int /\ p[2] \in Int /\ Side \in Nat
      /\ low \in Int /\ high \in Int
  <2>1. Slope(c, i) \in Int /\ TableStep(i) \in Nat
    BY SlopeKnown, ReadNear
  <2>2. Magnitude(Slope(c, i)) \in Int
    BY <2>1, Magnitudes
  <2> DEFINE a == Slope(c, i) * (2 * w)
             b == Magnitude(Slope(c, i)) * TableStep(i)
  <2>3. a \in Int /\ b \in Int
    BY <2>1, <2>2, Sizes
  <2>4. low = a - b /\ high = a + b
    BY DEF SlopeLow, SlopeHigh
  <2> HIDE DEF a, b, low, high
  <2>5. low \in Int /\ high \in Int
    BY <2>3, <2>4
  <2> QED
    BY <2>5, Sizes DEF grid_len, Probe
<1> HIDE DEF G, low, high
<1>4. ASSUME CornersShown(G, p[1], p[2], 0)
      PROVE  g \in Int /\ g # T_INVALID /\ NearSlope(c, i, g)
  <2>1. C \subseteq Cells(0) /\ \A cell \in C : G[cell] # T_INVALID
    BY <1>3, <1>4 DEF CornersShown
  <2>2. \A cell \in C : \E k \in Int : G[cell] = n * (m * k) /\ low <= k /\ k <= high
    BY <1>2, <2>1
  <2> DEFINE a == (2 * w) * (m * low)
             b == (2 * w) * (m * high)
  <2>3. /\ a \in Int /\ b \in Int /\ w * a = n * (m * low) /\ w * b = n * (m * high) /\ n \in Nat
    <3> DEFINE j == m * low
               k == m * high
    <3>1. j \in Int /\ k \in Int
      BY <1>3
    <3> HIDE DEF j, k
    <3>2. w * ((2 * w) * j) = (2 * w * w) * j /\ w * ((2 * w) * k) = (2 * w * w) * k
      BY <1>3, <3>1
    <3>3. (2 * w) * j \in Int /\ (2 * w) * k \in Int /\ 2 * w * w \in Nat
      BY <1>3, <3>1
    <3> QED
      BY <3>2, <3>3 DEF j, k
  <2> HIDE DEF n, a, b
  <2>4. ASSUME NEW cell \in C
        PROVE  /\ G[cell] \in Int /\ G[cell] >= w * a /\ G[cell] <= w * b
               /\ Multiple(n, G[cell])
    <3>1. PICK k \in Int : G[cell] = n * (m * k) /\ low <= k /\ k <= high
      BY <2>2
    <3> DEFINE j == m * k
               l == m * low
               h == m * high
    <3>2. j \in Int /\ l \in Int /\ h \in Int /\ l <= j /\ j <= h
      BY <1>3, <3>1
    <3> HIDE DEF j, l, h
    <3>3. n * l <= n * j /\ n * j <= n * h /\ n * j \in Int
      BY <2>3, <3>2
    <3>4. G[cell] = n * j /\ w * a = n * l /\ w * b = n * h
      BY <2>3, <3>1 DEF j, l, h
    <3> QED
      BY <3>2, <3>3, <3>4 DEF Multiple
  <2>5. x \in Int /\ y \in Int /\ 0 \in {0, 1} /\ CornersShown(G, x, y, 0) /\ C = CornerCells(x, y, grid_len(0))
    BY <1>3, <1>4
  <2> HIDE DEF x, y, C
  <2>6. /\ g \in Int
        /\ \A l \in Int : /\ (\A cell \in C : G[cell] >= w * l) => g >= w * l
                          /\ (\A cell \in C : G[cell] <= w * l) => g <= w * l
    <3>1. \A cell \in CornerCells(x, y, grid_len(0)) : G[cell] \in Int
      BY <2>4, <2>5
    <3>2. /\ fetch_I(G, x, y, 0) \in Int
          /\ \A l \in Int :
               /\ (\A cell \in CornerCells(x, y, grid_len(0)) : G[cell] >= grid_len(0) * l)
                    => fetch_I(G, x, y, 0) >= grid_len(0) * l
               /\ (\A cell \in CornerCells(x, y, grid_len(0)) : G[cell] <= grid_len(0) * l)
                    => fetch_I(G, x, y, 0) <= grid_len(0) * l
      BY <2>5, <3>1, FetchBetween
    <3> HIDE DEF w
    <3> QED
      BY <1>3, <2>5, <3>2
  <2>7. g # T_INVALID
    <3>1. \A cell \in CornerCells(x, y, w) : Multiple(2 * w * w, G[cell])
      BY <1>3, <2>4, <2>5 DEF n
    <3> DEFINE d == Side - y
    <3>2. d = Side - y
      OBVIOUS
    <3> HIDE DEF w, d
    <3> QED
      BY <1>3, <2>5, <3>1, <3>2, FetchWhole
  <2>8. g >= w * a /\ g <= w * b
    BY <2>3, <2>4, <2>6
  <2>9. (2 * w) * (w * a) = Unit * low /\ (2 * w) * (w * b) = Unit * high
    <3>1. (2 * w) * (n * (m * low)) = ((2 * w) * (n * m)) * low
      <4> DEFINE e == 2 * w
                 f == n * m
      <4>1. e \in Int /\ f \in Int /\ f * low = n * (m * low)
        BY <1>3, <2>3
      <4> HIDE DEF e, f
      <4>2. e * (f * low) = (e * f) * low
        BY <1>3, <4>1
      <4> QED
        BY <4>1, <4>2 DEF e, f
    <3>2. (2 * w) * (n * (m * high)) = ((2 * w) * (n * m)) * high
      <4> DEFINE e == 2 * w
                 f == n * m
      <4>1. e \in Int /\ f \in Int /\ f * high = n * (m * high)
        BY <1>3, <2>3
      <4> HIDE DEF e, f
      <4>2. e * (f * high) = (e * f) * high
        BY <1>3, <4>1
      <4> QED
        BY <4>1, <4>2 DEF e, f
    <3> QED
      BY <1>1, <2>3, <3>1, <3>2
  <2>10. Unit * low <= (2 * w) * g /\ (2 * w) * g <= Unit * high
    <3> DEFINE e == 2 * w
               j == w * a
               k == w * b
    <3>1. e \in Nat /\ j \in Int /\ k \in Int
      BY <1>3, <2>3
    <3> HIDE DEF e, j, k, g
    <3>2. g \in Int /\ j <= g /\ g <= k
      BY <2>6, <2>8, <3>1 DEF j, k
    <3>3. e * j <= e * g /\ e * g <= e * k
      BY <3>1, <3>2
    <3> QED
      BY <2>9, <3>3 DEF e, j, k
  <2> HIDE DEF g
  <2>11. NearSlope(c, i, g)
    BY <2>6, <2>10, BoundsNear DEF low, high
  <2> QED
    BY <2>6, <2>7, <2>11
<1>5. ~CornersShown(G, p[1], p[2], 0) => g = T_INVALID
  BY FetchCases
<1>6. ASSUME InFrame(p[1], p[2]), p[i] \in w .. Side - w, Around(p, 2 * w) \subseteq cells
      PROVE  CornersShown(G, p[1], p[2], 0)
  <2>1. C \subseteq Cells(0) /\ C = Around(p, w)
    BY <1>6, CornersAround
  <2>2. ASSUME NEW cell \in C PROVE {PrevCell(cell, i), cell, NextCell(cell, i)} \subseteq cells
    <3> DEFINE a == PositionOf(cell)
               next == NextCell(cell, i)
               prev == PrevCell(cell, i)
               o == 3 - i
    <3>1. cell \in Cells(0) /\ \A j \in 1 .. 2 : Magnitude(a[j] - p[j]) < w
      BY <2>1, <2>2 DEF Around
    <3>2. cell \in Int \X Int
      <4>1. \A j \in 0 .. minimum_img_rso - 1 : j \in Int
        BY Sizes
      <4> QED
        BY <3>1, <4>1 DEF Cells, ImageSize
    <3>3. /\ a[1] \in Int /\ a[2] \in Int
          /\ PositionOf(next)[i] = a[i] + w /\ PositionOf(prev)[i] = a[i] - w
          /\ PositionOf(next)[o] = a[o] /\ PositionOf(prev)[o] = a[o]
      <4>1. a[1] \in Int /\ a[2] \in Int
        BY <3>2, CellAhead
      <4>2. PositionOf(next)[i] = a[i] + CellWidth /\ PositionOf(prev)[i] = a[i] - CellWidth
        BY <3>2, CellAhead
      <4>3. PositionOf(next)[3 - i] = a[3 - i] /\ PositionOf(prev)[3 - i] = a[3 - i]
        BY <3>2, CellAhead
      <4> QED
        BY <4>1, <4>2, <4>3
    <3>4. i \in {1, 2} /\ o \in {1, 2} /\ {i, o} = {1, 2} /\ 1 .. 2 = {1, 2}
      OBVIOUS
    <3> HIDE DEF a, next, prev, o
    <3>5. /\ a[i] \in Int /\ a[o] \in Int /\ p[i] \in Int /\ p[o] \in Int
          /\ Magnitude(a[i] - p[i]) < w /\ Magnitude(a[o] - p[o]) < w
      <4>1. \A j \in {1, 2} : a[j] \in Int /\ p[j] \in Int /\ Magnitude(a[j] - p[j]) < w
        BY <1>3, <3>1, <3>3, <3>4
      <4> QED
        BY <3>4, <4>1
    <3> DEFINE s == a[i]
               t == p[i]
    <3>6. /\ Magnitude(s - t) < 2 * w /\ Magnitude((s + w) - t) < 2 * w /\ Magnitude((s - w) - t) < 2 * w
          /\ s < Side /\ 0 < s
      <4>1. w <= t /\ t <= Side - w /\ s \in Int /\ t \in Int /\ Magnitude(s - t) < w
        BY <1>3, <1>6, <3>5
      <4> HIDE DEF s, t
      <4> QED
        BY <1>3, <4>1 DEF Magnitude
    <3>7. Magnitude(a[o] - p[o]) < 2 * w
      <4> DEFINE e == Magnitude(a[o] - p[o])
      <4>1. e < w /\ e \in Int
        BY <3>5, Magnitudes
      <4> HIDE DEF e
      <4>2. e < 2 * w
        BY <1>3, <4>1
      <4> QED
        BY <4>2 DEF e
    <3>8. next \in Cells(0) /\ prev \in Cells(0)
      BY <3>1, <3>6, AheadInside DEF a, next, prev
    <3>9. \A q \in {next, cell, prev}, j \in 1 .. 2 : Magnitude(PositionOf(q)[j] - p[j]) < 2 * w
      <4>1. PositionOf(cell)[i] = a[i] /\ PositionOf(cell)[o] = a[o]
        BY DEF a
      <4>2. \A q \in {next, cell, prev} :
              Magnitude(PositionOf(q)[i] - p[i]) < 2 * w /\ Magnitude(PositionOf(q)[o] - p[o]) < 2 * w
        BY <3>3, <3>6, <3>7, <4>1
      <4> QED
        BY <3>4, <4>2
    <3>10. {next, cell, prev} \subseteq Around(p, 2 * w)
      BY <3>1, <3>8, <3>9 DEF Around
    <3> QED
      BY <1>6, <3>10 DEF next, prev
  <2>3. \A cell \in C : G[cell] # T_INVALID
    BY <1>2, <2>1, <2>2
  <2> QED
    BY <1>3, <1>6, <2>1, <2>3 DEF CornersShown
<1> HIDE DEF g, C
<1> QED
  BY <1>4, <1>5, <1>6 DEF g, G, x, y

-----------------------------------------------------------------------------
(* The levels of an image                                                  *)

GradientOf(k, i) == IF i = 1 THEN pyramids[k].Gx ELSE pyramids[k].Gy
ImageOf(c, cells, k) == IF k = 0 THEN calculate_I(c, cells) ELSE pyr_down(calculate_I(c, cells))

\* What the levels of an image hold.
LEMMA Levels ==
  ASSUME NEW c, NEW cells, pyramids = Pyramids(c, cells), NEW k \in 0 .. Depth(FALSE) - 1
  PROVE  /\ k \in {0, 1}
         /\ pyramids[k].I = ImageOf(c, cells, k)
         /\ \A i \in {1, 2} : GradientOf(k, i) = eigen_central_gradient(ImageOf(c, cells, k), AxisName(i), k)
<1>1. Depth(FALSE) \in {1, 2}
  BY DEF Depth
<1>2. k \in {0, 1}
  <2> DEFINE n == Depth(FALSE)
  <2>1. n \in {1, 2} /\ k \in 0 .. n - 1
    BY <1>1
  <2> HIDE DEF n
  <2> QED
    BY <2>1
<1>3. /\ pyramids[k].I = ImageOf(c, cells, k)
      /\ pyramids[k].Gx = eigen_central_gradient(ImageOf(c, cells, k), "x", k)
      /\ pyramids[k].Gy = eigen_central_gradient(ImageOf(c, cells, k), "y", k)
  BY DEF Pyramids, ImageOf
<1> QED
  BY <1>2, <1>3 DEF GradientOf, AxisName

\* The finest level is always there.
LEMMA FinestLevel == 0 \in 0 .. Depth(FALSE) - 1
BY DEF Depth

\* A slope of the image is what its gradient yields; a missing one is none.
LEMMA SlopeFetched ==
  ASSUME NEW x, NEW y, NEW k, NEW i \in {1, 2}
  PROVE  LET g == fetch_I(GradientOf(k, i), x, y, k)
         IN  ImageSlopes(x, y, k)[i] = IF g = T_INVALID THEN 0 ELSE g
BY DEF ImageSlopes, GradientOf

\* What an evaluation against the image returns.
LEMMA ImageResidual ==
  ASSUME NEW p, ~is_SH_analytic_jacobian, evaluation = CoupleFixSphDirectFactor(p)
  PROVE  LET I == fetch_I(pyramids[pyramid_idx].I, p[1], p[2], pyramid_idx)
             is_fault == I = T_INVALID \/ Magnitude(Unit * p[3] - I) > Unit * max_valid_residual
         IN  /\ evaluation.kind = "direct" /\ evaluation.p = p /\ evaluation.used = ~is_fault
             /\ evaluation.residual = IF is_fault THEN 0 ELSE Unit * p[3] - I
             /\ evaluation.slopes = IF is_fault THEN <<0, 0>> ELSE ImageSlopes(p[1], p[2], pyramid_idx)
BY DEF CoupleFixSphDirectFactor

\* A residual against the finest image is as it must be.
LEMMA FineIsSound ==
  ASSUME extracted \in Surface, NEW cells \in SUBSET Cells(0), pyramids = Pyramids(extracted, cells),
         ~is_SH_analytic_jacobian, pyramid_idx = 0, NEW p \in Probe,
         evaluation = CoupleFixSphDirectFactor(p)
  PROVE  FineNear(p)
<1> DEFINE c == extracted
           w == CellWidth
           h == fetch_I(pyramids[0].I, p[1], p[2], 0)
           limit == Unit * max_valid_residual
           is_fault == h = T_INVALID \/ Magnitude(Unit * p[3] - h) > limit
           shown == InFrame(p[1], p[2]) /\ Around(p, w) \subseteq Shown
           e == ImageSlopes(p[1], p[2], 0)
           f == PlaneHeight(c, p[1], p[2])
           E == TableError(c)
<1>1. /\ evaluation.used = ~is_fault
      /\ evaluation.residual = IF is_fault THEN 0 ELSE Unit * p[3] - h
      /\ evaluation.slopes = IF is_fault THEN <<0, 0>> ELSE e
  BY ImageResidual
<1>2. /\ pyramids[0].I = calculate_I(c, cells)
      /\ \A i \in {1, 2} : GradientOf(0, i) = eigen_central_gradient(calculate_I(c, cells), AxisName(i), 0)
  BY FinestLevel, Levels DEF ImageOf
<1>3. Shown = cells
  BY <1>2, FineCells DEF Shown
<1>4. shown <=> InFrame(p[1], p[2]) /\ CornerCells(p[1], p[2], w) \subseteq cells
  BY <1>3, CornersAround
<1>5. /\ shown => h \in Int /\ h # T_INVALID /\ HalfOff(E, f, h)
      /\ ~shown => h = T_INVALID
  <2>1. /\ CornersShown(calculate_I(c, cells), p[1], p[2], 0) <=> shown
        /\ shown => h \in Int /\ h # T_INVALID /\ HalfOff(E, f, h)
    BY <1>2, <1>4, FineHeight
  <2>2. ~CornersShown(calculate_I(c, cells), p[1], p[2], 0) => h = T_INVALID
    BY <1>2, FetchCases
  <2> QED
    BY <2>1, <2>2
<1>6. /\ f \in Int /\ E \in Int /\ limit \in Int /\ Unit * p[3] \in Int
      /\ Distance(c, p) = Unit * p[3] - f
  <2>1. f \in Int
    BY HeightKnown DEF Probe
  <2>2. E \in Int
    BY ErrorUnits
  <2>3. limit \in Int /\ Unit * p[3] \in Int
    BY Sizes DEF Probe
  <2> QED
    BY <2>1, <2>2, <2>3 DEF Distance
<1>7. ASSUME shown
      PROVE  /\ NearTable(c, p, Unit * p[3] - h)
             /\ 2 * Magnitude(Distance(c, p)) + E <= 2 * limit => Magnitude(Unit * p[3] - h) <= limit
  <2>1. h \in Int /\ -E <= 2 * (f - h) /\ 2 * (f - h) <= E
    BY <1>5, <1>7 DEF HalfOff
  <2>2. NearTable(c, p, Unit * p[3] - h)
    <3>1. InFrame(p[1], p[2])
      BY <1>7
    <3> HIDE DEF h
    <3> QED
      BY <2>1, <3>1, WithinNear DEF Probe
  <2> DEFINE z == Unit * p[3]
  <2> HIDE DEF h, f, E, limit, z
  <2>3. 2 * Magnitude(z - f) + E <= 2 * limit => Magnitude(z - h) <= limit
    BY <1>6, <2>1 DEF Magnitude, z
  <2> QED
    BY <1>6, <2>2, <2>3 DEF z
<1>8. \A i \in {1, 2} :
        /\ e[i] = 0 \/ NearSlope(c, i, e[i])
        /\ /\ InFrame(p[1], p[2]) /\ p[i] \in w .. Side - w /\ Around(p, 2 * w) \subseteq cells
           => NearSlope(c, i, e[i])
  <2> SUFFICES ASSUME NEW i \in {1, 2}
               PROVE  /\ e[i] = 0 \/ NearSlope(c, i, e[i])
                      /\ /\ InFrame(p[1], p[2]) /\ p[i] \in w .. Side - w
                         /\ Around(p, 2 * w) \subseteq cells
                         => NearSlope(c, i, e[i])
    OBVIOUS
  <2> DEFINE g == fetch_I(GradientOf(0, i), p[1], p[2], 0)
  <2>1. e[i] = IF g = T_INVALID THEN 0 ELSE g
    BY SlopeFetched
  <2>2. g = fetch_I(eigen_central_gradient(calculate_I(c, cells), AxisName(i), 0), p[1], p[2], 0)
    BY <1>2
  <2> HIDE DEF g, e
  <2>3. /\ g # T_INVALID => g \in Int /\ NearSlope(c, i, g)
        /\ /\ InFrame(p[1], p[2]) /\ p[i] \in w .. Side - w /\ Around(p, 2 * w) \subseteq cells
           => g # T_INVALID
    BY <2>2, FineSlope
  <2> QED
    BY <2>1, <2>3
<1>9. \A i \in 1 .. 2 : i \in {1, 2}
  OBVIOUS
<1> HIDE DEF e, h, shown, limit, E
<1>10. ASSUME evaluation.used
       PROVE  /\ shown /\ NearTable(c, p, evaluation.residual) /\ Magnitude(evaluation.residual) <= limit
              /\ evaluation.slopes = e
  <2>1. ~is_fault
    BY <1>1, <1>10
  <2>2. shown /\ h \in Int
    BY <1>5, <2>1
  <2>3. Magnitude(Unit * p[3] - h) <= limit
    <3> DEFINE v == Magnitude(Unit * p[3] - h)
    <3>1. v \in Int
      <4>1. Unit * p[3] - h \in Int
        BY <1>6, <2>2
      <4> QED
        BY <4>1, Magnitudes
    <3>2. ~ v > limit
      BY <2>1
    <3> HIDE DEF v
    <3>3. v <= limit
      BY <1>6, <3>1, <3>2
    <3> QED
      BY <3>3 DEF v
  <2> QED
    BY <1>1, <1>7, <2>1, <2>2, <2>3
<1>11. ASSUME shown, 2 * Magnitude(Distance(c, p)) + E <= 2 * limit PROVE evaluation.used
  <2>1. h \in Int /\ h # T_INVALID /\ Magnitude(Unit * p[3] - h) <= limit
    BY <1>5, <1>7, <1>11
  <2>2. ~ Magnitude(Unit * p[3] - h) > limit
    <3> DEFINE v == Magnitude(Unit * p[3] - h)
    <3>1. v \in Int
      <4>1. Unit * p[3] - h \in Int
        BY <1>6, <2>1
      <4> QED
        BY <4>1, Magnitudes
    <3>2. v <= limit
      BY <2>1
    <3> HIDE DEF v
    <3>3. ~ v > limit
      BY <1>6, <3>1, <3>2
    <3> QED
      BY <3>3 DEF v
  <2> QED
    BY <1>1, <2>1, <2>2
<1>12. \A i \in 1 .. 2 : evaluation.slopes[i] = 0 \/ NearSlope(c, i, evaluation.slopes[i])
  <2>1. CASE evaluation.used
    BY <1>8, <1>9, <1>10, <2>1
  <2>2. CASE ~evaluation.used
    <3>1. evaluation.slopes = <<0, 0>>
      BY <1>1, <2>2
    <3> QED
      BY <1>9, <3>1
  <2> QED
    BY <2>1, <2>2
<1>13. ASSUME evaluation.used, \A i \in 1 .. 2 : p[i] \in w .. Side - w, Around(p, 2 * w) \subseteq Shown
       PROVE  \A i \in 1 .. 2 : NearSlope(c, i, evaluation.slopes[i])
  <2>1. InFrame(p[1], p[2]) /\ evaluation.slopes = e
    BY <1>10, <1>13 DEF shown
  <2> QED
    BY <1>3, <1>8, <1>9, <1>13, <2>1
<1> QED
  BY <1>10, <1>11, <1>12, <1>13 DEF FineNear, shown, limit, E

\* Sixteen times a bound of what is weighted bounds the sum.
LEMMA WeightedBoth ==
  ASSUME NEW v, \A k \in -2 .. 2 : v[k] \in Int, NEW a \in Int
  PROVE  /\ Weighted(v) \in Int
         /\ (\A k \in -2 .. 2 : v[k] >= a) => Weighted(v) >= 16 * a
         /\ (\A k \in -2 .. 2 : v[k] <= a) => Weighted(v) <= 16 * a
<1> DEFINE p == v[-2]
           q == v[-1]
           r == v[0]
           s == v[1]
           t == v[2]
<1>1. -2 \in -2 .. 2 /\ -1 \in -2 .. 2 /\ 0 \in -2 .. 2 /\ 1 \in -2 .. 2 /\ 2 \in -2 .. 2
  OBVIOUS
<1>2. p \in Int /\ q \in Int /\ r \in Int /\ s \in Int /\ t \in Int
  BY <1>1
<1>3. (\A k \in -2 .. 2 : v[k] >= a) => p >= a /\ q >= a /\ r >= a /\ s >= a /\ t >= a
  BY <1>1
<1>4. (\A k \in -2 .. 2 : v[k] <= a) => p <= a /\ q <= a /\ r <= a /\ s <= a /\ t <= a
  BY <1>1
<1>5. Weighted(v) = p + 4 * q + 6 * r + 4 * s + t
  BY DEF Weighted
<1> HIDE DEF p, q, r, s, t
<1> QED
  BY <1>2, <1>3, <1>4, <1>5

\* The centre of a coarse cell, in the finest image.
Centre(cell) == <<2 * cell[1], 2 * cell[2]>>

\* The centre of a coarse cell is a cell of the finest image.
LEMMA CentreInside ==
  ASSUME NEW cell \in Cells(1)
  PROVE  /\ Centre(cell) \in Cells(0) /\ cell \in Int \X Int
         /\ Centre(cell)[1] \in 0 .. minimum_img_rso - 1 /\ Centre(cell)[2] \in 0 .. minimum_img_rso - 1
<1> DEFINE n == minimum_img_rso
           e == n + 1
           h == e \div 2
           a == cell[1]
           b == cell[2]
<1>1. n \in Nat \ {0, 1} /\ e \in Int
  BY Sizes
<1>2. h \in Int /\ h * 2 <= e
  <2> HIDE DEF e
  <2> QED
    BY <1>1, Quotient
<1>3. cell \in (0 .. h - 1) \X (0 .. h - 1)
  BY DEF Cells, ImageSize
<1> HIDE DEF h
<1>4. a \in 0 .. h - 1 /\ b \in 0 .. h - 1
  BY <1>3
<1> HIDE DEF a, b
<1>5. 2 * a \in 0 .. n - 1 /\ 2 * b \in 0 .. n - 1 /\ a \in Int /\ b \in Int
  BY <1>1, <1>2, <1>4
<1>6. Centre(cell) = <<2 * a, 2 * b>>
  BY DEF Centre, a, b
<1>7. cell \in Int \X Int
  BY <1>3, <1>4, <1>5 DEF a, b
<1>8. Cells(0) = (0 .. n - 1) \X (0 .. n - 1)
  BY DEF Cells, ImageSize
<1> HIDE DEF n
<1> QED
  BY <1>5, <1>6, <1>7, <1>8 DEF n

\* A place moved by two cells at most and back into the image has moved no further.
LEMMA ClampedNear ==
  ASSUME NEW n \in Nat \ {0}, NEW i \in 0 .. n - 1, NEW k \in -2 .. 2
  PROVE  LET j == Clamped(i + k, n)
         IN  j \in 0 .. n - 1 /\ i - 2 <= j /\ j <= i + 2
BY DEF Clamped

\* The cells that a coarse one is blurred from.
Reach(cells, cell) ==
  {q \in cells : \A i \in 1 .. 2 : /\ Centre(cell)[i] - 2 <= q[i]
                                   /\ q[i] <= Centre(cell)[i] + 2}

\* What a coarse cell is blurred from are heights of cells that are shown.
LEMMA NeighbourSeen ==
  ASSUME NEW c \in Surface, NEW cells \in SUBSET Cells(0), NEW cell \in Cells(1),
         Centre(cell) \in cells, NEW k \in -2 .. 2, NEW l \in -2 .. 2
  PROVE  \E q \in Reach(cells, cell) :
           Neighbour(calculate_I(c, cells), Centre(cell), k, l) = calculate_I(c, cells)[q]
<1> DEFINE n == minimum_img_rso
           at == Centre(cell)
           a == Clamped(at[1] + k, n)
           b == Clamped(at[2] + l, n)
           near == <<a, b>>
           I == calculate_I(c, cells)
<1>1. n \in Nat \ {0} /\ at[1] \in 0 .. n - 1 /\ at[2] \in 0 .. n - 1
  BY CentreInside, Sizes
<1>2. /\ a \in 0 .. n - 1 /\ at[1] - 2 <= a /\ a <= at[1] + 2
      /\ b \in 0 .. n - 1 /\ at[2] - 2 <= b /\ b <= at[2] + 2
  <2> DEFINE r == at[1]
             s == at[2]
  <2>1. n \in Nat \ {0} /\ r \in 0 .. n - 1 /\ s \in 0 .. n - 1
    BY <1>1
  <2> HIDE DEF r, s, n
  <2>2. /\ Clamped(r + k, n) \in 0 .. n - 1 /\ r - 2 <= Clamped(r + k, n) /\ Clamped(r + k, n) <= r + 2
    BY <2>1, ClampedNear
  <2>3. /\ Clamped(s + l, n) \in 0 .. n - 1 /\ s - 2 <= Clamped(s + l, n) /\ Clamped(s + l, n) <= s + 2
    BY <2>1, ClampedNear
  <2> QED
    BY <2>2, <2>3 DEF r, s
<1> HIDE DEF a, b, n, at
<1>3. Neighbour(I, at, k, l) = IF I[near] = T_INVALID THEN I[at] ELSE I[near]
  BY DEF Neighbour, a, b, n
<1>4. 1 .. 2 = {1, 2}
  OBVIOUS
<1>5. CASE I[near] = T_INVALID
  <2>1. Neighbour(I, at, k, l) = I[at]
    BY <1>3, <1>5
  <2>2. \A i \in {1, 2} : at[i] - 2 <= at[i] /\ at[i] <= at[i] + 2
    BY <1>1
  <2>3. at \in Reach(cells, cell)
    BY <1>4, <2>2 DEF Reach, at
  <2> QED
    BY <2>1, <2>3 DEF at
<1>6. CASE I[near] # T_INVALID
  <2>1. Neighbour(I, at, k, l) = I[near]
    BY <1>3, <1>6
  <2>2. near \in Cells(0)
    BY <1>2 DEF Cells, ImageSize, n
  <2>3. near \in cells
    BY <1>6, <2>2, FineCells
  <2>4. near[1] = a /\ near[2] = b
    OBVIOUS
  <2> HIDE DEF near
  <2>5. \A i \in {1, 2} : at[i] - 2 <= near[i] /\ near[i] <= at[i] + 2
    BY <1>2, <2>4
  <2>6. near \in Reach(cells, cell)
    BY <1>4, <2>3, <2>5 DEF Reach, at
  <2> QED
    BY <2>1, <2>6 DEF at
<1> QED
  BY <1>5, <1>6

\* The height that the table has for a cell, in units.
RawAt(c, cell) == Raw(c, ReadOf(cell)[1], ReadOf(cell)[2])

AllAbove(c, S, l) == \A q \in S : RawAt(c, q) >= l
AllBelow(c, S, l) == \A q \in S : RawAt(c, q) <= l

\* A coarse cell is shown only if its centre is, and exceeds no bound of the heights
\* it is blurred from.
LEMMA CoarseCell ==
  ASSUME NEW c \in Surface, NEW cells \in SUBSET Cells(0), NEW cell \in Cells(1),
         pyr_down(calculate_I(c, cells))[cell] # T_INVALID
  PROVE  LET v == pyr_down(calculate_I(c, cells))[cell]
         IN  /\ v \in Int /\ Centre(cell) \in Reach(cells, cell)
             /\ \A l \in Int : /\ AllAbove(c, Reach(cells, cell), l) => v >= Unit * l
                               /\ AllBelow(c, Reach(cells, cell), l) => v <= Unit * l
<1> DEFINE I == calculate_I(c, cells)
           at == Centre(cell)
           R == Reach(cells, cell)
           v == pyr_down(I)[cell]
<1>1. v = IF I[at] = T_INVALID THEN T_INVALID ELSE Blurred(I, at)
  BY DEF pyr_down, Centre
<1>2. I[at] # T_INVALID /\ v = Blurred(I, at)
  BY <1>1
<1>3. at \in cells
  <2>1. at \in Cells(0)
    BY CentreInside
  <2> HIDE DEF at
  <2> QED
    BY <1>2, <2>1, FineCells
<1>4. at \in R
  <2>1. at[1] \in Int /\ at[2] \in Int /\ 1 .. 2 = {1, 2}
    <3>1. \A j \in 0 .. minimum_img_rso - 1 : j \in Int
      BY Sizes
    <3> QED
      BY <3>1, CentreInside
  <2>2. \A i \in {1, 2} : at[i] - 2 <= at[i] /\ at[i] <= at[i] + 2
    <3> HIDE DEF at
    <3> QED
      BY <2>1
  <2> QED
    BY <1>3, <2>1, <2>2 DEF Reach
<1> DEFINE N(k, l) == Neighbour(I, at, k, l)
<1>5. PICK m \in Nat \ {0} : Unit = 256 * m
  BY Whole
<1>6. ASSUME NEW k \in -2 .. 2, NEW l \in -2 .. 2
      PROVE  \E q \in R : RawAt(c, q) \in Int /\ N(k, l) \div 256 = m * RawAt(c, q)
  <2>1. PICK q \in R : N(k, l) = I[q]
    BY <1>3, NeighbourSeen
  <2>2. q \in cells /\ q \in Cells(0)
    BY DEF Reach
  <2> DEFINE x == ReadOf(q)[1]
             y == ReadOf(q)[2]
  <2>3. I[q] = PlaneHeight(c, x, y) /\ x \in Int /\ y \in Int
    BY <2>2, FineCells
  <2> HIDE DEF x, y, I
  <2>4. PlaneHeight(c, x, y) = Unit * Raw(c, x, y) /\ Raw(c, x, y) \in Int
    BY <2>3, HeightKnown
  <2> DEFINE r == Raw(c, x, y)
             b == 256
             j == m * r
  <2>5. r \in Int /\ I[q] = Unit * r /\ RawAt(c, q) = r
    BY <2>3, <2>4 DEF RawAt, x, y
  <2> HIDE DEF r
  <2>6. j \in Int /\ Unit * r = b * j /\ b \in Nat \ {0}
    BY <1>5, <2>5
  <2> HIDE DEF b, j
  <2>7. (b * j) \div b = j
    BY <2>6, Exact
  <2>8. N(k, l) \div 256 = m * r
    <3> HIDE DEF N
    <3> QED
      BY <2>1, <2>5, <2>6, <2>7 DEF b, j
  <2> QED
    BY <2>5, <2>8
<1> DEFINE Row(k) == [l \in -2 .. 2 |-> N(k, l) \div 256]
           All == [k \in -2 .. 2 |-> Weighted(Row(k))]
<1>7. v = Weighted(All)
  BY <1>2 DEF Blurred
<1>8. \A k \in -2 .. 2, l \in -2 .. 2 : Row(k)[l] = N(k, l) \div 256
  OBVIOUS
<1>9. \A k \in -2 .. 2 : All[k] = Weighted(Row(k))
  OBVIOUS
<1> HIDE DEF I, at, v, N, All, Row
<1>10. \A k \in -2 .. 2 : \A l \in -2 .. 2 : \E q \in R : RawAt(c, q) \in Int /\ Row(k)[l] = m * RawAt(c, q)
  BY <1>6, <1>8
<1> HIDE DEF R
<1>11. ASSUME NEW k \in -2 .. 2 PROVE \A l \in -2 .. 2 : Row(k)[l] \in Int
  BY <1>10
<1>12. \A k \in -2 .. 2 : All[k] \in Int
  <2> SUFFICES ASSUME NEW k \in -2 .. 2 PROVE All[k] \in Int
    OBVIOUS
  <2> DEFINE r == Row(k)
  <2>1. \A l \in -2 .. 2 : r[l] \in Int
    BY <1>11
  <2>2. All[k] = Weighted(r)
    BY <1>9
  <2> HIDE DEF r
  <2> QED
    BY <2>1, <2>2, WeightedBoth, 0 \in Int
<1>13. v \in Int
  BY <1>7, <1>12, WeightedBoth, 0 \in Int
<1>14. ASSUME NEW a \in Int, AllAbove(c, R, a) PROVE v >= Unit * a
  <2> DEFINE b == m * a
             d == 16 * b
  <2>1. b \in Int /\ d \in Int /\ 16 * d = Unit * a
    BY <1>5
  <2>2. \A k \in -2 .. 2, l \in -2 .. 2 : Row(k)[l] >= b
    <3> SUFFICES ASSUME NEW k \in -2 .. 2, NEW l \in -2 .. 2 PROVE Row(k)[l] >= b
      OBVIOUS
    <3>1. PICK q \in R : RawAt(c, q) \in Int /\ Row(k)[l] = m * RawAt(c, q)
      BY <1>10
    <3> DEFINE r == RawAt(c, q)
    <3>2. r \in Int /\ r >= a
      BY <1>14, <3>1 DEF AllAbove
    <3> HIDE DEF r
    <3>3. m * r >= m * a
      BY <3>2
    <3> QED
      BY <3>1, <3>3 DEF r
  <2> HIDE DEF b, d
  <2>3. \A k \in -2 .. 2 : All[k] >= d
    <3> SUFFICES ASSUME NEW k \in -2 .. 2 PROVE All[k] >= d
      OBVIOUS
    <3> DEFINE r == Row(k)
    <3>1. (\A l \in -2 .. 2 : r[l] \in Int) /\ (\A l \in -2 .. 2 : r[l] >= b) /\ All[k] = Weighted(r)
      BY <1>9, <1>11, <2>2
    <3> HIDE DEF r
    <3>2. Weighted(r) >= 16 * b
      BY <2>1, <3>1, WeightedBoth
    <3> QED
      BY <3>1, <3>2 DEF d
  <2>4. v >= 16 * d
    BY <1>7, <1>12, <2>1, <2>3, WeightedBoth
  <2> QED
    BY <2>1, <2>4
<1>15. ASSUME NEW a \in Int, AllBelow(c, R, a) PROVE v <= Unit * a
  <2> DEFINE b == m * a
             d == 16 * b
  <2>1. b \in Int /\ d \in Int /\ 16 * d = Unit * a
    BY <1>5
  <2>2. \A k \in -2 .. 2, l \in -2 .. 2 : Row(k)[l] <= b
    <3> SUFFICES ASSUME NEW k \in -2 .. 2, NEW l \in -2 .. 2 PROVE Row(k)[l] <= b
      OBVIOUS
    <3>1. PICK q \in R : RawAt(c, q) \in Int /\ Row(k)[l] = m * RawAt(c, q)
      BY <1>10
    <3> DEFINE r == RawAt(c, q)
    <3>2. r \in Int /\ r <= a
      BY <1>15, <3>1 DEF AllBelow
    <3> HIDE DEF r
    <3>3. m * r <= m * a
      BY <3>2
    <3> QED
      BY <3>1, <3>3 DEF r
  <2> HIDE DEF b, d
  <2>3. \A k \in -2 .. 2 : All[k] <= d
    <3> SUFFICES ASSUME NEW k \in -2 .. 2 PROVE All[k] <= d
      OBVIOUS
    <3> DEFINE r == Row(k)
    <3>1. (\A l \in -2 .. 2 : r[l] \in Int) /\ (\A l \in -2 .. 2 : r[l] <= b) /\ All[k] = Weighted(r)
      BY <1>9, <1>11, <2>2
    <3> HIDE DEF r
    <3>2. Weighted(r) <= 16 * b
      BY <2>1, <3>1, WeightedBoth
    <3> QED
      BY <3>1, <3>2 DEF d
  <2>4. v <= 16 * d
    BY <1>7, <1>12, <2>1, <2>3, WeightedBoth
  <2> QED
    BY <2>1, <2>4
<1> QED
  BY <1>4, <1>13, <1>14, <1>15 DEF v, I, R, at

\* These cells are shown, and in the image.
LEMMA ReachInside ==
  ASSUME NEW cells \in SUBSET Cells(0), NEW cell, NEW q \in Reach(cells, cell)
  PROVE  q \in cells /\ q \in Cells(0) /\ q \in Int \X Int
<1>1. q \in cells /\ q \in Cells(0)
  BY DEF Reach
<1>2. \A j \in 0 .. minimum_img_rso - 1 : j \in Int
  BY Sizes
<1> QED
  BY <1>1, <1>2 DEF Cells, ImageSize

\* On a surface that rises along one axis only, the height follows the place it is read at.
LEMMA RawAlong ==
  ASSUME NEW c \in Surface, NEW i \in {1, 2}, Slope(c, 3 - i) = 0, NEW q \in Cells(0)
  PROVE  /\ RawAt(c, q) = c.height + Slope(c, i) * ReadOf(q)[i]
         /\ ReadOf(q)[i] \in Int /\ Slope(c, i) \in Int /\ c.height \in Int
<1> DEFINE x == ReadOf(q)[1]
           y == ReadOf(q)[2]
<1>1. x \in Int /\ y \in Int
  BY ReadOfCell
<1>2. RawAt(c, q) = c.height + c.x * x + c.y * y
  BY DEF RawAt, Raw
<1>3. c.height \in Int /\ c.x \in Int /\ c.y \in Int
  BY DEF Surface
<1> HIDE DEF x, y
<1>4. CASE i = 1
  <2>1. c.y = 0 /\ Slope(c, i) = c.x /\ ReadOf(q)[i] = x
    <3>1. 3 - i = 2
      BY <1>4
    <3> QED
      BY <1>4, <3>1 DEF Slope, x
  <2>2. c.y * y = 0 /\ c.x * x \in Int
    BY <1>1, <1>3, <2>1
  <2>3. RawAt(c, q) = c.height + c.x * x
    BY <1>2, <1>3, <2>2
  <2> QED
    BY <1>1, <1>3, <2>1, <2>3
<1>5. CASE i = 2
  <2>1. c.x = 0 /\ Slope(c, i) = c.y /\ ReadOf(q)[i] = y
    <3>1. 3 - i = 1
      BY <1>5
    <3> QED
      BY <1>5, <3>1 DEF Slope, y
  <2>2. c.x * x = 0 /\ c.y * y \in Int
    BY <1>1, <1>3, <2>1
  <2>3. RawAt(c, q) = c.height + c.y * y
    BY <1>2, <1>3, <2>2
  <2> QED
    BY <1>1, <1>3, <2>1, <2>3
<1> QED
  BY <1>4, <1>5

\* What the next coarse cell is blurred from lies ahead of the centre, what the one
\* before is blurred from behind.
LEMMA AheadOfCentre ==
  ASSUME NEW cells \in SUBSET Cells(0), NEW i \in {1, 2}, NEW cell \in Int \X Int
  PROVE  /\ \A q \in Reach(cells, NextCell(cell, i)) : PositionOf(q)[i] >= PositionOf(Centre(cell))[i]
         /\ \A q \in Reach(cells, PrevCell(cell, i)) : PositionOf(q)[i] <= PositionOf(Centre(cell))[i]
<1> DEFINE w == CellWidth
           a == cell[1]
           b == cell[2]
<1>1. w \in Nat \ {0} /\ Side \in Int /\ a \in Int /\ b \in Int
  BY Sizes
<1>2. \A q : PositionOf(q) = <<q[2] * w, Side - q[1] * w>>
  BY DEF PositionOf
<1>3. Centre(cell)[1] = 2 * a /\ Centre(cell)[2] = 2 * b
  BY DEF Centre
<1>4. 1 \in 1 .. 2 /\ 2 \in 1 .. 2
  OBVIOUS
<1> HIDE DEF w
<1>5. ASSUME NEW s \in Int, NEW t \in Int, s <= t PROVE s * w <= t * w /\ s * w \in Int /\ t * w \in Int
  BY <1>1, <1>5
<1>6. ASSUME i = 1, NEW q \in Reach(cells, NextCell(cell, i))
      PROVE  PositionOf(q)[i] >= PositionOf(Centre(cell))[i]
  <2>1. Centre(NextCell(cell, i))[2] = 2 * (b + 1)
    BY <1>6 DEF NextCell, Centre
  <2>2. q[1] \in Int /\ q[2] \in Int /\ 2 * (b + 1) - 2 <= q[2]
    BY <1>4, <2>1, ReachInside DEF Reach
  <2> DEFINE s == q[2]
  <2>3. s \in Int /\ 2 * b <= s /\ 2 * b \in Int
    BY <1>1, <2>2
  <2> HIDE DEF a, b, s
  <2>4. (2 * b) * w <= s * w
    BY <1>5, <2>3
  <2>5. PositionOf(q)[i] = s * w /\ PositionOf(Centre(cell))[i] = (2 * b) * w
    BY <1>2, <1>3, <1>6 DEF s
  <2> QED
    BY <1>1, <2>3, <2>4, <2>5, (2 * b) * w \in Int, s * w \in Int
<1>7. ASSUME i = 1, NEW q \in Reach(cells, PrevCell(cell, i))
      PROVE  PositionOf(q)[i] <= PositionOf(Centre(cell))[i]
  <2>1. Centre(PrevCell(cell, i))[2] = 2 * (b - 1)
    BY <1>7 DEF PrevCell, Centre
  <2>2. q[1] \in Int /\ q[2] \in Int /\ q[2] <= 2 * (b - 1) + 2
    BY <1>4, <2>1, ReachInside DEF Reach
  <2> DEFINE s == q[2]
  <2>3. s \in Int /\ s <= 2 * b /\ 2 * b \in Int
    BY <1>1, <2>2
  <2> HIDE DEF a, b, s
  <2>4. s * w <= (2 * b) * w
    BY <1>5, <2>3
  <2>5. PositionOf(q)[i] = s * w /\ PositionOf(Centre(cell))[i] = (2 * b) * w
    BY <1>2, <1>3, <1>7 DEF s
  <2> QED
    BY <2>4, <2>5
<1>8. ASSUME i = 2, NEW q \in Reach(cells, NextCell(cell, i))
      PROVE  PositionOf(q)[i] >= PositionOf(Centre(cell))[i]
  <2>1. Centre(NextCell(cell, i))[1] = 2 * (a - 1)
    BY <1>8 DEF NextCell, Centre
  <2>2. q[1] \in Int /\ q[2] \in Int /\ q[1] <= 2 * (a - 1) + 2
    BY <1>4, <2>1, ReachInside DEF Reach
  <2> DEFINE s == q[1]
  <2>3. s \in Int /\ s <= 2 * a /\ 2 * a \in Int
    BY <1>1, <2>2
  <2> HIDE DEF a, b, s
  <2>4. s * w <= (2 * a) * w /\ s * w \in Int /\ (2 * a) * w \in Int
    BY <1>5, <2>3
  <2>5. PositionOf(q)[i] = Side - s * w /\ PositionOf(Centre(cell))[i] = Side - (2 * a) * w
    BY <1>2, <1>3, <1>8 DEF s
  <2> DEFINE u == s * w
             v == (2 * a) * w
  <2> HIDE DEF u, v
  <2>6. Side - u >= Side - v
    BY <1>1, <2>4 DEF u, v
  <2> QED
    BY <2>5, <2>6 DEF u, v
<1>9. ASSUME i = 2, NEW q \in Reach(cells, PrevCell(cell, i))
      PROVE  PositionOf(q)[i] <= PositionOf(Centre(cell))[i]
  <2>1. Centre(PrevCell(cell, i))[1] = 2 * (a + 1)
    BY <1>9 DEF PrevCell, Centre
  <2>2. q[1] \in Int /\ q[2] \in Int /\ 2 * (a + 1) - 2 <= q[1]
    BY <1>4, <2>1, ReachInside DEF Reach
  <2> DEFINE s == q[1]
  <2>3. s \in Int /\ 2 * a <= s /\ 2 * a \in Int
    BY <1>1, <2>2
  <2> HIDE DEF a, b, s
  <2>4. (2 * a) * w <= s * w /\ s * w \in Int /\ (2 * a) * w \in Int
    BY <1>5, <2>3
  <2>5. PositionOf(q)[i] = Side - s * w /\ PositionOf(Centre(cell))[i] = Side - (2 * a) * w
    BY <1>2, <1>3, <1>9 DEF s
  <2> DEFINE u == s * w
             v == (2 * a) * w
  <2> HIDE DEF u, v
  <2>6. Side - u <= Side - v
    BY <1>1, <2>4 DEF u, v
  <2> QED
    BY <2>5, <2>6 DEF u, v
<1> QED
  BY <1>6, <1>7, <1>8, <1>9

\* The table is read further on for a cell further on.
LEMMA ReadOrder ==
  ASSUME NEW i \in {1, 2}, NEW q \in Cells(0), NEW r \in Cells(0), PositionOf(q)[i] >= PositionOf(r)[i]
  PROVE  ReadOf(q)[i] >= ReadOf(r)[i] /\ ReadOf(q)[i] \in Int /\ ReadOf(r)[i] \in Int
<1> DEFINE a == PositionOf(q)[i]
           b == PositionOf(r)[i]
<1>1. ReadOf(q)[i] = ReadAlong(i, a) /\ ReadOf(r)[i] = ReadAlong(i, b) /\ a \in 0 .. Side /\ b \in 0 .. Side
  BY ReadOfCell
<1>2. b <= a
  BY <1>1, Sizes
<1> HIDE DEF a, b
<1> QED
  BY <1>1, <1>2, ReadNear

\* A quotient has the sign of what is divided: a coarse gradient that of the slope.
LEMMA CoarseGradient ==
  ASSUME NEW c \in Surface, NEW cells \in SUBSET Cells(0), NEW i \in {1, 2}, NEW cell \in Cells(1),
         Slope(c, 3 - i) = 0,
         eigen_central_gradient(pyr_down(calculate_I(c, cells)), AxisName(i), 1)[cell] # T_INVALID
  PROVE  LET g == eigen_central_gradient(pyr_down(calculate_I(c, cells)), AxisName(i), 1)[cell]
         IN  /\ g \in Int
             /\ Slope(c, i) >= 0 => g >= 0
             /\ Slope(c, i) <= 0 => g <= 0
<1> DEFINE I == pyr_down(calculate_I(c, cells))
           g == eigen_central_gradient(I, AxisName(i), 1)[cell]
           next == NextCell(cell, i)
           prev == PrevCell(cell, i)
           u == I[next]
           v == I[prev]
           len == 2 * grid_len(1)
           s == Slope(c, i)
           t == RawAt(c, Centre(cell))
<1>1. len \in Nat \ {0}
  BY GridLen
<1>2. /\ next \in Cells(1) /\ prev \in Cells(1) /\ u # T_INVALID /\ v # T_INVALID
      /\ g = (u - v) \div len
  <2>0. eigen_central_gradient(I, AxisName(i), 1)[cell] # T_INVALID
    OBVIOUS
  <2> HIDE DEF I, next, prev, len
  <2>1. Inner(I, cell, i, 1)
    BY <2>0, GradientCases
  <2> QED
    BY <2>1, GradientCases DEF Inner, next, prev, len
<1>3. cell \in Int \X Int /\ Centre(cell) \in Cells(0)
  BY CentreInside
<1>4. /\ u \in Int
      /\ \A l \in Int : /\ AllAbove(c, Reach(cells, next), l) => u >= Unit * l
                        /\ AllBelow(c, Reach(cells, next), l) => u <= Unit * l
  <2> HIDE DEF next
  <2> QED
    BY <1>2, CoarseCell
<1>5. /\ v \in Int
      /\ \A l \in Int : /\ AllAbove(c, Reach(cells, prev), l) => v >= Unit * l
                        /\ AllBelow(c, Reach(cells, prev), l) => v <= Unit * l
  <2> HIDE DEF prev
  <2> QED
    BY <1>2, CoarseCell
<1> DEFINE o == ReadOf(Centre(cell))[i]
<1>6. t = c.height + s * o /\ o \in Int /\ s \in Int /\ c.height \in Int
  BY <1>3, RawAlong
<1>7. t \in Int
  <2>1. s * o \in Int
    BY <1>6
  <2> HIDE DEF t, s, o
  <2> QED
    BY <1>6, <2>1
<1>8. ASSUME NEW q \in Reach(cells, next)
      PROVE  (s >= 0 => RawAt(c, q) >= t) /\ (s <= 0 => RawAt(c, q) <= t)
  <2> DEFINE e == ReadOf(q)[i]
  <2>1. q \in Cells(0)
    BY ReachInside
  <2>2. RawAt(c, q) = c.height + s * e /\ e \in Int
    BY <2>1, RawAlong
  <2>3. e >= o
    <3>1. PositionOf(q)[i] >= PositionOf(Centre(cell))[i]
      BY <1>3, AheadOfCentre
    <3> QED
      BY <1>3, <2>1, <3>1, ReadOrder
  <2> HIDE DEF e, o, s, t
  <2>4. (s >= 0 => s * e >= s * o) /\ (s <= 0 => s * e <= s * o) /\ s * e \in Int /\ s * o \in Int
    BY <1>6, <2>2, <2>3
  <2> QED
    BY <1>6, <2>2, <2>4
<1>9. ASSUME NEW q \in Reach(cells, prev)
      PROVE  (s >= 0 => RawAt(c, q) <= t) /\ (s <= 0 => RawAt(c, q) >= t)
  <2> DEFINE e == ReadOf(q)[i]
  <2>1. q \in Cells(0)
    BY ReachInside
  <2>2. RawAt(c, q) = c.height + s * e /\ e \in Int
    BY <2>1, RawAlong
  <2>3. e <= o
    <3>1. PositionOf(q)[i] <= PositionOf(Centre(cell))[i]
      BY <1>3, AheadOfCentre
    <3>2. PositionOf(Centre(cell))[i] >= PositionOf(q)[i]
      BY <1>3, <2>1, <3>1, ReadOfCell, Sizes
    <3>3. o >= e /\ o \in Int /\ e \in Int
      BY <1>3, <2>1, <3>2, ReadOrder
    <3> HIDE DEF o, e
    <3> QED
      BY <3>3
  <2> HIDE DEF e, o, s, t
  <2>4. (s >= 0 => s * e <= s * o) /\ (s <= 0 => s * e >= s * o) /\ s * e \in Int /\ s * o \in Int
    BY <1>6, <2>2, <2>3
  <2> QED
    BY <1>6, <2>2, <2>4
<1> HIDE DEF I, g, u, v, s, t, next, prev, len
<1>10. Unit * t \in Int /\ u - v \in Int
  BY <1>4, <1>5, <1>7, Sizes
<1>11. ASSUME s >= 0 PROVE g >= 0
  <2>1. u >= Unit * t /\ v <= Unit * t
    BY <1>4, <1>5, <1>7, <1>8, <1>9, <1>11 DEF AllAbove, AllBelow
  <2>2. u - v >= 0
    BY <1>4, <1>5, <1>10, <2>1
  <2> DEFINE d == u - v
  <2> HIDE DEF d
  <2>3. d \in Int /\ d >= 0 /\ g = d \div len
    BY <1>2, <1>10, <2>2 DEF d
  <2> QED
    BY <1>1, <2>3, QuotientSign
<1>12. ASSUME s <= 0 PROVE g <= 0
  <2>1. u <= Unit * t /\ v >= Unit * t
    BY <1>4, <1>5, <1>7, <1>8, <1>9, <1>12 DEF AllAbove, AllBelow
  <2>2. u - v <= 0
    BY <1>4, <1>5, <1>10, <2>1
  <2> DEFINE d == u - v
  <2> HIDE DEF d
  <2>3. d \in Int /\ d <= 0 /\ g = d \div len
    BY <1>2, <1>10, <2>2 DEF d
  <2> QED
    BY <1>1, <2>3, QuotientSign
<1>13. g \in Int
  <2> DEFINE d == u - v
  <2> HIDE DEF d
  <2>1. d \in Int /\ g = d \div len
    BY <1>2, <1>10 DEF d
  <2> QED
    BY <1>1, <2>1, Quotient
<1> QED
  BY <1>11, <1>12, <1>13 DEF g, I, s

\* The corners of a coarse level are blurred from cells around the point.
LEMMA CornerReach ==
  ASSUME NEW p \in Probe, InFrame(p[1], p[2]), NEW cells \in SUBSET Cells(0),
         NEW cell \in Cells(1), cell \in CornerCells(p[1], p[2], grid_len(1))
  PROVE  Reach(cells, cell) \subseteq Around(p, 4 * CellWidth + 1)
<1> DEFINE w == CellWidth
           len == 2 * w
           x == p[1]
           y == p[2]
           d == Side - y
           row == cell[1]
           col == cell[2]
<1>1. /\ w \in Nat \ {0} /\ len \in Nat \ {0} /\ Side \in Nat /\ grid_len(1) = len
      /\ x \in Int /\ y \in Int /\ d \in Int /\ 0 <= x /\ x <= Side /\ 0 <= d /\ d <= Side
  <2>1. w \in Nat \ {0} /\ Side \in Nat
    BY Sizes
  <2>2. x \in 0 .. Side /\ y \in 0 .. Side
    BY DEF InFrame
  <2>3. grid_len(1) = len
    BY DEF grid_len
  <2> HIDE DEF x, y, w
  <2> QED
    BY <2>1, <2>2, <2>3
<1>2. row \in {d \div len, Ceil(d, len)} /\ col \in {x \div len, Ceil(x, len)}
  <2>1. CornerCells(x, y, len) = {d \div len, Ceil(d, len)} \X {x \div len, Ceil(x, len)}
    BY DEF CornerCells
  <2>2. cell \in CornerCells(x, y, len)
    BY <1>1
  <2> HIDE DEF x, y, d, len
  <2> QED
    BY <2>1, <2>2
<1>3. row \in Int /\ col \in Int
  BY CentreInside
<1>4. Centre(cell)[1] = 2 * row /\ Centre(cell)[2] = 2 * col
  BY DEF Centre
<1> HIDE DEF w, len, x, y, d, row, col
<1>5. Side <= Side * len
  BY <1>1
<1>6. ASSUME NEW z \in Int, 0 <= z, z <= Side, NEW j \in Int, j \in {z \div len, Ceil(z, len)}
      PROVE  -len < j * len - z /\ j * len - z < len
  <2>1. z \in 0 .. Side * len
    BY <1>1, <1>5, <1>6
  <2>2. \A a \in Int : -len < a * len - z /\ a * len - z < len <=> a \in {z \div len, Ceil(z, len)}
    BY ONLY <1>1, <2>1, Columns
  <2> QED
    BY <1>6, <2>2
<1>7. -len < row * len - d /\ row * len - d < len
  BY <1>1, <1>2, <1>3, <1>6
<1>8. -len < col * len - x /\ col * len - x < len
  BY <1>1, <1>2, <1>3, <1>6
<1>9. ASSUME NEW j \in Int, NEW z \in Int, NEW e \in Int, -len < j * len - z, j * len - z < len,
             2 * j - 2 <= e, e <= 2 * j + 2
      PROVE  e * w \in Int /\ Magnitude(e * w - z) < 4 * w + 1
  <2> DEFINE a == 2 * j - 2
             b == 2 * j + 2
  <2>1. a \in Int /\ b \in Int /\ a <= e /\ e <= b
    BY <1>9
  <2> HIDE DEF a, b
  <2>2. a * w <= e * w /\ e * w <= b * w /\ e * w \in Int
    BY <1>1, <2>1
  <2>3. a * w = j * len - len /\ b * w = j * len + len /\ j * len \in Int
    BY <1>1 DEF a, b, len
  <2> DEFINE v == j * len
             u == e * w
  <2> HIDE DEF u, v
  <2>4. -(2 * len) < u - z /\ u - z < 2 * len /\ u \in Int
    BY <1>1, <1>9, <2>2, <2>3 DEF u, v
  <2>5. 2 * len = 4 * w
    BY <1>1 DEF len
  <2>6. Magnitude(u - z) < 4 * w + 1
    BY <1>1, <2>4, <2>5 DEF Magnitude
  <2> QED
    BY <2>4, <2>6 DEF u
<1>10. ASSUME NEW q \in Reach(cells, cell) PROVE q \in Around(p, 4 * w + 1)
  <2> DEFINE a == q[1]
             b == q[2]
  <2>1. q \in Cells(0) /\ a \in Int /\ b \in Int
    BY ReachInside
  <2>2. 2 * row - 2 <= a /\ a <= 2 * row + 2 /\ 2 * col - 2 <= b /\ b <= 2 * col + 2
    <3>1. 1 \in 1 .. 2 /\ 2 \in 1 .. 2
      OBVIOUS
    <3> QED
      BY <1>4, <3>1 DEF Reach
  <2>3. PositionOf(q)[1] = b * w /\ PositionOf(q)[2] = Side - a * w
    BY DEF PositionOf, w
  <2> HIDE DEF a, b
  <2>4. b * w \in Int /\ Magnitude(b * w - x) < 4 * w + 1
    BY <1>1, <1>3, <1>8, <1>9, <2>1, <2>2
  <2>5. a * w \in Int /\ Magnitude(a * w - d) < 4 * w + 1
    BY <1>1, <1>3, <1>7, <1>9, <2>1, <2>2
  <2>6. Magnitude((Side - a * w) - y) < 4 * w + 1
    <3> DEFINE u == a * w
    <3> HIDE DEF u
    <3>1. u \in Int /\ Magnitude(u - d) < 4 * w + 1
      BY <2>5 DEF u
    <3>2. d = Side - y
      BY DEF d
    <3>3. Magnitude((Side - u) - y) < 4 * w + 1
      BY <1>1, <3>1, <3>2 DEF Magnitude
    <3> QED
      BY <3>3 DEF u
  <2>7. \A i \in 1 .. 2 : Magnitude(PositionOf(q)[i] - p[i]) < 4 * w + 1
    <3>1. 1 .. 2 = {1, 2}
      OBVIOUS
    <3> QED
      BY <2>3, <2>4, <2>6, <3>1 DEF x, y
  <2> QED
    BY <2>1, <2>7 DEF Around
<1> QED
  BY <1>10 DEF w

\* What the coarse image yields exceeds no bound of the heights shown around.
LEMMA CoarseHeight ==
  ASSUME NEW c \in Surface, NEW cells \in SUBSET Cells(0), NEW p \in Probe,
         fetch_I(pyr_down(calculate_I(c, cells)), p[1], p[2], 1) # T_INVALID
  PROVE  LET f == fetch_I(pyr_down(calculate_I(c, cells)), p[1], p[2], 1)
             near == Around(p, 4 * CellWidth + 1) \cap cells
         IN  /\ f \in Int /\ near # {}
             /\ \A l \in Int : /\ AllAbove(c, near, l) => f >= Unit * l
                               /\ AllBelow(c, near, l) => f <= Unit * l
<1> DEFINE I == pyr_down(calculate_I(c, cells))
           x == p[1]
           y == p[2]
           f == fetch_I(I, x, y, 1)
           near == Around(p, 4 * CellWidth + 1) \cap cells
           C == CornerCells(x, y, grid_len(1))
           len == grid_len(1)
<1>0. f # T_INVALID /\ x \in Int /\ y \in Int
  BY DEF Probe
<1>1. CornersShown(I, x, y, 1)
  <2> HIDE DEF I, x, y
  <2> QED
    BY <1>0, FetchCases
<1>2. InFrame(x, y) /\ \A cell \in C : cell \in Cells(1) /\ I[cell] # T_INVALID
  <2> HIDE DEF I, x, y
  <2> QED
    BY <1>1 DEF CornersShown
<1>3. ASSUME NEW cell \in C
      PROVE  /\ I[cell] \in Int /\ Centre(cell) \in near
             /\ \A l \in Int : /\ AllAbove(c, near, l) => I[cell] >= Unit * l
                               /\ AllBelow(c, near, l) => I[cell] <= Unit * l
  <2> DEFINE R == Reach(cells, cell)
             v == I[cell]
  <2>1. cell \in Cells(1) /\ v # T_INVALID
    BY <1>2
  <2>2. R \subseteq Around(p, 4 * CellWidth + 1)
    BY <1>2, <2>1, CornerReach
  <2>3. /\ v \in Int /\ Centre(cell) \in R
        /\ \A l \in Int : /\ AllAbove(c, R, l) => v >= Unit * l
                          /\ AllBelow(c, R, l) => v <= Unit * l
    BY <2>1, CoarseCell
  <2>4. R \subseteq near
    BY <2>2 DEF Reach
  <2> HIDE DEF R, v, near
  <2>5. \A l \in Int : /\ AllAbove(c, near, l) => AllAbove(c, R, l)
                       /\ AllBelow(c, near, l) => AllBelow(c, R, l)
    BY <2>4 DEF AllAbove, AllBelow
  <2> QED
    BY <2>3, <2>4, <2>5 DEF v
<1> HIDE DEF I, x, y, f, near
<1>4. near # {}
  <2>1. <<(Side - y) \div len, x \div len>> \in C
    BY DEF CornerCells
  <2> QED
    BY <1>3, <2>1
<1>5. PICK m \in Nat \ {0} : Unit = len * m
  <2>1. len = 2 * CellWidth
    BY DEF grid_len
  <2> HIDE DEF len
  <2> QED
    BY <2>1, Whole
<1>6. /\ f \in Int
      /\ \A l \in Int : /\ (\A cell \in C : I[cell] >= len * l) => f >= len * l
                        /\ (\A cell \in C : I[cell] <= len * l) => f <= len * l
  <2>1. \A cell \in CornerCells(x, y, grid_len(1)) : I[cell] \in Int
    BY <1>3
  <2> QED
    BY <1>0, <1>1, <2>1, FetchBetween DEF f
<1>7. len \in Nat \ {0}
  BY GridLen
<1> HIDE DEF C, len
<1>8. ASSUME NEW l \in Int
      PROVE  /\ AllAbove(c, near, l) => f >= Unit * l
             /\ AllBelow(c, near, l) => f <= Unit * l
  <2> DEFINE j == m * l
  <2>1. j \in Int /\ Unit * l = len * j
    BY <1>5, <1>7
  <2> HIDE DEF j
  <2>2. ASSUME AllAbove(c, near, l) PROVE f >= Unit * l
    <3>1. \A cell \in C : I[cell] >= len * j
      BY <1>3, <2>1, <2>2
    <3> QED
      BY <1>6, <2>1, <3>1
  <2>3. ASSUME AllBelow(c, near, l) PROVE f <= Unit * l
    <3>1. \A cell \in C : I[cell] <= len * j
      BY <1>3, <2>1, <2>3
    <3> QED
      BY <1>6, <2>1, <3>1
  <2> QED
    BY <2>2, <2>3
<1> QED
  BY <1>4, <1>6, <1>8 DEF f, near, I, x, y

\* What the coarse gradients yield has the sign of the slope.
LEMMA CoarseSlope ==
  ASSUME NEW c \in Surface, NEW cells \in SUBSET Cells(0), NEW i \in {1, 2}, NEW p \in Probe,
         Slope(c, 3 - i) = 0,
         fetch_I(eigen_central_gradient(pyr_down(calculate_I(c, cells)), AxisName(i), 1),
                 p[1], p[2], 1) # T_INVALID
  PROVE  LET g == fetch_I(eigen_central_gradient(pyr_down(calculate_I(c, cells)), AxisName(i), 1),
                          p[1], p[2], 1)
         IN  /\ g \in Int
             /\ Slope(c, i) >= 0 => g >= 0
             /\ Slope(c, i) <= 0 => g <= 0
<1> DEFINE G == eigen_central_gradient(pyr_down(calculate_I(c, cells)), AxisName(i), 1)
           x == p[1]
           y == p[2]
           g == fetch_I(G, x, y, 1)
           len == grid_len(1)
           C == CornerCells(x, y, grid_len(1))
           s == Slope(c, i)
<1>1. g # T_INVALID /\ x \in Int /\ y \in Int
  BY DEF Probe
<1>2. \A cell \in Cells(1) : G[cell] # T_INVALID =>
        G[cell] \in Int /\ (s >= 0 => G[cell] >= 0) /\ (s <= 0 => G[cell] <= 0)
  BY CoarseGradient
<1> HIDE DEF G, x, y, s
<1>3. CornersShown(G, x, y, 1)
  BY <1>1, FetchCases
<1>4. \A cell \in C : G[cell] \in Int /\ (s >= 0 => G[cell] >= 0) /\ (s <= 0 => G[cell] <= 0)
  BY <1>2, <1>3 DEF CornersShown
<1>5. /\ g \in Int
      /\ \A l \in Int : /\ (\A cell \in C : G[cell] >= len * l) => g >= len * l
                        /\ (\A cell \in C : G[cell] <= len * l) => g <= len * l
  <2>1. \A cell \in CornerCells(x, y, grid_len(1)) : G[cell] \in Int
    BY <1>4
  <2> HIDE DEF g
  <2> QED
    BY <1>1, <1>3, <2>1, FetchBetween DEF g
<1>6. len * 0 = 0
  BY GridLen
<1> HIDE DEF g, C, len
<1>7. s >= 0 => g >= 0
  BY <1>4, <1>5, <1>6, 0 \in Int
<1>8. s <= 0 => g <= 0
  BY <1>4, <1>5, <1>6, 0 \in Int
<1> QED
  BY <1>5, <1>7, <1>8 DEF g, G, s, x, y

\* An image has finitely many cells.
LEMMA CellsFinite == IsFiniteSet(Cells(0))
<1>1. IsFiniteSet(0 .. minimum_img_rso - 1)
  BY Sizes, FS_Interval
<1>2. Cells(0) = (0 .. minimum_img_rso - 1) \X (0 .. minimum_img_rso - 1)
  BY DEF Cells, ImageSize
<1> QED
  BY <1>1, <1>2, FS_Product

\* Of bounds in units, the extremes of the heights are the best, up to the error of the
\* table.
LEMMA BetweenExtremes ==
  ASSUME NEW c \in Surface, NEW near \in SUBSET Cells(0), near # {}, NEW f \in Int,
         \A l \in Int : /\ AllAbove(c, near, l) => f >= Unit * l
                        /\ AllBelow(c, near, l) => f <= Unit * l
  PROVE  LET heights == {PlaneHeight(c, PositionOf(cell)[1], PositionOf(cell)[2]) : cell \in near}
         IN  2 * f \in 2 * Min(heights) - TableError(c) .. 2 * Max(heights) + TableError(c)
<1> DEFINE h == [cell \in near |-> PlaneHeight(c, PositionOf(cell)[1], PositionOf(cell)[2])]
           r == [cell \in near |-> RawAt(c, cell)]
           H == {h[cell] : cell \in near}
           R == {r[cell] : cell \in near}
           U == Unit
           E == TableError(c)
<1>1. {PlaneHeight(c, PositionOf(cell)[1], PositionOf(cell)[2]) : cell \in near} = H
  OBVIOUS
<1>2. ASSUME NEW cell \in near
      PROVE  r[cell] = RawAt(c, cell) /\ r[cell] \in Int /\ h[cell] \in Int /\ HalfOff(E, h[cell], U * r[cell])
  <2> DEFINE x == PositionOf(cell)[1]
             y == PositionOf(cell)[2]
             u == ReadOf(cell)[1]
             v == ReadOf(cell)[2]
  <2>1. x \in 0 .. Side /\ y \in 0 .. Side
    BY CellPosition
  <2>2. u \in Int /\ v \in Int /\ u = ReadAt(x, y)[1] /\ v = ReadAt(x, y)[2]
    BY ReadOfCell DEF ReadOf
  <2>3. h[cell] = PlaneHeight(c, x, y) /\ RawAt(c, cell) = Raw(c, u, v) /\ r[cell] = RawAt(c, cell)
    BY DEF RawAt
  <2> HIDE DEF h, r, x, y, u, v
  <2>4. PlaneHeight(c, u, v) = U * Raw(c, u, v) /\ Raw(c, u, v) \in Int
    BY <2>2, HeightKnown
  <2>5. PlaneHeight(c, x, y) \in Int /\ HalfOff(E, PlaneHeight(c, x, y), PlaneHeight(c, u, v))
    BY <2>1, <2>2, TableWithin DEF HalfOff
  <2> QED
    BY <2>3, <2>4, <2>5
<1>3. IsFiniteSet(near)
  BY CellsFinite, FS_Subset
<1> HIDE DEF h, r
<1>4. IsFiniteSet(H) /\ IsFiniteSet(R)
  BY <1>3, ImageFinite
<1>5. H \subseteq Int /\ H # {} /\ R \subseteq Int /\ R # {}
  BY <1>2
<1>6. Least(H, Min(H)) /\ Greatest(H, Max(H)) /\ Least(R, Min(R)) /\ Greatest(R, Max(R))
  <2> HIDE DEF H, R
  <2> QED
    BY <1>4, <1>5, Extremes
<1>7. U \in Nat \ {0} /\ E \in Int
  BY Sizes, ErrorUnits
<1> HIDE DEF U, E
<1>8. Min(H) \in Int /\ 2 * Min(H) - E <= 2 * f
  <2>1. PICK low \in near : Min(R) = r[low]
    BY <1>6 DEF Least
  <2> DEFINE l == r[low]
  <2>2. l \in Int /\ \A q \in near : RawAt(c, q) >= l
    BY <1>2, <1>6, <2>1 DEF Least
  <2>3. f >= U * l
    BY <2>2 DEF AllAbove, U
  <2>4. h[low] \in Int /\ h[low] >= Min(H) /\ HalfOff(E, h[low], U * l) /\ Min(H) \in Int
    BY <1>2, <1>5, <1>6 DEF Least
  <2> DEFINE a == Min(H)
             b == h[low]
             z == U * l
  <2>5. z \in Int
    BY <1>7, <2>2
  <2> HIDE DEF l, a, b, z
  <2>6. a \in Int /\ b \in Int /\ b >= a /\ 2 * (b - z) <= E /\ f >= z
    BY <2>3, <2>4 DEF HalfOff, a, b, z
  <2>7. 2 * a - E <= 2 * f
    BY <1>7, <2>5, <2>6
  <2> QED
    BY <2>6, <2>7 DEF a
<1>9. Max(H) \in Int /\ 2 * f <= 2 * Max(H) + E
  <2>1. PICK high \in near : Max(R) = r[high]
    BY <1>6 DEF Greatest
  <2> DEFINE l == r[high]
  <2>2. l \in Int /\ \A q \in near : RawAt(c, q) <= l
    BY <1>2, <1>6, <2>1 DEF Greatest
  <2>3. f <= U * l
    BY <2>2 DEF AllBelow, U
  <2>4. h[high] \in Int /\ h[high] <= Max(H) /\ HalfOff(E, h[high], U * l) /\ Max(H) \in Int
    BY <1>2, <1>5, <1>6 DEF Greatest
  <2> DEFINE a == Max(H)
             b == h[high]
             z == U * l
  <2>5. z \in Int
    BY <1>7, <2>2
  <2> HIDE DEF l, a, b, z
  <2>6. a \in Int /\ b \in Int /\ b <= a /\ -E <= 2 * (b - z) /\ f <= z
    BY <2>3, <2>4 DEF HalfOff, a, b, z
  <2>7. 2 * f <= 2 * a + E
    BY <1>7, <2>5, <2>6
  <2> QED
    BY <2>6, <2>7 DEF a
<1>10. 2 * f \in 2 * Min(H) - E .. 2 * Max(H) + E
  <2> HIDE DEF H
  <2> QED
    BY <1>7, <1>8, <1>9
<1> QED
  BY <1>1, <1>10 DEF E

\* A residual against a coarse image is as it must be.
LEMMA CoarseIsSound ==
  ASSUME extracted \in Surface, NEW cells \in SUBSET Cells(0), pyramids = Pyramids(extracted, cells),
         ~is_SH_analytic_jacobian, pyramid_idx = 1, 1 \in 0 .. Depth(FALSE) - 1, NEW p \in Probe,
         evaluation = CoupleFixSphDirectFactor(p)
  PROVE  CoarseBetween(p)
<1> DEFINE c == extracted
           I == pyr_down(calculate_I(c, cells))
           f == fetch_I(I, p[1], p[2], 1)
           is_fault == f = T_INVALID \/ Magnitude(Unit * p[3] - f) > Unit * max_valid_residual
           e == ImageSlopes(p[1], p[2], 1)
           near == Around(p, grid_len(pyramid_idx) + 2 * grid_len(pyramid_idx - 1) + 1) \cap Shown
           heights == {PlaneHeight(c, PositionOf(cell)[1], PositionOf(cell)[2]) : cell \in near}
<1>1. /\ pyramids[1].I = I
      /\ \A i \in {1, 2} : GradientOf(1, i) = eigen_central_gradient(I, AxisName(i), 1)
  <2>1. ImageOf(c, cells, 1) = I
    BY DEF ImageOf
  <2>2. /\ pyramids[1].I = ImageOf(c, cells, 1)
        /\ \A i \in {1, 2} : GradientOf(1, i) = eigen_central_gradient(ImageOf(c, cells, 1), AxisName(i), 1)
    BY Levels
  <2> QED
    BY <2>1, <2>2
<1>2. /\ evaluation.used = ~is_fault
      /\ evaluation.residual = IF is_fault THEN 0 ELSE Unit * p[3] - f
      /\ evaluation.slopes = IF is_fault THEN <<0, 0>> ELSE e
  BY <1>1, ImageResidual
<1>3. Shown = cells
  <2>1. pyramids[0].I = calculate_I(c, cells)
    BY FinestLevel, Levels DEF ImageOf
  <2> QED
    BY <2>1, FineCells DEF Shown
<1>4. near = Around(p, 4 * CellWidth + 1) \cap cells
  <2>1. grid_len(pyramid_idx) = 2 * CellWidth /\ grid_len(pyramid_idx - 1) = CellWidth
    BY DEF grid_len
  <2>2. grid_len(pyramid_idx) + 2 * grid_len(pyramid_idx - 1) + 1 = 4 * CellWidth + 1
    BY <2>1, Sizes
  <2> QED
    BY <1>3, <2>2
<1> SUFFICES ASSUME evaluation.used
             PROVE  /\ 2 * (Unit * p[3] - evaluation.residual)
                         \in 2 * Min(heights) - TableError(c) .. 2 * Max(heights) + TableError(c)
                    /\ \A i \in 1 .. 2 : Slopes(c)[3 - i] = 0 =>
                         evaluation.slopes[i] * c[IF i = 1 THEN "x" ELSE "y"] >= 0
  BY DEF CoarseBetween
<1>5. f # T_INVALID /\ evaluation.residual = Unit * p[3] - f /\ evaluation.slopes = e
  BY <1>2
<1>6. f \in Int /\ 2 * f \in 2 * Min(heights) - TableError(c) .. 2 * Max(heights) + TableError(c)
  <2>1. /\ f \in Int /\ near # {}
        /\ \A l \in Int : /\ AllAbove(c, near, l) => f >= Unit * l
                          /\ AllBelow(c, near, l) => f <= Unit * l
    BY <1>4, <1>5, CoarseHeight
  <2>2. near \in SUBSET Cells(0)
    BY <1>4
  <2> HIDE DEF f, near
  <2> QED
    BY <2>1, <2>2, BetweenExtremes
<1>7. Unit * p[3] - evaluation.residual = f
  <2>1. Unit * p[3] \in Int
    BY Sizes DEF Probe
  <2> HIDE DEF f
  <2> QED
    BY <1>5, <1>6, <2>1
<1>8. ASSUME NEW i \in {1, 2}, Slopes(c)[3 - i] = 0
      PROVE  e[i] * c[IF i = 1 THEN "x" ELSE "y"] >= 0
  <2> DEFINE g == fetch_I(GradientOf(1, i), p[1], p[2], 1)
             s == Slope(c, i)
  <2>1. e[i] = IF g = T_INVALID THEN 0 ELSE g
    BY SlopeFetched
  <2>2. Slope(c, 3 - i) = 0
    <3> DEFINE o == 3 - i
    <3>1. o \in {1, 2}
      OBVIOUS
    <3> HIDE DEF o
    <3> DEFINE t == Slope(c, o)
    <3>2. t \in Int /\ Unit * t = 0
      BY <1>8, <3>1, SlopeKnown DEF o
    <3> HIDE DEF t
    <3>3. Unit \in Nat \ {0}
      BY Sizes
    <3>4. t * Unit = 0 * Unit
      BY <3>2, <3>3
    <3>5. t = 0
      BY <3>2, <3>3, <3>4, Cancels
    <3> QED
      BY <3>5 DEF o, t
  <2>3. c[IF i = 1 THEN "x" ELSE "y"] = s /\ s \in Int
    BY DEF Slope, Surface
  <2>4. g = fetch_I(eigen_central_gradient(I, AxisName(i), 1), p[1], p[2], 1)
    BY <1>1
  <2> HIDE DEF g
  <2>5. g # T_INVALID => g \in Int /\ (s >= 0 => g >= 0) /\ (s <= 0 => g <= 0)
    BY <2>2, <2>4, CoarseSlope
  <2> DEFINE v == e[i]
  <2>6. v = IF g = T_INVALID THEN 0 ELSE g
    BY <2>1
  <2> HIDE DEF v, s, e
  <2>7. v \in Int /\ (s >= 0 => v >= 0) /\ (s <= 0 => v <= 0)
    BY <2>5, <2>6
  <2>8. v * s >= 0
    <3>1. CASE s >= 0
      BY <2>3, <2>7, <3>1
    <3>2. CASE s < 0
      <4> DEFINE a == -v
                 b == -s
      <4>1. a \in Nat /\ b \in Nat /\ v * s = a * b
        BY <2>3, <2>7, <3>2
      <4> HIDE DEF a, b
      <4> QED
        BY <4>1
    <3> QED
      BY <2>3, <3>1, <3>2
  <2> QED
    BY <2>3, <2>8 DEF v
<1>9. \A i \in 1 .. 2 : i \in {1, 2}
  OBVIOUS
<1> HIDE DEF e, f, heights
<1> QED
  BY <1>5, <1>6, <1>7, <1>8, <1>9

\* A residual against the table of spherical harmonics is as it must be.
LEMMA TableIsSound ==
  ASSUME sph_coeff \in Surface, is_SH_analytic_jacobian, NEW p \in Probe,
         evaluation = CoupleFixSphDirectFactor(p), evaluation.used
  PROVE  /\ NearTable(sph_coeff, p, evaluation.residual)
         /\ SlopesOrNone(sph_coeff, evaluation.slopes)
<1> DEFINE I == get_recons_height(sph_coeff, p[1], p[2])
<1>1. /\ evaluation.used => I # T_INVALID /\ evaluation.residual = Unit * p[3] - I
                              /\ evaluation.slopes = TableSlopes(sph_coeff, p[1], p[2])
  BY DEF CoupleFixSphDirectFactor
<1>2. InFrame(p[1], p[2])
  BY <1>1 DEF get_recons_height
<1>3. NearTable(sph_coeff, p, Unit * p[3] - I)
  BY <1>2, TableNear DEF Probe
<1> QED
  BY <1>1, <1>3, TableSlopesSound

-----------------------------------------------------------------------------
(* The invariant                                                           *)

\* What a solver evaluates, and when.
Evaluated ==
  \/ evaluation = NoEvaluation
  \/ /\ remaining \in 0 .. Depth(is_SH_analytic_jacobian) - 1
     /\ \E p \in Probes : evaluation = CoupleFixSphDirectFactor(p)
  \/ \E c \in Surfaces, p \in Probes, opt_status \in OptStatuses :
       evaluation = CoupleSphModFactor(p, c, opt_status)
  \/ /\ adjustment # NoAdjustment
     /\ \E c \in Surfaces : \E p \in adjustment.points : evaluation = CoupleSphModRegFactor(p, c)

\* The image is of the surface that scans left, whatever was committed since.
Shows == \E cells \in SUBSET Cells(0) : pyramids = Pyramids(extracted, cells)

\* The points of an adjustment are of one surface.
Holding ==
  \/ adjustment = NoAdjustment
  \/ adjustment.of \in Surfaces /\ OfSurface(adjustment.of, adjustment.points)

\* Besides, a registration's levels count down.
Kept ==
  /\ is_SH_analytic_jacobian \in BOOLEAN /\ {sph_coeff, extracted} \subseteq Surfaces
  /\ mask \subseteq Cells(0)
  /\ ~is_SH_analytic_jacobian => Shows
  /\ Holding
  /\ remaining \in {-1} \cup 0 .. Depth(is_SH_analytic_jacobian)
  /\ ~is_SH_analytic_jacobian /\ remaining # -1 => pyramid_idx = remaining

Factors == Kept /\ Evaluated

\* Surfaces and measured points are what the lemmas above are about.
LEMMA Known == Surfaces \subseteq Surface /\ Probes \subseteq Probe
BY FactorAssumption DEF Surface, Probe

\* What a solver evaluates is sound.
LEMMA DirectIsSound ==
  ASSUME Kept, remaining \in 0 .. Depth(is_SH_analytic_jacobian) - 1,
         NEW p \in Probes, evaluation = CoupleFixSphDirectFactor(p)
  PROVE  /\ evaluation.kind = "direct" /\ evaluation.p = p /\ DirectSound(p)
         /\ ~evaluation.used => evaluation.residual = 0 /\ evaluation.slopes = <<0, 0>>
<1>1. sph_coeff \in Surface /\ extracted \in Surface /\ p \in Probe
  BY Known DEF Kept
<1>2. /\ evaluation.kind = "direct" /\ evaluation.p = p
      /\ ~evaluation.used => evaluation.residual = 0 /\ evaluation.slopes = <<0, 0>>
  BY DEF CoupleFixSphDirectFactor
<1>3. CASE is_SH_analytic_jacobian
  <2>1. evaluation.used => /\ NearTable(sph_coeff, p, evaluation.residual)
                           /\ SlopesOrNone(sph_coeff, evaluation.slopes)
    BY <1>1, <1>3, TableIsSound
  <2> QED
    BY <1>2, <1>3, <2>1 DEF DirectSound
<1>4. CASE ~is_SH_analytic_jacobian
  <2>1. PICK cells \in SUBSET Cells(0) : pyramids = Pyramids(extracted, cells)
    BY <1>4 DEF Kept, Shows
  <2>2. Depth(is_SH_analytic_jacobian) = Depth(FALSE)
    BY <1>4 DEF Depth
  <2>3. pyramid_idx = remaining /\ pyramid_idx \in 0 .. Depth(FALSE) - 1
    <3> DEFINE n == Depth(FALSE)
    <3>1. remaining \in 0 .. n - 1
      BY <2>2
    <3>2. n \in {1, 2}
      BY DEF Depth
    <3> HIDE DEF n
    <3>3. remaining # -1
      BY <3>1, <3>2
    <3> QED
      BY <1>4, <3>1, <3>3 DEF Kept, n
  <2>4. pyramid_idx \in {0, 1}
    BY <2>1, <2>3, Levels
  <2>5. CASE pyramid_idx = 0
    <3>1. FineNear(p)
      BY <1>1, <1>4, <2>1, <2>5, FineIsSound
    <3> QED
      BY <1>2, <1>4, <2>5, <3>1 DEF DirectSound
  <2>6. CASE pyramid_idx = 1
    <3>1. 1 \in 0 .. Depth(FALSE) - 1
      BY <2>3, <2>6
    <3>2. CoarseBetween(p)
      BY <1>1, <1>4, <2>1, <2>6, <3>1, CoarseIsSound
    <3> QED
      BY <1>2, <1>4, <2>6, <3>2 DEF DirectSound
  <2> QED
    BY <2>4, <2>5, <2>6
<1> QED
  BY <1>3, <1>4 DEF Kept

\* With the invariant, every residual is sound.
LEMMA FactorsSound == Factors => ResidualsSound
<1> SUFFICES ASSUME Factors PROVE ResidualsSound
  OBVIOUS
<1> USE DEF Factors
<1>1. LevelsDescend
  <2> DEFINE n == Depth(is_SH_analytic_jacobian)
  <2>1. n \in {1, 2}
    BY DEF Depth
  <2> HIDE DEF n
  <2>2. remaining \in 0 .. n - 1 => remaining # -1
    BY <2>1
  <2> QED
    BY <2>2 DEF Kept, LevelsDescend, n
<1> DEFINE Sound ==
             /\ evaluation.kind # "none" /\ ~ evaluation.used => evaluation.residual = 0
             /\ evaluation.kind = "direct" =>
                  DirectSound(evaluation.p) /\ (~evaluation.used => evaluation.slopes = <<0, 0>>)
             /\ evaluation.kind = "couple" => CoupleSound(evaluation.p, evaluation.coeff)
             /\ evaluation.kind = "reg" /\ evaluation.coeff = adjustment.of => evaluation.residual = 0
<1>2. CASE evaluation = NoEvaluation
  <2>1. evaluation.kind = "none"
    BY <1>2 DEF NoEvaluation
  <2>2. Sound
    BY <2>1
  <2> QED
    BY <1>1, <2>2 DEF ResidualsSound
<1>3. CASE /\ remaining \in 0 .. Depth(is_SH_analytic_jacobian) - 1
           /\ \E p \in Probes : evaluation = CoupleFixSphDirectFactor(p)
  <2>1. PICK p \in Probes : evaluation = CoupleFixSphDirectFactor(p)
    BY <1>3
  <2>2. /\ evaluation.kind = "direct" /\ evaluation.p = p /\ DirectSound(p)
        /\ ~evaluation.used => evaluation.residual = 0 /\ evaluation.slopes = <<0, 0>>
    BY <1>3, <2>1, DirectIsSound
  <2>3. Sound
    BY <2>2
  <2> QED
    BY <1>1, <2>3 DEF ResidualsSound
<1>4. CASE \E c \in Surfaces, p \in Probes, opt_status \in OptStatuses :
             evaluation = CoupleSphModFactor(p, c, opt_status)
  <2>1. PICK c \in Surfaces, p \in Probes, opt_status \in OptStatuses :
          evaluation = CoupleSphModFactor(p, c, opt_status)
    BY <1>4
  <2>2. mask \subseteq Int \X Int
    <3>1. \A j \in 0 .. minimum_img_rso - 1 : j \in Int
      BY Sizes
    <3> QED
      BY <3>1 DEF Kept, Cells, ImageSize
  <2>3. /\ CoupleSound(p, c)
        /\ evaluation.kind = "couple" /\ evaluation.p = p /\ evaluation.coeff = c
        /\ ~evaluation.used => evaluation.residual = 0
    BY <2>1, <2>2, Known, CoupleIsSound
  <2>4. Sound
    BY <2>3
  <2> QED
    BY <1>1, <2>4 DEF ResidualsSound
<1>5. CASE /\ adjustment # NoAdjustment
           /\ \E c \in Surfaces : \E p \in adjustment.points : evaluation = CoupleSphModRegFactor(p, c)
  <2>1. PICK c \in Surfaces, p \in adjustment.points : evaluation = CoupleSphModRegFactor(p, c)
    BY <1>5
  <2>2. adjustment.of \in Surface /\ OfSurface(adjustment.of, adjustment.points)
    BY <1>5, Known DEF Kept, Holding
  <2>3. /\ evaluation.kind = "reg" /\ evaluation.coeff = c
        /\ ~evaluation.used => evaluation.residual = 0
        /\ c = adjustment.of => evaluation.residual = 0
    BY <2>1, <2>2, RegIsSound
  <2>4. Sound
    BY <2>3
  <2> QED
    BY <1>1, <2>4 DEF ResidualsSound
<1> QED
  BY <1>2, <1>3, <1>4, <1>5 DEF Evaluated

-----------------------------------------------------------------------------
(* The invariant holds                                                     *)

\* A scan fills cells of the image only.
LEMMA MaskInside == \A scan : UpdateMask(scan) \subseteq Cells(0)
<1> SUFFICES ASSUME NEW scan PROVE UpdateMask(scan) \subseteq Cells(0)
  OBVIOUS
<1>1. update_mask(scan) \subseteq Cells(0)
  BY DEF update_mask
<1>2. update_mask_low_RAM(scan) \subseteq Cells(0)
  BY DEF update_mask_low_RAM
<1> QED
  BY <1>1, <1>2 DEF UpdateMask

\* An image has one level or two.
LEMMA DepthRange == \A lowRAM : Depth(lowRAM) \in {1, 2}
BY DEF Depth

\* A patch is created with its image.
LEMMA FactorsAtFirst == FactorInit => Factors
<1> SUFFICES ASSUME FactorInit PROVE Factors
  OBVIOUS
<1>1. mask \subseteq Cells(0)
  BY MaskInside DEF FactorInit
<1>2. ~is_SH_analytic_jacobian => Shows
  BY <1>1 DEF FactorInit, Shows
<1>3. Kept
  BY <1>1, <1>2 DEF FactorInit, Kept, Holding
<1>4. Evaluated
  BY DEF FactorInit, Evaluated
<1> QED
  BY <1>3, <1>4 DEF Factors

\* What an evaluation returns depends on the surface and its image only.
LEMMA SameFactors ==
  ASSUME UNCHANGED <<patchVars, solveVars, adjustment>>
  PROVE  /\ \A p : CoupleFixSphDirectFactor(p)' = CoupleFixSphDirectFactor(p)
         /\ \A p, c, opt_status :
              CoupleSphModFactor(p, c, opt_status)' = CoupleSphModFactor(p, c, opt_status)
         /\ \A p, c : CoupleSphModRegFactor(p, c)' = CoupleSphModRegFactor(p, c)
         /\ (Kept <=> Kept')
<1> USE DEF patchVars, solveVars
<1>1. \A c, x, y : TableSlopes(c, x, y)' = TableSlopes(c, x, y)
  BY DEF TableSlopes, check_is_on_edge_low_RAM, mask_idx_flags
<1>2. \A x, y, k : ImageSlopes(x, y, k)' = ImageSlopes(x, y, k)
  BY DEF ImageSlopes
<1>3. \A x, y : is_valid_in_mask(x, y)' = is_valid_in_mask(x, y)
  BY DEF is_valid_in_mask
<1>4. \A p : CoupleFixSphDirectFactor(p)' = CoupleFixSphDirectFactor(p)
  BY <1>1, <1>2 DEF CoupleFixSphDirectFactor
<1>5. \A p, c, opt_status : CoupleSphModFactor(p, c, opt_status)' = CoupleSphModFactor(p, c, opt_status)
  BY <1>1, <1>3 DEF CoupleSphModFactor
<1>6. \A p, c : CoupleSphModRegFactor(p, c)' = CoupleSphModRegFactor(p, c)
  BY DEF CoupleSphModRegFactor
<1>7. Kept <=> Kept'
  BY DEF Kept, Shows, Holding
<1> QED
  BY <1>4, <1>5, <1>6, <1>7

\* A scan that is added changes the surface and its image together.
LEMMA UpdateKeeps == Factors /\ UpdateSphResiduals => Factors'
<1> SUFFICES ASSUME Factors, UpdateSphResiduals PROVE Factors'
  OBVIOUS
<1>1. mask' \subseteq Cells(0)
  BY MaskInside DEF UpdateSphResiduals, Factors, Kept
<1>2. /\ UNCHANGED <<is_SH_analytic_jacobian, remaining, pyramid_idx, adjustment, evaluation>>
      /\ evaluation = NoEvaluation
  BY DEF UpdateSphResiduals, Idle, solveVars
<1>3. {sph_coeff', extracted'} \subseteq Surfaces /\ (~is_SH_analytic_jacobian => Shows')
  <2>1. CASE UNCHANGED <<sph_coeff, extracted, pyramids>>
    BY <2>1 DEF Factors, Kept, Shows
  <2>2. CASE /\ sph_coeff' \in Surfaces /\ extracted' = sph_coeff'
             /\ pyramids' = IF is_SH_analytic_jacobian THEN NoPyramids ELSE Pyramids(sph_coeff', mask')
    BY <1>1, <2>2 DEF Shows
  <2> QED
    BY <2>1, <2>2 DEF UpdateSphResiduals
<1>4. Holding'
  BY <1>2 DEF Factors, Kept, Holding
<1>5. Kept'
  BY <1>1, <1>2, <1>3, <1>4 DEF Factors, Kept
<1>6. Evaluated'
  BY <1>2 DEF Evaluated
<1> QED
  BY <1>5, <1>6 DEF Factors

\* An adjustment reads its points from the surface, and one whose coefficients are
\* committed leaves the image of the surface that scans left.
LEMMA AdjustmentKeeps == Factors /\ (LoadResiduals \/ CommitBASphCoeff) => Factors'
<1> SUFFICES ASSUME Factors, LoadResiduals \/ CommitBASphCoeff PROVE Factors'
  OBVIOUS
<1>1. /\ UNCHANGED <<is_SH_analytic_jacobian, extracted, mask, pyramids, remaining, pyramid_idx, evaluation>>
      /\ evaluation = NoEvaluation
  BY DEF LoadResiduals, CommitBASphCoeff, Idle, patchVars, solveVars
<1>2. sph_coeff' \in Surfaces
  BY DEF LoadResiduals, CommitBASphCoeff, patchVars, Factors, Kept
<1>3. Holding'
  <2>1. CASE LoadResiduals
    <3>1. adjustment'.of = sph_coeff /\ adjustment'.points = get_recons_v_obj_downsample
      BY <2>1 DEF LoadResiduals
    <3>2. OfSurface(sph_coeff, get_recons_v_obj_downsample) /\ sph_coeff \in Surfaces
      BY PointsRead DEF Factors, Kept
    <3> QED
      BY <3>1, <3>2 DEF Holding
  <2>2. CASE CommitBASphCoeff
    BY <2>2 DEF CommitBASphCoeff, Holding, NoAdjustment
  <2> QED
    BY <2>1, <2>2
<1>4. ~is_SH_analytic_jacobian => Shows'
  BY <1>1 DEF Factors, Kept, Shows
<1>5. Kept'
  BY <1>1, <1>2, <1>3, <1>4 DEF Factors, Kept
<1>6. Evaluated'
  BY <1>1 DEF Evaluated
<1> QED
  BY <1>5, <1>6 DEF Factors

\* A registration begins at the coarsest level and goes down one by one.
LEMMA LevelsKeep == Factors /\ (CreateFactors \/ NextSolve \/ EndRegistration) => Factors'
<1> SUFFICES ASSUME Factors, CreateFactors \/ NextSolve \/ EndRegistration PROVE Factors'
  OBVIOUS
<1> DEFINE n == Depth(is_SH_analytic_jacobian)
<1>1. n \in {1, 2}
  BY DepthRange
<1>2. UNCHANGED <<patchVars, adjustment, evaluation>> /\ evaluation = NoEvaluation
  BY DEF CreateFactors, NextSolve, EndRegistration, Idle
<1> HIDE DEF n
<1>3. /\ remaining \in {-1} \cup 0 .. n
      /\ ~is_SH_analytic_jacobian /\ remaining # -1 => pyramid_idx = remaining
  BY DEF Factors, Kept, n
<1>4. /\ remaining' \in {-1} \cup 0 .. n
      /\ ~is_SH_analytic_jacobian /\ remaining' # -1 => pyramid_idx' = remaining'
  <2>1. CASE CreateFactors
    <3>1. remaining' = n /\ pyramid_idx' = n
      BY <2>1 DEF CreateFactors, n
    <3> QED
      BY <1>1, <3>1
  <2>2. CASE NextSolve
    <3>1. /\ remaining > 0 /\ remaining' = remaining - 1
          /\ ~is_SH_analytic_jacobian => pyramid_idx' = IF pyramid_idx - 1 < 0 THEN 0 ELSE pyramid_idx - 1
      BY <2>2 DEF NextSolve, update_pyramid_idx
    <3> QED
      BY <1>1, <1>3, <3>1
  <2>3. CASE EndRegistration
    <3>1. remaining' = -1
      BY <2>3 DEF EndRegistration
    <3> QED
      BY <3>1
  <2> QED
    BY <2>1, <2>2, <2>3
<1>5. Kept'
  <2>1. Holding' /\ (~is_SH_analytic_jacobian => Shows')
    BY <1>2 DEF patchVars, Factors, Kept, Holding, Shows
  <2> QED
    BY <1>2, <1>4, <2>1 DEF patchVars, Factors, Kept, n
<1>6. Evaluated'
  BY <1>2 DEF Evaluated
<1> QED
  BY <1>5, <1>6 DEF Factors

\* An evaluation changes nothing that it depends on.
LEMMA EvaluationsKeep ==
  Factors /\ (EvaluateDirect \/ EvaluateAdjustment \/ TakeResidual \/ UNCHANGED factorVars) => Factors'
<1> SUFFICES ASSUME Factors,
                    EvaluateDirect \/ EvaluateAdjustment \/ TakeResidual \/ UNCHANGED factorVars
             PROVE  Factors'
  OBVIOUS
<1>1. UNCHANGED <<patchVars, solveVars, adjustment>>
  BY DEF EvaluateDirect, EvaluateAdjustment, TakeResidual, factorVars
<1>2. Kept'
  BY <1>1, SameFactors DEF Factors
<1>3. Evaluated'
  <2> DEFINE Of(e) ==
               \/ e = NoEvaluation
               \/ /\ remaining \in 0 .. Depth(is_SH_analytic_jacobian) - 1
                  /\ \E p \in Probes : e = CoupleFixSphDirectFactor(p)
               \/ \E c \in Surfaces, p \in Probes, opt_status \in OptStatuses :
                    e = CoupleSphModFactor(p, c, opt_status)
               \/ /\ adjustment # NoAdjustment
                  /\ \E c \in Surfaces : \E p \in adjustment.points : e = CoupleSphModRegFactor(p, c)
  <2>1. Of(evaluation')
    <3>1. CASE EvaluateDirect
      BY <3>1 DEF EvaluateDirect
    <3>2. CASE EvaluateAdjustment
      BY <3>2 DEF EvaluateAdjustment
    <3>3. CASE TakeResidual
      BY <3>3 DEF TakeResidual
    <3>4. CASE UNCHANGED factorVars
      BY <3>4 DEF factorVars, Factors, Evaluated
    <3> QED
      BY <3>1, <3>2, <3>3, <3>4
  <2>2. Evaluated' <=> Of(evaluation')
    BY <1>1, SameFactors DEF Evaluated, patchVars, solveVars
  <2> QED
    BY <2>1, <2>2
<1> QED
  BY <1>2, <1>3 DEF Factors

\* What moves poses and surfaces (CoupleFixSphDirectFactor, CoupleSphModFactor and
\* CoupleSphModRegFactor) is, up to the step of the table, the distance of a point from
\* a surface and that surface's slope: in the default mode, at every level of the
\* image, from the one that the last extraction left, also after commit_BA_sph_coeff; in
\* the low RAM mode from the coefficients as they are.
THEOREM ResidualsAreSound == FactorSpec => []ResidualsSound
<1>1. FactorInit => Factors
  BY FactorsAtFirst
<1>2. Factors /\ [FactorNext]_factorVars => Factors'
  BY UpdateKeeps, AdjustmentKeeps, LevelsKeep, EvaluationsKeep DEF FactorNext
<1>3. Factors => ResidualsSound
  BY FactorsSound
<1> QED
  BY <1>1, <1>2, <1>3, PTL DEF FactorSpec

-----------------------------------------------------------------------------
(* Lists of indices                                                        *)
\* A list of the members of a set, each of them once.
Enumerates(s, A) ==
  /\ s \in Seq(A)
  /\ \A i, j \in 1 .. Len(s) : s[i] = s[j] => i = j
  /\ \A x \in A : \E i \in 1 .. Len(s) : s[i] = x

\* The empty list.
LEMMA NothingEnumerated == Enumerates(<<>>, {})
BY DEF Enumerates

\* Two lists of different members, one behind the other.
LEMMA BothEnumerated ==
  ASSUME NEW s, NEW A, Enumerates(s, A), NEW t, NEW B, Enumerates(t, B), A \cap B = {}
  PROVE  Enumerates(s \o t, A \cup B)
<1> DEFINE u == s \o t
           m == Len(s)
           n == Len(t)
<1>1. s \in Seq(A \cup B) /\ t \in Seq(A \cup B) /\ m \in Nat /\ n \in Nat
  BY DEF Enumerates
<1>2. u \in Seq(A \cup B) /\ Len(u) = m + n
  BY <1>1
<1>3. \A i \in 1 .. m + n : u[i] = IF i <= m THEN s[i] ELSE t[i - m]
  BY <1>1
<1>4. \A i \in 1 .. m : s[i] \in A
  BY DEF Enumerates
<1>5. \A i \in 1 .. n : t[i] \in B
  BY DEF Enumerates
<1> HIDE DEF u
<1>6. ASSUME NEW i \in 1 .. m + n, NEW j \in 1 .. m + n, u[i] = u[j] PROVE i = j
  <2>1. CASE i <= m /\ j <= m
    <3>1. i \in 1 .. m /\ j \in 1 .. m /\ s[i] = s[j]
      BY <1>1, <1>3, <1>6, <2>1
    <3> QED
      BY <3>1 DEF Enumerates
  <2>2. CASE i > m /\ j > m
    <3>1. i - m \in 1 .. n /\ j - m \in 1 .. n /\ t[i - m] = t[j - m]
      BY <1>1, <1>3, <1>6, <2>2
    <3>2. i - m = j - m
      BY <3>1 DEF Enumerates
    <3> QED
      BY <1>1, <3>2
  <2>3. CASE i <= m /\ j > m
    <3>1. i \in 1 .. m /\ j - m \in 1 .. n /\ s[i] = t[j - m]
      BY <1>1, <1>3, <1>6, <2>3
    <3> QED
      BY <1>4, <1>5, <3>1
  <2>4. CASE i > m /\ j <= m
    <3>1. j \in 1 .. m /\ i - m \in 1 .. n /\ s[j] = t[i - m]
      BY <1>1, <1>3, <1>6, <2>4
    <3> QED
      BY <1>4, <1>5, <3>1
  <2> QED
    BY <1>1, <2>1, <2>2, <2>3, <2>4
<1>7. ASSUME NEW x \in A \cup B PROVE \E i \in 1 .. m + n : u[i] = x
  <2>1. CASE x \in A
    <3>1. PICK i \in 1 .. m : s[i] = x
      BY <2>1 DEF Enumerates
    <3>2. i \in 1 .. m + n /\ i <= m
      BY <1>1, <3>1
    <3> QED
      BY <1>3, <3>1, <3>2
  <2>2. CASE x \in B
    <3>1. PICK i \in 1 .. n : t[i] = x
      BY <2>2 DEF Enumerates
    <3>2. i + m \in 1 .. m + n /\ ~ i + m <= m /\ (i + m) - m = i
      BY <1>1, <3>1
    <3>3. u[i + m] = t[i]
      BY <1>3, <3>2
    <3> QED
      BY <3>1, <3>2, <3>3
  <2> QED
    BY <2>1, <2>2
<1> QED
  BY <1>2, <1>6, <1>7 DEF Enumerates, u

\* A list cut in two.
LEMMA CutEnumerated ==
  ASSUME NEW s, NEW A, Enumerates(s, A), NEW m \in 0 .. Len(s)
  PROVE  LET B == {s[i] : i \in 1 .. m}
             C == {s[i] : i \in m + 1 .. Len(s)}
         IN  /\ Enumerates(SubSeq(s, 1, m), B) /\ Len(SubSeq(s, 1, m)) = m
             /\ Enumerates(SubSeq(s, m + 1, Len(s)), C) /\ Len(SubSeq(s, m + 1, Len(s))) = Len(s) - m
             /\ A = B \cup C /\ B \cap C = {}
<1> DEFINE B == {s[i] : i \in 1 .. m}
           C == {s[i] : i \in m + 1 .. Len(s)}
           n == Len(s)
           one == SubSeq(s, 1, m)
           two == SubSeq(s, m + 1, n)
<1>1. s \in Seq(A) /\ n \in Nat /\ m \in Nat /\ m <= n
  BY DEF Enumerates
<1>2. one = [i \in 1 .. m |-> s[i]] /\ two = [i \in 1 .. n - m |-> s[m + i]]
  <2>1. one = [i \in 1 .. (m - 1 + 1) |-> s[1 + i - 1]]
    BY <1>1 DEF SubSeq
  <2>2. two = [i \in 1 .. (n - (m + 1) + 1) |-> s[(m + 1) + i - 1]]
    BY <1>1 DEF SubSeq
  <2>3. m - 1 + 1 = m /\ n - (m + 1) + 1 = n - m
    BY <1>1
  <2>4. \A i \in 1 .. m : 1 + i - 1 = i
    BY <1>1
  <2>5. \A i \in 1 .. n - m : (m + 1) + i - 1 = m + i
    BY <1>1
  <2> HIDE DEF one, two, n
  <2> QED
    BY <2>1, <2>2, <2>3, <2>4, <2>5
<1> HIDE DEF one, two, n
<1>3. one \in Seq(B) /\ Len(one) = m /\ \A i \in 1 .. m : one[i] = s[i]
  BY <1>1, <1>2
<1>4. two \in Seq(C) /\ Len(two) = n - m /\ \A i \in 1 .. n - m : two[i] = s[m + i]
  <2>1. \A i \in 1 .. n - m : m + i \in m + 1 .. n
    BY <1>1
  <2>2. \A i \in 1 .. n - m : s[m + i] \in C
    BY <2>1 DEF n
  <2> HIDE DEF C
  <2>3. n - m \in Nat
    BY <1>1
  <2>4. two \in [1 .. n - m -> C]
    BY <1>2, <2>2
  <2>5. two \in Seq(C) /\ Len(two) = n - m
    BY <2>3, <2>4
  <2> QED
    BY <1>2, <2>5
<1>5. \A i, j \in 1 .. n : s[i] = s[j] => i = j
  BY DEF Enumerates, n
<1>6. Enumerates(one, B)
  <2>1. \A i \in 1 .. m : i \in 1 .. n
    BY <1>1
  <2>2. \A i, j \in 1 .. m : one[i] = one[j] => i = j
    BY <1>3, <1>5, <2>1
  <2>3. \A x \in B : \E i \in 1 .. m : one[i] = x
    BY <1>3
  <2> HIDE DEF B
  <2> QED
    BY <1>3, <2>2, <2>3 DEF Enumerates
<1>7. Enumerates(two, C)
  <2>1. \A i \in 1 .. n - m : m + i \in 1 .. n
    BY <1>1
  <2>2. ASSUME NEW i \in 1 .. n - m, NEW j \in 1 .. n - m, two[i] = two[j] PROVE i = j
    <3>1. m + i = m + j
      BY <1>4, <1>5, <2>1, <2>2
    <3> QED
      BY <1>1, <3>1
  <2>3. ASSUME NEW x \in C PROVE \E i \in 1 .. n - m : two[i] = x
    <3>1. PICK i \in m + 1 .. n : x = s[i]
      BY DEF n
    <3>2. i - m \in 1 .. n - m /\ m + (i - m) = i
      BY <1>1
    <3>3. two[i - m] = x
      BY <1>4, <3>1, <3>2
    <3> QED
      BY <3>2, <3>3
  <2> HIDE DEF C
  <2> QED
    BY <1>4, <2>2, <2>3 DEF Enumerates
<1>8. A = B \cup C
  <2>1. \A i \in 1 .. m : i \in 1 .. n
    BY <1>1
  <2>2. \A i \in m + 1 .. n : i \in 1 .. n
    BY <1>1
  <2>3. \A i \in 1 .. n : s[i] \in A
    BY <1>1 DEF n
  <2>4. \A i \in 1 .. n : i \in 1 .. m \/ i \in m + 1 .. n
    BY <1>1
  <2>5. \A x \in A : \E i \in 1 .. n : s[i] = x
    BY DEF Enumerates, n
  <2> QED
    BY <2>1, <2>2, <2>3, <2>4, <2>5 DEF n
<1>9. B \cap C = {}
  <2> SUFFICES ASSUME NEW i \in 1 .. m, NEW j \in m + 1 .. n, s[i] = s[j] PROVE FALSE
    BY DEF n
  <2>1. i \in 1 .. n /\ j \in 1 .. n /\ i # j
    BY <1>1
  <2> QED
    BY <1>5, <2>1
<1> QED
  BY <1>3, <1>4, <1>6, <1>7, <1>8, <1>9 DEF one, two, n

\* Those by its function, up to the n-th index.
ThoseTo(f, v, S, n) ==
  f = [i \in 0 .. n |-> IF i = 0 THEN <<>>
                        ELSE IF v[i] \in S THEN Append(f[i - 1], v[i]) ELSE f[i - 1]]

\* Such a function exists for every length.
LEMMA ThoseExist == ASSUME NEW v, NEW S, NEW n \in Nat PROVE \E f : ThoseTo(f, v, S, n)
<1> DEFINE T == {m \in Nat : \E f : ThoseTo(f, v, S, m)}
<1>1. 0 \in T
  <2> DEFINE f == [i \in 0 .. 0 |-> <<>>]
  <2>1. ThoseTo(f, v, S, 0)
    BY DEF ThoseTo
  <2> QED
    BY <2>1
<1>2. ASSUME NEW m \in Nat, m \in T PROVE m + 1 \in T
  <2>1. PICK f : ThoseTo(f, v, S, m)
    BY <1>2
  <2> DEFINE g == [i \in 0 .. m + 1 |-> IF i = 0 THEN <<>>
                     ELSE IF v[i] \in S THEN Append(f[i - 1], v[i]) ELSE f[i - 1]]
  <2>2. \A i \in 0 .. m : f[i] = g[i]
    <3>1. \A i \in 0 .. m : i \in 0 .. m + 1
      OBVIOUS
    <3> QED
      BY <2>1, <3>1 DEF ThoseTo
  <2>3. \A i \in 0 .. m + 1 : i # 0 => f[i - 1] = g[i - 1]
    <3>1. \A i \in 0 .. m + 1 : i # 0 => i - 1 \in 0 .. m
      OBVIOUS
    <3> HIDE DEF g
    <3> QED
      BY <2>2, <3>1
  <2>4. g = [i \in 0 .. m + 1 |-> IF i = 0 THEN <<>>
               ELSE IF v[i] \in S THEN Append(g[i - 1], v[i]) ELSE g[i - 1]]
    BY <2>3
  <2> HIDE DEF g
  <2>5. ThoseTo(g, v, S, m + 1)
    BY <2>4 DEF ThoseTo
  <2> QED
    BY <2>5
<1>3. Nat \subseteq T
  <2> HIDE DEF T
  <2> QED
    BY <1>1, <1>2, EveryNumber
<1> QED
  BY <1>3

\* Those of a list that are in a set are a list of the members of both.
LEMMA ThoseEnumerated ==
  ASSUME NEW v, NEW A, Enumerates(v, A), NEW S
  PROVE  Enumerates(Those(v, S), A \cap S)
<1> DEFINE f == CHOOSE g : ThoseTo(g, v, S, Len(v))
           n == Len(v)
           B(i) == {v[j] : j \in 1 .. i} \cap S
           T == {i \in Nat : i <= n => Enumerates(f[i], B(i))}
<1>1. v \in Seq(A) /\ n \in Nat /\ \A i, j \in 1 .. n : v[i] = v[j] => i = j
  BY DEF Enumerates
<1>2. ThoseTo(f, v, S, n)
  BY <1>1, ThoseExist
<1>3. Those(v, S) = f[n]
  BY DEF Those, ThoseTo
<1> HIDE DEF f
<1>4. f = [i \in 0 .. n |-> IF i = 0 THEN <<>>
             ELSE IF v[i] \in S THEN Append(f[i - 1], v[i]) ELSE f[i - 1]]
  BY <1>2 DEF ThoseTo
<1>5. 0 \in T
  <2>1. f[0] = <<>>
    <3>1. 0 \in 0 .. n
      BY <1>1
    <3> QED
      BY <1>4, <3>1
  <2>2. B(0) = {}
    OBVIOUS
  <2> QED
    BY <2>1, <2>2, NothingEnumerated
<1>6. ASSUME NEW i \in Nat, i \in T PROVE i + 1 \in T
  <2> SUFFICES ASSUME i + 1 <= n PROVE Enumerates(f[i + 1], B(i + 1))
    OBVIOUS
  <2>1. i <= n /\ i + 1 \in 0 .. n /\ i + 1 # 0 /\ (i + 1) - 1 = i /\ i + 1 \in 1 .. n
    BY <1>1
  <2>2. Enumerates(f[i], B(i))
    BY <1>6, <2>1
  <2>3. f[i + 1] = IF v[i + 1] \in S THEN Append(f[i], v[i + 1]) ELSE f[i]
    BY <1>4, <2>1
  <2>4. {v[j] : j \in 1 .. i + 1} = {v[j] : j \in 1 .. i} \cup {v[i + 1]}
    <3>1. 1 .. i + 1 = (1 .. i) \cup {i + 1}
      OBVIOUS
    <3> QED
      BY <3>1
  <2>5. CASE v[i + 1] \notin S
    <3>1. B(i + 1) = B(i)
      BY <2>4, <2>5
    <3> QED
      BY <2>2, <2>3, <2>5, <3>1
  <2>6. CASE v[i + 1] \in S
    <3>1. B(i + 1) = B(i) \cup {v[i + 1]}
      BY <2>4, <2>6
    <3>2. v[i + 1] \notin B(i)
      <4> SUFFICES ASSUME NEW j \in 1 .. i, v[j] = v[i + 1] PROVE FALSE
        OBVIOUS
      <4>1. j \in 1 .. n /\ j # i + 1
        BY <2>1
      <4> QED
        BY <1>1, <2>1, <4>1
    <3>3. Enumerates(<<v[i + 1]>>, {v[i + 1]})
      BY DEF Enumerates
    <3> DEFINE s == f[i]
               x == v[i + 1]
    <3>4. Append(s, x) = s \o <<x>>
      <4>1. s \in Seq(B(i))
        BY <2>2 DEF Enumerates
      <4> HIDE DEF s, x, B
      <4>2. s \in Seq(B(i) \cup {x}) /\ x \in B(i) \cup {x}
        BY <4>1
      <4> QED
        BY <4>2, AppendIsConcat
    <3>5. B(i) \cap {x} = {}
      BY <3>2
    <3>6. Enumerates(s \o <<x>>, B(i) \cup {x})
      <4> HIDE DEF s, x, B
      <4> QED
        BY <2>2, <3>3, <3>5, BothEnumerated DEF s, x
    <3> QED
      BY <2>3, <2>6, <3>1, <3>4, <3>6
  <2> QED
    BY <2>5, <2>6
<1>7. Nat \subseteq T
  <2> HIDE DEF T
  <2> QED
    BY <1>5, <1>6, EveryNumber
<1>8. Enumerates(f[n], B(n))
  <2>1. n \in T
    <3> HIDE DEF T
    <3> QED
      BY <1>1, <1>7
  <2>2. n <= n
    BY <1>1
  <2> HIDE DEF B
  <2> QED
    BY <2>1, <2>2
<1>9. {v[j] : j \in 1 .. n} = A
  BY <1>1 DEF Enumerates
<1> QED
  BY <1>3, <1>8, <1>9

\* A list is as long as its set is large.
LEMMA EnumeratedLength ==
  ASSUME NEW s, NEW A, Enumerates(s, A)
  PROVE  IsFiniteSet(A) /\ Cardinality(A) = Len(s) /\ Len(s) \in Nat
<1> DEFINE n == Len(s)
<1>1. s \in [1 .. n -> A] /\ n \in Nat
  BY DEF Enumerates
<1>2. s \in Injection(1 .. n, A) /\ s \in Surjection(1 .. n, A)
  BY <1>1 DEF Enumerates, Injection, Surjection, IsInjective
<1>3. s \in Bijection(1 .. n, A)
  BY <1>2 DEF Bijection
<1>4. IsFiniteSet(1 .. n) /\ Cardinality(1 .. n) = n
  <2>1. Cardinality(1 .. n) = IF 1 > n THEN 0 ELSE n - 1 + 1
    BY <1>1, FS_Interval
  <2> QED
    BY <1>1, <2>1, FS_Interval
<1> QED
  BY <1>1, <1>3, <1>4, FS_Bijection DEF ExistsBijection

\* FlattenSeq puts one sequence after the other.
FlattenedTo(f, seqs, n) ==
  f = [i \in 1 .. n |-> IF i = 1 THEN seqs[i] ELSE f[i - 1] \o seqs[i]]

\* Such a function exists for every number of sequences.
LEMMA FlattenedExist ==
    ASSUME NEW seqs
    PROVE  \A n \in Nat : \E f : FlattenedTo(f, seqs, n)
<1> DEFINE T == {n \in Nat : \E f : FlattenedTo(f, seqs, n)}
<1>1. 0 \in T
  <2> DEFINE f == [i \in 1 .. 0 |-> <<>>]
  <2>1. f = [i \in 1 .. 0 |-> IF i = 1 THEN seqs[i] ELSE f[i - 1] \o seqs[i]]
    OBVIOUS
  <2> HIDE DEF f
  <2> QED
    BY <2>1 DEF FlattenedTo
<1>2. ASSUME NEW j \in Nat, j \in T
      PROVE  j + 1 \in T
  <2>1. PICK f : FlattenedTo(f, seqs, j)
    BY <1>2
  <2> DEFINE g == [i \in 1 .. j + 1 |->
                     IF i = j + 1 THEN IF j = 0 THEN seqs[1] ELSE f[j] \o seqs[j + 1] ELSE f[i]]
  <2>2. \A i \in 1 .. j : f[i] = IF i = 1 THEN seqs[i] ELSE f[i - 1] \o seqs[i]
    BY <2>1 DEF FlattenedTo
  <2>3. \A i \in 1 .. j : g[i] = f[i]
    BY <1>2
  <2>4. g[j + 1] = IF j = 0 THEN seqs[1] ELSE f[j] \o seqs[j + 1]
    BY <1>2
  <2> HIDE DEF g
  <2>5. \A i \in 1 .. j + 1 : g[i] = IF i = 1 THEN seqs[i] ELSE g[i - 1] \o seqs[i]
    <3>1. TAKE i \in 1 .. j + 1
    <3>2. CASE i = j + 1
      <4>1. CASE j = 0
        BY <2>4, <3>2, <4>1
      <4>2. CASE j # 0
        <5>1. j \in 1 .. j /\ i # 1 /\ i - 1 = j
          BY <1>2, <3>2, <4>2
        <5> QED
          BY <2>3, <2>4, <3>2, <4>2, <5>1
      <4> QED
        BY <4>1, <4>2
    <3>3. CASE i # j + 1
      <4>1. i \in 1 .. j /\ (i # 1 => i - 1 \in 1 .. j)
        BY <1>2, <3>3
      <4> QED
        BY <2>2, <2>3, <4>1
    <3> QED
      BY <3>2, <3>3
  <2>6. g = [i \in 1 .. j + 1 |-> g[i]]
    BY DEF g
  <2>7. g = [i \in 1 .. j + 1 |-> IF i = 1 THEN seqs[i] ELSE g[i - 1] \o seqs[i]]
    BY <2>5, <2>6
  <2>8. FlattenedTo(g, seqs, j + 1)
    BY <2>7 DEF FlattenedTo
  <2> QED
    BY <1>2, <2>8
<1>3. Nat \subseteq T
  <2> HIDE DEF T
  <2> QED
    BY <1>1, <1>2, EveryNumber
<1> QED
  BY <1>3

\* FlattenSeq is its last value.
LEMMA Flattens ==
    ASSUME NEW seqs, Len(seqs) \in Nat \ {0}
    PROVE  \E f : FlattenedTo(f, seqs, Len(seqs)) /\ FlattenSeq(seqs) = f[Len(seqs)]
<1> DEFINE f == CHOOSE g : FlattenedTo(g, seqs, Len(seqs))
<1>1. FlattenedTo(f, seqs, Len(seqs))
  BY FlattenedExist
<1>2. FlattenSeq(seqs) = f[Len(seqs)]
  BY DEF FlattenSeq, FlattenedTo
<1> HIDE DEF f
<1> QED
  BY <1>1, <1>2

\* Lists of different members, one behind the other.
LEMMA FlattenEnumerated ==
  ASSUME NEW n \in Nat, NEW seqs, seqs \in [1 .. n -> Seq(Nat)], NEW A,
         \A i \in 1 .. n : Enumerates(seqs[i], A[i]),
         \A i, j \in 1 .. n : i # j => A[i] \cap A[j] = {},
         NEW U, \A k : k \in U <=> \E i \in 1 .. n : k \in A[i]
  PROVE  Enumerates(FlattenSeq(seqs), U)
<1>1. seqs \in Seq(Seq(Nat)) /\ Len(seqs) = n
  OBVIOUS
<1>2. CASE n = 0
  <2>1. seqs = <<>>
    BY <1>1, <1>2
  <2>2. FlattenSeq(seqs) = <<>>
    BY <1>1, <1>2, <2>1 DEF FlattenSeq
  <2>3. U = {}
    BY <1>2
  <2> QED
    BY <2>2, <2>3, NothingEnumerated
<1>3. CASE n # 0
  <2>1. Len(seqs) \in Nat \ {0}
    BY <1>1, <1>3
  <2>2. PICK f : FlattenedTo(f, seqs, n) /\ FlattenSeq(seqs) = f[n]
    BY <1>1, <2>1, Flattens
  <2> DEFINE B(m) == UNION {A[i] : i \in 1 .. m}
             T == {m \in Nat : m >= 1 /\ m <= n => Enumerates(f[m], B(m))}
  <2>3. f = [i \in 1 .. n |-> IF i = 1 THEN seqs[i] ELSE f[i - 1] \o seqs[i]]
    BY <2>2 DEF FlattenedTo
  <2>4. 0 \in T
    OBVIOUS
  <2>5. ASSUME NEW m \in Nat, m \in T PROVE m + 1 \in T
    <3> SUFFICES ASSUME m + 1 <= n PROVE Enumerates(f[m + 1], B(m + 1))
      OBVIOUS
    <3>1. m + 1 \in 1 .. n
      OBVIOUS
    <3>2. B(m + 1) = B(m) \cup A[m + 1]
      <4>1. 1 .. m + 1 = (1 .. m) \cup {m + 1}
        OBVIOUS
      <4> QED
        BY <4>1
    <3>3. Enumerates(seqs[m + 1], A[m + 1])
      BY <3>1
    <3>4. CASE m = 0
      <4>1. B(m) = {}
        BY <3>4
      <4>2. f[m + 1] = seqs[m + 1]
        BY <2>3, <3>1, <3>4
      <4>3. B(m + 1) = A[m + 1]
        BY <3>2, <4>1
      <4> HIDE DEF B
      <4> QED
        BY <3>3, <4>2, <4>3
    <3>5. CASE m # 0
      <4>1. f[m + 1] = f[m] \o seqs[m + 1]
        <5>1. m + 1 # 1 /\ (m + 1) - 1 = m
          BY <3>5
        <5> QED
          BY <2>3, <3>1, <5>1
      <4>2. Enumerates(f[m], B(m))
        <5>1. m >= 1 /\ m <= n
          BY <3>5
        <5> HIDE DEF B
        <5> QED
          BY <2>5, <5>1
      <4>3. B(m) \cap A[m + 1] = {}
        <5>1. \A i \in 1 .. m : i \in 1 .. n /\ i # m + 1
          OBVIOUS
        <5>2. \A i \in 1 .. m : A[i] \cap A[m + 1] = {}
          BY <3>1, <5>1
        <5> QED
          BY <5>2
      <4> DEFINE s == f[m]
                 t == seqs[m + 1]
      <4> HIDE DEF B, s, t
      <4>4. Enumerates(s \o t, B(m) \cup A[m + 1])
        BY <3>3, <4>2, <4>3, BothEnumerated DEF s, t
      <4> QED
        BY <3>2, <4>1, <4>4 DEF s, t
    <3> QED
      BY <3>4, <3>5
  <2>6. Nat \subseteq T
    <3> HIDE DEF T
    <3> QED
      BY <2>4, <2>5, EveryNumber
  <2>7. n \in T /\ n >= 1 /\ n <= n
    <3> HIDE DEF T
    <3> QED
      BY <1>3, <2>6
  <2>8. B(n) = U
    OBVIOUS
  <2> HIDE DEF B
  <2>9. Enumerates(f[n], B(n))
    BY <2>7
  <2> QED
    BY <2>2, <2>8, <2>9
<1> QED
  BY <1>2, <1>3

-----------------------------------------------------------------------------
(* Cutting the points in two                                               *)
\* Where a keyframe may be at all.
Position == Int \X Int \X Int

\* A box that the points A fill to all sides.
Tight(box, pts, A) ==
  /\ box \in Boxes
  /\ \A d \in Dims : /\ \A k \in A : box[d].low <= pts[k][d] /\ pts[k][d] <= box[d].high
                     /\ \E k \in A : pts[k][d] = box[d].low
                     /\ \E k \in A : pts[k][d] = box[d].high

\* Its coordinates are numbers.
LEMMA Coordinate == ASSUME NEW p \in Position, NEW d \in Dims PROVE p[d] \in Int
BY DEF Position, Dims

\* computeBoundingBox gives the box that the points fill.
LEMMA BoundsTight ==
  ASSUME NEW pts \in Seq(Position), NEW v, NEW A \in SUBSET DOMAIN pts, Enumerates(v, A), A # {}
  PROVE  Tight(computeBoundingBox(pts, v), pts, A)
<1> DEFINE box == computeBoundingBox(pts, v)
<1>1. IsFiniteSet(A) /\ v \in Seq(A)
  BY EnumeratedLength DEF Enumerates
<1>2. ASSUME NEW d \in Dims
      PROVE  /\ box[d] \in [low : Int, high : Int]
             /\ \A k \in A : box[d].low <= pts[k][d] /\ pts[k][d] <= box[d].high
             /\ \E k \in A : pts[k][d] = box[d].low
             /\ \E k \in A : pts[k][d] = box[d].high
  <2> DEFINE f == [k \in A |-> pts[k][d]]
             S == {f[k] : k \in A}
  <2>1. Coordinates(pts, v, d) = S
    <3>1. DOMAIN v = 1 .. Len(v) /\ \A i \in 1 .. Len(v) : v[i] \in A
      BY <1>1
    <3>2. \A k \in A : \E i \in 1 .. Len(v) : v[i] = k
      BY DEF Enumerates
    <3>3. {pts[v[i]][d] : i \in DOMAIN v} = {pts[k][d] : k \in A}
      BY <3>1, <3>2
    <3> QED
      BY <3>3 DEF Coordinates
  <2>2. \A k \in A : f[k] \in Int
    <3>1. \A k \in A : pts[k] \in Position
      OBVIOUS
    <3> QED
      BY <3>1, Coordinate
  <2>3. S \subseteq Int /\ S # {}
    BY <2>2
  <2>4. IsFiniteSet(S)
    <3> HIDE DEF f
    <3> QED
      BY <1>1, ImageFinite
  <2>5. Least(S, Min(S)) /\ Greatest(S, Max(S))
    <3> HIDE DEF S
    <3> QED
      BY <2>3, <2>4, Extremes
  <2>6. box[d] = [low |-> Min(S), high |-> Max(S)]
    <3>1. box[d] = Interval(Coordinates(pts, v, d))
      BY DEF computeBoundingBox
    <3> QED
      BY <2>1, <3>1 DEF Interval
  <2>7. box[d].low = Min(S) /\ box[d].high = Max(S)
    <3> HIDE DEF S, box
    <3> QED
      BY <2>6
  <2>8. Min(S) \in S /\ Max(S) \in S /\ \A x \in S : Min(S) <= x /\ x <= Max(S)
    <3>1. \A x \in S : Max(S) >= x => x <= Max(S)
      BY <2>3, <2>5 DEF Greatest
    <3> HIDE DEF S
    <3> QED
      BY <2>5, <3>1 DEF Least, Greatest
  <2>9. box[d] \in [low : Int, high : Int]
    <3> HIDE DEF S, box
    <3>1. Min(S) \in Int /\ Max(S) \in Int
      BY <2>3, <2>8
    <3> QED
      BY <2>6, <3>1
  <2>10. \A k \in A : pts[k][d] \in S
    OBVIOUS
  <2>11. \A x \in S : \E k \in A : pts[k][d] = x
    OBVIOUS
  <2> HIDE DEF S, box
  <2> QED
    BY <2>7, <2>8, <2>9, <2>10, <2>11
<1>3. box = [d \in Dims |-> box[d]]
  BY DEF computeBoundingBox
<1> HIDE DEF box
<1>4. box \in Boxes
  BY <1>2, <1>3 DEF Boxes
<1> QED
  BY <1>2, <1>4 DEF Tight, box

\* A direction to cut along, and a value between the extremes.
LEMMA CutChosen ==
  ASSUME NEW spread \in Boxes, NEW bbox \in Boxes
  PROVE  CutDimension(spread, bbox) \in Dims
<1> DEFINE S == {Span(bbox[e]) : e \in Dims}
           longest == {d \in Dims : Span(bbox[d]) = Max(S)}
           R == {Span(spread[e]) : e \in longest}
           widest == {d \in longest : \A e \in longest : Span(spread[e]) <= Span(spread[d])}
<1>1. \A d \in Dims : Span(bbox[d]) \in Int /\ Span(spread[d]) \in Int
  BY DEF Boxes, Span
<1>2. IsFiniteSet(Dims) /\ Dims # {}
  <2>1. 1 \in Int /\ 3 \in Int /\ 1 \in 1 .. 3
    OBVIOUS
  <2>2. IsFiniteSet(1 .. 3)
    BY <2>1, FS_Interval, Zenon
  <2> QED
    BY <2>1, <2>2 DEF Dims
<1>3. IsFiniteSet(S) /\ S # {} /\ S \subseteq Int
  <2> DEFINE f == [e \in Dims |-> Span(bbox[e])]
  <2>1. S = {f[e] : e \in Dims}
    OBVIOUS
  <2> HIDE DEF f
  <2>2. IsFiniteSet(S)
    BY <1>2, <2>1, ImageFinite
  <2> QED
    BY <1>1, <1>2, <2>2
<1>4. Max(S) \in S
  <2> HIDE DEF S
  <2> QED
    BY <1>3, Extremes DEF Greatest
<1>5. longest # {} /\ longest \subseteq Dims
  BY <1>4
<1> HIDE DEF longest
<1>6. IsFiniteSet(R) /\ R # {} /\ R \subseteq Int
  <2> DEFINE f == [e \in longest |-> Span(spread[e])]
  <2>1. R = {f[e] : e \in longest}
    OBVIOUS
  <2>2. IsFiniteSet(longest)
    BY <1>2, <1>5, FS_Subset
  <2> HIDE DEF f
  <2>3. IsFiniteSet(R)
    BY <2>1, <2>2, ImageFinite
  <2> QED
    BY <1>1, <1>5, <2>3
<1>7. Greatest(R, Max(R))
  <2> HIDE DEF R
  <2> QED
    BY <1>6, Extremes
<1>8. PICK d \in longest : Span(spread[d]) = Max(R)
  BY <1>7 DEF Greatest
<1>9. \A e \in longest : Span(spread[e]) <= Span(spread[d])
  <2>1. \A e \in longest : Max(R) >= Span(spread[e])
    BY <1>7 DEF Greatest
  <2>2. Max(R) \in Int
    BY <1>6, <1>7 DEF Greatest
  <2> HIDE DEF R
  <2> QED
    BY <1>1, <1>5, <1>8, <2>1, <2>2
<1>10. widest # {} /\ widest \subseteq Dims
  BY <1>5, <1>8, <1>9
<1> HIDE DEF widest
<1>11. Min(widest) \in Dims
  <2>1. IsFiniteSet(widest)
    BY <1>2, <1>10, FS_Subset
  <2>2. widest \subseteq Int
    BY <1>10 DEF Dims
  <2> QED
    BY <1>10, <2>1, <2>2, Extremes DEF Least
<1>12. CutDimension(spread, bbox) = IF \A e \in Dims : Span(bbox[e]) = 0 THEN 1 ELSE Min(widest)
  BY DEF CutDimension, widest, longest
<1>13. 1 \in Dims
  BY DEF Dims
<1> QED
  BY <1>11, <1>12, <1>13

\* The less and the greater of two numbers.
LEMMA TwoExtremes ==
  ASSUME NEW a \in Int, NEW b \in Int
  PROVE  Min({a, b}) = (IF a <= b THEN a ELSE b) /\ Max({a, b}) = (IF a <= b THEN b ELSE a)
<1>1. IsFiniteSet({a, b}) /\ {a, b} # {} /\ {a, b} \subseteq Int
  <2>1. IsFiniteSet({a}) /\ {a, b} = {a} \cup {b} /\ IsFiniteSet({b})
    BY FS_Singleton
  <2> QED
    BY <2>1, FS_Union
<1> DEFINE lo == Min({a, b})
           hi == Max({a, b})
<1>2. lo \in {a, b} /\ lo <= a /\ lo <= b
  BY <1>1, Extremes DEF Least
<1>3. hi \in {a, b} /\ hi >= a /\ hi >= b
  BY <1>1, Extremes DEF Greatest
<1> HIDE DEF lo, hi
<1>4. lo = IF a <= b THEN a ELSE b
  BY <1>2
<1>5. hi = IF a <= b THEN b ELSE a
  BY <1>3
<1> QED
  BY <1>4, <1>5 DEF lo, hi

\* The plane is between the extremes of the points.
LEMMA CutInside ==
  ASSUME NEW spread \in [low : Int, high : Int], spread.low <= spread.high,
         NEW bbox \in [low : Int, high : Int]
  PROVE  /\ CutValue(spread, bbox) \in Int
         /\ spread.low <= CutValue(spread, bbox) /\ CutValue(spread, bbox) <= spread.high
<1> DEFINE middle == (bbox.low + bbox.high) \div 2
           a == Min({spread.high, middle})
<1>1. middle \in Int /\ spread.low \in Int /\ spread.high \in Int
  OBVIOUS
<1> HIDE DEF middle
<1>2. a = IF spread.high <= middle THEN spread.high ELSE middle
  BY <1>1, TwoExtremes
<1> HIDE DEF a
<1>3. a \in Int /\ a <= spread.high
  BY <1>1, <1>2
<1>4. Max({spread.low, a}) = IF spread.low <= a THEN a ELSE spread.low
  BY <1>1, <1>3, TwoExtremes
<1>5. CutValue(spread, bbox) = Max({spread.low, a})
  BY DEF CutValue, a, middle
<1> QED
  BY <1>1, <1>3, <1>4, <1>5

\* The index to split at leaves something on either side, and does not cut into what is
\* before or after the plane.
LEMMA SplitBetween ==
  ASSUME NEW n \in Nat, n >= 2, NEW lim1 \in Nat, NEW lim2 \in Nat, lim1 <= lim2, lim1 < n, lim2 >= 1
  PROVE  /\ SplitIndex(lim1, lim2, n) \in 1 .. n - 1
         /\ lim1 <= SplitIndex(lim1, lim2, n) /\ SplitIndex(lim1, lim2, n) <= lim2
<1>1. n \div 2 \in Nat /\ n \div 2 >= 1 /\ n \div 2 < n
  OBVIOUS
<1>2. SplitIndex(lim1, lim2, n) =
        IF lim1 > n \div 2 THEN lim1 ELSE IF lim2 < n \div 2 THEN lim2 ELSE n \div 2
  BY DEF SplitIndex
<1> DEFINE h == n \div 2
           m == SplitIndex(lim1, lim2, n)
<1>3. h \in Nat /\ h >= 1 /\ h < n /\ m = IF lim1 > h THEN lim1 ELSE IF lim2 < h THEN lim2 ELSE h
  BY <1>1, <1>2
<1> HIDE DEF h, m
<1>4. m \in Nat /\ m >= 1 /\ m <= n - 1 /\ lim1 <= m /\ m <= lim2
  BY <1>3
<1> QED
  BY <1>4 DEF m

\* How a list is cut in two where one side is not beyond the other.
Cut(split, pts, v, A, B, C) ==
  /\ A = B \cup C /\ B \cap C = {} /\ B # {} /\ C # {}
  /\ Enumerates(split.left, B) /\ Len(split.left) < Len(v)
  /\ Enumerates(split.right, C) /\ Len(split.right) < Len(v)
  /\ \A k \in B : pts[k][split.cutfeat] <= split.cutval
  /\ \A k \in C : pts[k][split.cutfeat] >= split.cutval

\* planeSplit and the index to split at do so, if the plane is between two points.
LEMMA HalvesCut ==
  ASSUME NEW pts \in Seq(Position), NEW A \in SUBSET DOMAIN pts, NEW v, Enumerates(v, A),
         Len(v) >= 2, NEW d \in Dims, NEW cutval \in Int,
         NEW least \in A, pts[least][d] <= cutval, NEW greatest \in A, pts[greatest][d] >= cutval
  PROVE  LET split == Halves(planeSplit(pts, v, d, cutval), d, cutval)
         IN  /\ split.cutfeat = d /\ split.cutval = cutval
             /\ \E B, C \in SUBSET A : Cut(split, pts, v, A, B, C)
<1> DEFINE A1 == A \cap {k \in DOMAIN pts : pts[k][d] < cutval}
           A2 == A \cap {k \in DOMAIN pts : pts[k][d] = cutval}
           A3 == A \cap {k \in DOMAIN pts : pts[k][d] > cutval}
           parts == planeSplit(pts, v, d, cutval)
           one == parts.before
           two == parts.at
           three == parts.after
           s == one \o two \o three
           split == Halves(parts, d, cutval)
<1>1. \A k \in A : pts[k][d] \in Int
  <2>1. \A k \in A : pts[k] \in Position
    OBVIOUS
  <2> QED
    BY <2>1, Coordinate
<1>2. Enumerates(one, A1) /\ Enumerates(two, A2) /\ Enumerates(three, A3)
  BY ThoseEnumerated DEF planeSplit
<1>3. /\ A = (A1 \cup A2) \cup A3 /\ A1 \cap A2 = {} /\ (A1 \cup A2) \cap A3 = {}
      /\ least \in A1 \cup A2 /\ greatest \notin A1
  BY <1>1
<1>4. /\ \A k \in A1 : pts[k][d] <= cutval
      /\ \A k \in A2 : pts[k][d] <= cutval /\ pts[k][d] >= cutval
      /\ \A k \in A3 : pts[k][d] >= cutval
  BY <1>1
<1>5. split = [cutfeat |-> d, cutval |-> cutval,
               left |-> SubSeq(s, 1, SplitIndex(Len(one), Len(one \o two), Len(s))),
               right |-> SubSeq(s, SplitIndex(Len(one), Len(one \o two), Len(s)) + 1, Len(s))]
  BY DEF Halves
<1> HIDE DEF A1, A2, A3, parts, one, two, three, s, split
<1> DEFINE six == one \o two
           n == Len(s)
           lim1 == Len(one)
           lim2 == Len(six)
           m == SplitIndex(lim1, lim2, n)
<1>6. Enumerates(six, A1 \cup A2)
  BY <1>2, <1>3, BothEnumerated
<1>7. Enumerates(s, A)
  <2> HIDE DEF six
  <2>1. Enumerates(six \o three, (A1 \cup A2) \cup A3)
    BY <1>2, <1>3, <1>6, BothEnumerated
  <2> QED
    BY <1>3, <2>1 DEF s, six
<1>8. /\ one \in Seq(A1) /\ two \in Seq(A2) /\ three \in Seq(A3) /\ six \in Seq(A1 \cup A2)
      /\ s \in Seq(A)
  BY <1>2, <1>6, <1>7 DEF Enumerates
<1>9. n = Len(v) /\ n \in Nat /\ n >= 2
  BY <1>7, EnumeratedLength
<1>10. lim1 \in Nat /\ lim2 \in Nat /\ lim1 <= lim2 /\ lim2 <= n
  <2>1. one \in Seq(A) /\ two \in Seq(A) /\ three \in Seq(A)
    BY <1>3, <1>8
  <2>2. lim2 = Len(one) + Len(two) /\ n = Len(one) + Len(two) + Len(three)
    BY <2>1 DEF s
  <2> QED
    BY <2>1, <2>2
<1>11. \A i \in 1 .. n : /\ i <= lim1 => s[i] \in A1
                         /\ i <= lim2 => s[i] \in A1 \cup A2
                         /\ i > lim1 => s[i] \in A2 \cup A3
                         /\ i > lim2 => s[i] \in A3
  <2>1. one \in Seq(A) /\ two \in Seq(A) /\ three \in Seq(A)
    BY <1>3, <1>8
  <2>2. lim2 = lim1 + Len(two) /\ n = lim1 + Len(two) + Len(three)
    BY <2>1 DEF s
  <2>3. \A i \in 1 .. n : s[i] = IF i <= lim1 THEN one[i]
                                 ELSE IF i <= lim2 THEN two[i - lim1] ELSE three[i - lim2]
    <3>1. \A i \in 1 .. lim2 : six[i] = IF i <= lim1 THEN one[i] ELSE two[i - lim1]
      BY <2>1, <2>2
    <3>2. six \in Seq(A) /\ s = six \o three
      BY <2>1 DEF s
    <3> HIDE DEF six
    <3>3. \A i \in 1 .. n : s[i] = IF i <= lim2 THEN six[i] ELSE three[i - lim2]
      BY <2>1, <3>2
    <3>4. \A i \in 1 .. n : i <= lim2 => i \in 1 .. lim2
      BY <1>9, <1>10
    <3> HIDE DEF n, lim1, lim2
    <3>5. \A i \in 1 .. n : i <= lim1 => i <= lim2
      BY <1>9, <1>10
    <3> QED
      BY <3>1, <3>3, <3>4, <3>5
  <2>4. ASSUME NEW i \in 1 .. n
        PROVE  /\ i <= lim1 => s[i] \in A1
               /\ i > lim1 /\ i <= lim2 => s[i] \in A2
               /\ i > lim2 => s[i] \in A3
    <3>1. \A j \in 1 .. lim1 : one[j] \in A1
      BY <1>8
    <3>2. \A j \in 1 .. Len(two) : two[j] \in A2
      BY <1>8
    <3>3. \A j \in 1 .. Len(three) : three[j] \in A3
      BY <1>8
    <3>4. Len(two) \in Nat /\ Len(three) \in Nat
      BY <1>8
    <3> HIDE DEF n, lim1, lim2
    <3>5. i <= lim1 => i \in 1 .. lim1
      BY <1>9, <1>10
    <3>6. i > lim1 /\ i <= lim2 => i - lim1 \in 1 .. Len(two)
      BY <1>9, <1>10, <2>2, <3>4
    <3>7. i > lim2 => i - lim2 \in 1 .. Len(three)
      BY <1>9, <1>10, <2>2, <3>4
    <3>8. i \in Nat /\ (i > lim1 => ~ i <= lim1) /\ (i > lim2 => ~ i <= lim2 /\ ~ i <= lim1)
      BY <1>9, <1>10
    <3> QED
      BY <2>3, <3>1, <3>2, <3>3, <3>5, <3>6, <3>7, <3>8
  <2> HIDE DEF n, lim1, lim2
  <2> QED
    BY <1>9, <1>10, <2>4
<1>12. lim1 < n
  <2> SUFFICES ASSUME lim1 = n PROVE FALSE
    BY <1>9, <1>10
  <2>1. PICK i \in 1 .. n : s[i] = greatest
    BY <1>7 DEF Enumerates
  <2>2. i <= lim1
    BY <1>9
  <2> QED
    BY <1>3, <1>11, <2>1, <2>2
<1>13. lim2 >= 1
  <2> SUFFICES ASSUME lim2 = 0 PROVE FALSE
    BY <1>10
  <2>1. PICK i \in 1 .. lim2 : six[i] = least
    BY <1>3, <1>6 DEF Enumerates
  <2> QED
    BY <2>1
<1>14. m \in 1 .. n - 1 /\ lim1 <= m /\ m <= lim2
  <2> HIDE DEF n, lim1, lim2
  <2> QED
    BY <1>9, <1>10, <1>12, <1>13, SplitBetween
<1> DEFINE B == {s[i] : i \in 1 .. m}
           C == {s[i] : i \in m + 1 .. n}
<1>15. /\ split.cutfeat = d /\ split.cutval = cutval
       /\ split.left = SubSeq(s, 1, m) /\ split.right = SubSeq(s, m + 1, n)
  BY <1>5
<1> HIDE DEF n, lim1, lim2, m
<1>16. m \in 0 .. n /\ m \in Nat /\ m >= 1 /\ m + 1 \in m + 1 .. n /\ 1 \in 1 .. m
  BY <1>9, <1>14
<1>17. /\ Enumerates(split.left, B) /\ Len(split.left) = m
       /\ Enumerates(split.right, C) /\ Len(split.right) = n - m
       /\ A = B \cup C /\ B \cap C = {}
  <2>1. m \in 0 .. Len(s)
    BY <1>16 DEF n
  <2>2. LET D == {s[i] : i \in 1 .. m}
            E == {s[i] : i \in m + 1 .. Len(s)}
        IN  /\ Enumerates(SubSeq(s, 1, m), D) /\ Len(SubSeq(s, 1, m)) = m
            /\ Enumerates(SubSeq(s, m + 1, Len(s)), E) /\ Len(SubSeq(s, m + 1, Len(s))) = Len(s) - m
            /\ A = D \cup E /\ D \cap E = {}
    BY <1>7, <2>1, CutEnumerated, Zenon
  <2> QED
    BY <1>15, <2>2, Zenon DEF n
<1>18. \A k \in B : pts[k][d] <= cutval
  <2> SUFFICES ASSUME NEW i \in 1 .. m PROVE pts[s[i]][d] <= cutval
    OBVIOUS
  <2>1. i \in 1 .. n /\ i <= lim2
    BY <1>9, <1>10, <1>14, <1>16
  <2> QED
    BY <1>4, <1>11, <2>1
<1>19. \A k \in C : pts[k][d] >= cutval
  <2> SUFFICES ASSUME NEW i \in m + 1 .. n PROVE pts[s[i]][d] >= cutval
    OBVIOUS
  <2>1. i \in 1 .. n /\ i > lim1
    BY <1>9, <1>10, <1>14, <1>16
  <2> QED
    BY <1>4, <1>11, <2>1
<1>20. s[1] \in B /\ s[m + 1] \in C
  BY <1>16
<1>21. m < Len(v) /\ n - m < Len(v)
  BY <1>9, <1>14, <1>16
<1> HIDE DEF B, C
<1>22. Cut(split, pts, v, A, B, C)
  BY <1>15, <1>17, <1>18, <1>19, <1>20, <1>21 DEF Cut
<1>23. B \in SUBSET A /\ C \in SUBSET A
  BY <1>17
<1> QED
  BY <1>15, <1>22, <1>23 DEF split, parts

\* So does middleSplit_, whatever the box is.
LEMMA MiddleSplits ==
  ASSUME NEW pts \in Seq(Position), NEW A \in SUBSET DOMAIN pts, NEW v, Enumerates(v, A),
         Len(v) >= 2, NEW bbox \in Boxes
  PROVE  LET split == middleSplit_(pts, v, bbox)
         IN  /\ split.cutfeat \in Dims /\ split.cutval \in Int
             /\ \E B, C \in SUBSET A : Cut(split, pts, v, A, B, C)
<1> DEFINE spread == computeBoundingBox(pts, v)
           d == CutDimension(spread, bbox)
           cutval == CutValue(spread[d], bbox[d])
<1>1. A # {}
  <2>1. Len(v) \in Nat
    BY EnumeratedLength
  <2>2. 1 \in 1 .. Len(v) /\ v \in Seq(A)
    BY <2>1 DEF Enumerates
  <2> QED
    BY <2>2
<1>2. Tight(spread, pts, A)
  BY <1>1, BoundsTight
<1> HIDE DEF spread
<1>3. d \in Dims
  BY <1>2, CutChosen DEF Tight
<1>4. middleSplit_(pts, v, bbox) = Halves(planeSplit(pts, v, d, cutval), d, cutval)
  BY DEF middleSplit_, spread
<1> HIDE DEF d
<1>5. spread[d] \in [low : Int, high : Int] /\ bbox[d] \in [low : Int, high : Int]
  BY <1>2, <1>3 DEF Tight, Boxes
<1>6. PICK least \in A : pts[least][d] = spread[d].low
  BY <1>2, <1>3 DEF Tight
<1>7. PICK greatest \in A : pts[greatest][d] = spread[d].high
  BY <1>2, <1>3 DEF Tight
<1>8. spread[d].low <= spread[d].high
  BY <1>2, <1>3, <1>6 DEF Tight
<1>9. cutval \in Int /\ spread[d].low <= cutval /\ cutval <= spread[d].high
  BY <1>5, <1>8, CutInside
<1> HIDE DEF cutval
<1>10. pts[least][d] <= cutval /\ pts[greatest][d] >= cutval
  BY <1>5, <1>6, <1>7, <1>9
<1> DEFINE split == Halves(planeSplit(pts, v, d, cutval), d, cutval)
<1>11. /\ split.cutfeat = d /\ split.cutval = cutval
       /\ \E B, C \in SUBSET A : Cut(split, pts, v, A, B, C)
  BY <1>3, <1>9, <1>10, HalvesCut
<1> HIDE DEF split
<1>12. middleSplit_(pts, v, bbox) = split
  BY <1>4 DEF split
<1> QED
  BY <1>3, <1>9, <1>11, <1>12

-----------------------------------------------------------------------------
(* Dividing a list into a tree                                             *)
\* What divideTree makes of a list and a box, by its function.
DividedInto(f, pts, v, box) ==
  IF Len(v) <= m_leaf_max_size
  THEN [node |-> [vind |-> v], bbox |-> computeBoundingBox(pts, v)]
  ELSE LET split == middleSplit_(pts, v, box)
       IN Joined(split.cutfeat,
                 f[split.left][[box EXCEPT ![split.cutfeat].high = split.cutval]],
                 f[split.right][[box EXCEPT ![split.cutfeat].low = split.cutval]])

\* The lists of so many points at most.
Upto(pts, n) == {v \in Lists(pts) : Len(v) <= n}

\* The function of divideTree on them.
DividedTo(f, pts, n) ==
  f = [v \in Upto(pts, n) |-> [box \in Boxes |-> DividedInto(f, pts, v, box)]]

\* A list has the members of its range.
LEMMA ListEnumerates ==
  ASSUME NEW pts \in Seq(Position), NEW v \in Lists(pts)
  PROVE  Enumerates(v, Range(v)) /\ Range(v) \in SUBSET DOMAIN pts
<1>1. v \in Seq(DOMAIN pts) /\ IsInjective(v) /\ DOMAIN v = 1 .. Len(v)
  BY DEF Lists
<1>2. v \in Seq(Range(v))
  BY <1>1 DEF Range
<1>3. \A i, j \in 1 .. Len(v) : v[i] = v[j] => i = j
  BY <1>1 DEF IsInjective
<1>4. \A x \in Range(v) : \E i \in 1 .. Len(v) : v[i] = x
  BY <1>1 DEF Range
<1>5. Range(v) \in SUBSET DOMAIN pts
  BY <1>1 DEF Range
<1> QED
  BY <1>2, <1>3, <1>4, <1>5 DEF Enumerates

\* What lists points is a list of points.
LEMMA EnumeratesList ==
  ASSUME NEW pts, NEW A \in SUBSET DOMAIN pts, NEW v, Enumerates(v, A)
  PROVE  v \in Lists(pts) /\ Range(v) = A
<1>1. v \in Seq(A) /\ DOMAIN v = 1 .. Len(v)
  BY DEF Enumerates
<1>2. v \in Seq(DOMAIN pts)
  BY <1>1
<1>3. IsInjective(v)
  BY <1>1 DEF Enumerates, IsInjective
<1>4. Range(v) = A
  BY <1>1 DEF Enumerates, Range
<1> QED
  BY <1>2, <1>3, <1>4 DEF Lists

\* A list is not longer than the data set.
LEMMA ListLength ==
  ASSUME NEW pts \in Seq(Position), NEW v \in Lists(pts)
  PROVE  Len(v) \in Nat /\ Len(v) <= Len(pts)
<1>1. Enumerates(v, Range(v)) /\ Range(v) \in SUBSET DOMAIN pts
  BY ListEnumerates
<1>2. Cardinality(Range(v)) = Len(v) /\ Len(v) \in Nat
  BY <1>1, EnumeratedLength
<1>3. Len(pts) \in Nat /\ DOMAIN pts = 1 .. Len(pts) /\ 1 \in Int
  OBVIOUS
<1>4. IsFiniteSet(1 .. Len(pts)) /\ Cardinality(1 .. Len(pts)) = IF 1 > Len(pts) THEN 0 ELSE Len(pts) - 1 + 1
  BY <1>3, FS_Interval
<1>5. Cardinality(Range(v)) <= Cardinality(1 .. Len(pts))
  BY <1>1, <1>3, <1>4, FS_Subset
<1> QED
  BY <1>2, <1>3, <1>4, <1>5

\* The two lists, and the two boxes, that a list and a box are cut into.
LEMMA HalvesShorter ==
  ASSUME NEW pts \in Seq(Position), NEW v \in Lists(pts), Len(v) >= 2, NEW box \in Boxes
  PROVE  LET split == middleSplit_(pts, v, box)
         IN  /\ split.left \in Lists(pts) /\ Len(split.left) < Len(v)
             /\ split.right \in Lists(pts) /\ Len(split.right) < Len(v)
             /\ [box EXCEPT ![split.cutfeat].high = split.cutval] \in Boxes
             /\ [box EXCEPT ![split.cutfeat].low = split.cutval] \in Boxes
<1> DEFINE split == middleSplit_(pts, v, box)
<1>1. Enumerates(v, Range(v)) /\ Range(v) \in SUBSET DOMAIN pts
  BY ListEnumerates
<1>2. /\ split.cutfeat \in Dims /\ split.cutval \in Int
      /\ \E B, C \in SUBSET Range(v) : Cut(split, pts, v, Range(v), B, C)
  BY <1>1, MiddleSplits
<1> HIDE DEF split
<1>3. PICK B \in SUBSET Range(v), C \in SUBSET Range(v) : Cut(split, pts, v, Range(v), B, C)
  BY <1>2
<1>4. split.left \in Lists(pts) /\ Len(split.left) < Len(v)
  BY <1>1, <1>3, EnumeratesList DEF Cut
<1>5. split.right \in Lists(pts) /\ Len(split.right) < Len(v)
  BY <1>1, <1>3, EnumeratesList DEF Cut
<1> DEFINE d == split.cutfeat
           c == split.cutval
<1>6. d \in Dims /\ c \in Int
  BY <1>2
<1> HIDE DEF d, c
<1>7. [box EXCEPT ![d].high = c] \in Boxes
  BY <1>6 DEF Boxes
<1>8. [box EXCEPT ![d].low = c] \in Boxes
  BY <1>6 DEF Boxes
<1> QED
  BY <1>4, <1>5, <1>7, <1>8 DEF split, d, c

\* The function of divideTree exists up to every length: the halves are shorter.
LEMMA DividedExist ==
  ASSUME NEW pts \in Seq(Position), NEW n \in Nat
  PROVE  \E f : DividedTo(f, pts, n)
<1> DEFINE T == {m \in Nat : \E f : DividedTo(f, pts, m)}
<1>1. m_leaf_max_size \in Nat \ {0}
  BY LoopSearchAssumption
<1>2. \A v \in Lists(pts) : Len(v) \in Nat
  BY ListLength
<1>3. 0 \in T
  <2> DEFINE F(f) == [v \in Upto(pts, 0) |-> [box \in Boxes |-> DividedInto(f, pts, v, box)]]
             f == F(0)
  <2>1. \A v \in Upto(pts, 0), box \in Boxes : DividedInto(0, pts, v, box) = DividedInto(f, pts, v, box)
    <3>1. \A v \in Upto(pts, 0) : Len(v) <= m_leaf_max_size
      BY <1>1, <1>2 DEF Upto
    <3> HIDE DEF f
    <3> QED
      BY <3>1 DEF DividedInto
  <2>2. f = F(f)
    <3> HIDE DEF f
    <3>1. \A v \in Upto(pts, 0) : [box \in Boxes |-> DividedInto(0, pts, v, box)]
                                    = [box \in Boxes |-> DividedInto(f, pts, v, box)]
      BY <2>1
    <3>2. F(0) = F(f)
      BY <3>1
    <3> QED
      BY <3>2 DEF f
  <2> HIDE DEF f
  <2>3. DividedTo(f, pts, 0)
    BY <2>2 DEF DividedTo
  <2> QED
    BY <2>3
<1>4. ASSUME NEW m \in Nat, m \in T PROVE m + 1 \in T
  <2>1. PICK f : DividedTo(f, pts, m)
    BY <1>4
  <2> DEFINE F(h) == [v \in Upto(pts, m + 1) |-> [box \in Boxes |-> DividedInto(h, pts, v, box)]]
             g == F(f)
  <2>2. f = [v \in Upto(pts, m) |-> [box \in Boxes |-> DividedInto(f, pts, v, box)]]
    BY <2>1 DEF DividedTo
  <2>3. \A v \in Upto(pts, m) : v \in Upto(pts, m + 1)
    BY <1>2 DEF Upto
  <2>4. \A v \in Upto(pts, m) : f[v] = g[v]
    BY <2>2, <2>3
  <2>5. ASSUME NEW v \in Upto(pts, m + 1), NEW box \in Boxes
        PROVE  DividedInto(f, pts, v, box) = DividedInto(g, pts, v, box)
    <3> HIDE DEF g
    <3>1. v \in Lists(pts) /\ Len(v) <= m + 1 /\ Len(v) \in Nat
      BY <1>2 DEF Upto
    <3>2. CASE Len(v) <= m_leaf_max_size
      BY <3>2 DEF DividedInto
    <3>3. CASE ~ Len(v) <= m_leaf_max_size
      <4> DEFINE split == middleSplit_(pts, v, box)
      <4>1. Len(v) >= 2
        BY <1>1, <3>1, <3>3
      <4>2. /\ split.left \in Lists(pts) /\ Len(split.left) < Len(v)
            /\ split.right \in Lists(pts) /\ Len(split.right) < Len(v)
        BY <3>1, <4>1, HalvesShorter
      <4> HIDE DEF split
      <4>3. split.left \in Upto(pts, m) /\ split.right \in Upto(pts, m)
        BY <1>2, <3>1, <4>2 DEF Upto
      <4>4. f[split.left] = g[split.left] /\ f[split.right] = g[split.right]
        BY <2>4, <4>3
      <4> QED
        BY <3>3, <4>4 DEF DividedInto, split
    <3> QED
      BY <3>2, <3>3
  <2>6. g = F(g)
    <3> HIDE DEF g
    <3>1. \A v \in Upto(pts, m + 1) : [box \in Boxes |-> DividedInto(f, pts, v, box)]
                                        = [box \in Boxes |-> DividedInto(g, pts, v, box)]
      BY <2>5
    <3>2. F(f) = F(g)
      BY <3>1
    <3> QED
      BY <3>2 DEF g
  <2> HIDE DEF g
  <2>7. DividedTo(g, pts, m + 1)
    BY <2>6 DEF DividedTo
  <2> QED
    BY <2>7
<1>5. Nat \subseteq T
  <2> HIDE DEF T
  <2> QED
    BY <1>3, <1>4, EveryNumber
<1> QED
  BY <1>5

\* divideTree by the function that it is defined by.
LEMMA Divides ==
  ASSUME NEW pts \in Seq(Position)
  PROVE  \E f : /\ f = [v \in Lists(pts) |-> [box \in Boxes |-> DividedInto(f, pts, v, box)]]
                /\ \A v, box : divideTree(pts, v, box) = f[v][box]
<1> DEFINE F(f) == [v \in Lists(pts) |-> [box \in Boxes |-> DividedInto(f, pts, v, box)]]
           f == CHOOSE g : g = F(g)
<1>1. \E g : g = F(g)
  <2>1. Len(pts) \in Nat
    OBVIOUS
  <2>2. PICK g : DividedTo(g, pts, Len(pts))
    BY <2>1, DividedExist
  <2>3. Upto(pts, Len(pts)) = Lists(pts)
    BY ListLength DEF Upto
  <2>4. g = F(g)
    BY <2>2, <2>3 DEF DividedTo
  <2> QED
    BY <2>4
<1>2. f = F(f)
  BY <1>1
<1>3. \A v, box : divideTree(pts, v, box) = f[v][box]
  BY DEF divideTree, DividedInto
<1> HIDE DEF f
<1> QED
  BY <1>2, <1>3

\* The nodes over two others.
InnerNodes(below) ==
  [divfeat : Dims, divlow : Int, divhigh : Int, child1 : below, child2 : below]

\* Nodes by its function, up to n levels.
NodesTo(f, n) ==
  f = [levels \in 0 .. n |-> IF levels = 0 THEN [vind : Seq(Nat)]
                             ELSE f[levels - 1] \cup InnerNodes(f[levels - 1])]

\* Such a function exists for every number of levels.
LEMMA NodesExist == ASSUME NEW n \in Nat PROVE \E f : NodesTo(f, n)
<1> DEFINE T == {m \in Nat : \E f : NodesTo(f, m)}
<1>1. 0 \in T
  <2> DEFINE f == [i \in 0 .. 0 |-> [vind : Seq(Nat)]]
  <2>1. NodesTo(f, 0)
    BY DEF NodesTo
  <2> QED
    BY <2>1
<1>2. ASSUME NEW m \in Nat, m \in T PROVE m + 1 \in T
  <2>1. PICK f : NodesTo(f, m)
    BY <1>2
  <2> DEFINE g == [levels \in 0 .. m + 1 |-> IF levels = 0 THEN [vind : Seq(Nat)]
                                             ELSE f[levels - 1] \cup InnerNodes(f[levels - 1])]
  <2>2. \A i \in 0 .. m : f[i] = g[i]
    <3>1. \A i \in 0 .. m : i \in 0 .. m + 1
      OBVIOUS
    <3> QED
      BY <2>1, <3>1 DEF NodesTo
  <2>3. \A i \in 0 .. m + 1 : i # 0 => f[i - 1] = g[i - 1]
    <3>1. \A i \in 0 .. m + 1 : i # 0 => i - 1 \in 0 .. m
      OBVIOUS
    <3> HIDE DEF g
    <3> QED
      BY <2>2, <3>1
  <2>4. g = [levels \in 0 .. m + 1 |-> IF levels = 0 THEN [vind : Seq(Nat)]
                                       ELSE g[levels - 1] \cup InnerNodes(g[levels - 1])]
    BY <2>3
  <2> HIDE DEF g
  <2>5. NodesTo(g, m + 1)
    BY <2>4 DEF NodesTo
  <2> QED
    BY <2>5
<1>3. Nat \subseteq T
  <2> HIDE DEF T
  <2> QED
    BY <1>1, <1>2, EveryNumber
<1> QED
  BY <1>3

\* Leaves, nodes above them, and nodes with more levels.
LEMMA NodesByLevel ==
  /\ MaxBackend \in Nat
  /\ Nodes[0] = [vind : Seq(Nat)]
  /\ \A n \in 1 .. MaxBackend : Nodes[n] = Nodes[n - 1] \cup InnerNodes(Nodes[n - 1])
  /\ \A m, n \in 0 .. MaxBackend : m <= n => Nodes[m] \subseteq Nodes[n]
<1>1. MaxBackend \in Nat
  BY LoopSearchAssumption
<1>2. NodesTo(Nodes, MaxBackend)
  <2>1. \E f : NodesTo(f, MaxBackend)
    BY <1>1, NodesExist
  <2>2. Nodes = CHOOSE f : NodesTo(f, MaxBackend)
    BY DEF Nodes, NodesTo, InnerNodes
  <2> QED
    BY <2>1, <2>2
<1>3. Nodes = [levels \in 0 .. MaxBackend |-> IF levels = 0 THEN [vind : Seq(Nat)]
                 ELSE Nodes[levels - 1] \cup InnerNodes(Nodes[levels - 1])]
  BY <1>2 DEF NodesTo
<1>4. Nodes[0] = [vind : Seq(Nat)]
  <2>1. 0 \in 0 .. MaxBackend
    BY <1>1
  <2> QED
    BY <1>3, <2>1
<1>5. \A n \in 1 .. MaxBackend : Nodes[n] = Nodes[n - 1] \cup InnerNodes(Nodes[n - 1])
  <2>1. \A n \in 1 .. MaxBackend : n \in 0 .. MaxBackend /\ n # 0
    BY <1>1
  <2> QED
    BY <1>3, <2>1
<1> DEFINE T == {k \in Nat : \A m \in 0 .. MaxBackend : m + k \in 0 .. MaxBackend => Nodes[m] \subseteq Nodes[m + k]}
<1>6. 0 \in T
  <2>1. \A m \in 0 .. MaxBackend : m + 0 = m
    BY <1>1
  <2> QED
    BY <2>1
<1>7. ASSUME NEW k \in Nat, k \in T PROVE k + 1 \in T
  <2> SUFFICES ASSUME NEW m \in 0 .. MaxBackend, m + (k + 1) \in 0 .. MaxBackend
               PROVE  Nodes[m] \subseteq Nodes[m + (k + 1)]
    OBVIOUS
  <2>1. m + k \in 0 .. MaxBackend /\ m + (k + 1) \in 1 .. MaxBackend /\ (m + (k + 1)) - 1 = m + k
    BY <1>1
  <2>2. Nodes[m] \subseteq Nodes[m + k]
    BY <1>7, <2>1
  <2>3. Nodes[m + k] \subseteq Nodes[m + (k + 1)]
    BY <1>5, <2>1
  <2> QED
    BY <2>2, <2>3
<1>8. Nat \subseteq T
  <2> HIDE DEF T
  <2> QED
    BY <1>6, <1>7, EveryNumber
<1>9. ASSUME NEW m \in 0 .. MaxBackend, NEW n \in 0 .. MaxBackend, m <= n
      PROVE  Nodes[m] \subseteq Nodes[n]
  <2>1. n - m \in Nat /\ m + (n - m) = n
    BY <1>1, <1>9
  <2>2. n - m \in T
    <3> HIDE DEF T
    <3> QED
      BY <1>8, <2>1
  <2> QED
    BY <2>1, <2>2
<1> QED
  BY <1>1, <1>4, <1>5, <1>9

\* A node over two others reaches as far as both.
LEMMA JoinedTight ==
  ASSUME NEW pts, NEW B, NEW C, NEW one, NEW two, NEW d \in Dims,
         Tight(one.bbox, pts, B), Tight(two.bbox, pts, C),
         \A k \in B \cup C : \A e \in Dims : pts[k][e] \in Int
  PROVE  Tight(Joined(d, one, two).bbox, pts, B \cup C)
<1> DEFINE box == Joined(d, one, two).bbox
<1>1. \A e \in Dims : /\ one.bbox[e].low \in Int /\ one.bbox[e].high \in Int
                      /\ two.bbox[e].low \in Int /\ two.bbox[e].high \in Int
  BY DEF Tight, Boxes
<1>2. box = [e \in Dims |-> [low  |-> Min({one.bbox[e].low, two.bbox[e].low}),
                             high |-> Max({one.bbox[e].high, two.bbox[e].high})]]
  BY DEF Joined
<1> HIDE DEF box
<1>3. ASSUME NEW e \in Dims
      PROVE  /\ box[e] \in [low : Int, high : Int]
             /\ \A k \in B \cup C : box[e].low <= pts[k][e] /\ pts[k][e] <= box[e].high
             /\ \E k \in B \cup C : pts[k][e] = box[e].low
             /\ \E k \in B \cup C : pts[k][e] = box[e].high
  <2> DEFINE a == one.bbox[e].low
             b == two.bbox[e].low
             g == one.bbox[e].high
             h == two.bbox[e].high
  <2>1. a \in Int /\ b \in Int /\ g \in Int /\ h \in Int
    BY <1>1
  <2>2. box[e] = [low |-> Min({a, b}), high |-> Max({g, h})]
    BY <1>2
  <2>3. /\ \A k \in B : a <= pts[k][e] /\ pts[k][e] <= g
        /\ \E k \in B : pts[k][e] = a
        /\ \E k \in B : pts[k][e] = g
    BY DEF Tight
  <2>4. /\ \A k \in C : b <= pts[k][e] /\ pts[k][e] <= h
        /\ \E k \in C : pts[k][e] = b
        /\ \E k \in C : pts[k][e] = h
    BY DEF Tight
  <2> HIDE DEF a, b, g, h
  <2>5. Min({a, b}) = (IF a <= b THEN a ELSE b) /\ Max({g, h}) = (IF g <= h THEN h ELSE g)
    BY <2>1, TwoExtremes
  <2> DEFINE lo == IF a <= b THEN a ELSE b
             hi == IF g <= h THEN h ELSE g
  <2>6. box[e].low = lo /\ box[e].high = hi /\ box[e] = [low |-> lo, high |-> hi]
    <3>1. lo = Min({a, b}) /\ hi = Max({g, h})
      BY <2>5
    <3> HIDE DEF lo, hi
    <3>2. box[e] = [low |-> lo, high |-> hi]
      BY <2>2, <3>1
    <3> QED
      BY <3>2
  <2>7. lo \in Int /\ hi \in Int /\ lo <= a /\ lo <= b /\ g <= hi /\ h <= hi
    BY <2>1
  <2>8. lo \in {a, b} /\ hi \in {g, h}
    OBVIOUS
  <2> HIDE DEF lo, hi
  <2>9. \A k \in B \cup C : pts[k][e] \in Int
    OBVIOUS
  <2>10. \A k \in B \cup C : lo <= pts[k][e] /\ pts[k][e] <= hi
    BY <2>1, <2>3, <2>4, <2>7, <2>9
  <2>11. \E k \in B \cup C : pts[k][e] = lo
    BY <2>3, <2>4, <2>8
  <2>12. \E k \in B \cup C : pts[k][e] = hi
    BY <2>3, <2>4, <2>8
  <2> QED
    BY <2>6, <2>7, <2>10, <2>11, <2>12
<1>4. box \in Boxes
  <2>1. box = [e \in Dims |-> box[e]]
    BY <1>2
  <2> QED
    BY <1>3, <2>1 DEF Boxes
<1> QED
  BY <1>3, <1>4 DEF Tight, box

\* The function that divideTree is defined by.
Divide(f, pts) ==
  f = [v \in Lists(pts) |-> [box \in Boxes |-> DividedInto(f, pts, v, box)]]

\* What a list that is too long for a leaf becomes: a node over those of its halves.
NodeOver(f, pts, v, box, d, one, two, lbox, rbox, l, r) ==
  /\ d \in Dims /\ one \in Lists(pts) /\ two \in Lists(pts) /\ lbox \in Boxes /\ rbox \in Boxes
  /\ Range(v) = Range(one) \cup Range(two) /\ Range(one) \cap Range(two) = {}
  /\ Range(one) # {} /\ Range(two) # {}
  /\ Len(one) \in Nat /\ Len(one) >= 1 /\ Len(one) < Len(v)
  /\ Len(two) \in Nat /\ Len(two) >= 1 /\ Len(two) < Len(v)
  /\ l = f[one][lbox] /\ r = f[two][rbox]
  /\ f[v][box] = Joined(d, l, r)
  /\ \E c \in Int : /\ \A k \in Range(one) : pts[k][d] <= c
                    /\ \A k \in Range(two) : pts[k][d] >= c

\* A list without points has no length.
LEMMA ListEmpty ==
  ASSUME NEW pts \in Seq(Position), NEW v \in Lists(pts)
  PROVE  Len(v) \in Nat /\ (Range(v) # {} <=> Len(v) >= 1)
<1>1. v \in Seq(DOMAIN pts) /\ DOMAIN v = 1 .. Len(v) /\ Len(v) \in Nat
  BY DEF Lists
<1>2. ASSUME Len(v) >= 1 PROVE Range(v) # {}
  <2>1. 1 \in DOMAIN v
    BY <1>1, <1>2
  <2> QED
    BY <2>1 DEF Range
<1>3. ASSUME Range(v) # {} PROVE Len(v) >= 1
  <2>1. PICK i \in DOMAIN v : TRUE
    BY <1>3 DEF Range
  <2> QED
    BY <1>1, <2>1
<1> QED
  BY <1>1, <1>2, <1>3

\* So it is for every such list.
LEMMA DividesOver ==
  ASSUME NEW pts \in Seq(Position), NEW f, Divide(f, pts), NEW v \in Lists(pts), NEW box \in Boxes,
         ~ Len(v) <= m_leaf_max_size
  PROVE  \E d, one, two, lbox, rbox, l, r : NodeOver(f, pts, v, box, d, one, two, lbox, rbox, l, r)
<1> DEFINE split == middleSplit_(pts, v, box)
           d == split.cutfeat
           c == split.cutval
           one == split.left
           two == split.right
           lbox == [box EXCEPT ![split.cutfeat].high = split.cutval]
           rbox == [box EXCEPT ![split.cutfeat].low = split.cutval]
           l == f[one][lbox]
           r == f[two][rbox]
<1>1. Len(v) \in Nat /\ Len(v) >= 2
  <2>1. m_leaf_max_size \in Nat \ {0}
    BY LoopSearchAssumption
  <2>2. Len(v) \in Nat
    BY ListLength
  <2> QED
    BY <2>1, <2>2
<1>2. Enumerates(v, Range(v)) /\ Range(v) \in SUBSET DOMAIN pts
  BY ListEnumerates
<1>3. /\ d \in Dims /\ c \in Int
      /\ \E B, C \in SUBSET Range(v) : Cut(split, pts, v, Range(v), B, C)
  BY <1>1, <1>2, MiddleSplits
<1>4. one \in Lists(pts) /\ two \in Lists(pts) /\ lbox \in Boxes /\ rbox \in Boxes
      /\ Len(one) < Len(v) /\ Len(two) < Len(v)
  BY <1>1, HalvesShorter
<1>5. f[v][box] = Joined(d, l, r)
  <2>1. f[v][box] = DividedInto(f, pts, v, box)
    BY DEF Divide
  <2> QED
    BY <2>1 DEF DividedInto
<1> HIDE DEF split
<1>6. PICK B \in SUBSET Range(v), C \in SUBSET Range(v) : Cut(split, pts, v, Range(v), B, C)
  BY <1>3
<1>7. Range(one) = B /\ Range(two) = C
  BY <1>2, <1>6, EnumeratesList DEF Cut
<1>8. /\ Range(v) = Range(one) \cup Range(two) /\ Range(one) \cap Range(two) = {}
      /\ Range(one) # {} /\ Range(two) # {}
  BY <1>6, <1>7 DEF Cut
<1>9. /\ \A k \in Range(one) : pts[k][d] <= c
      /\ \A k \in Range(two) : pts[k][d] >= c
  BY <1>6, <1>7 DEF Cut
<1>10. Len(one) \in Nat /\ Len(one) >= 1 /\ Len(two) \in Nat /\ Len(two) >= 1
  BY <1>4, <1>8, ListEmpty
<1> HIDE DEF d, c, one, two, lbox, rbox
<1>11. l = f[one][lbox] /\ r = f[two][rbox]
  OBVIOUS
<1> HIDE DEF l, r
<1>12. NodeOver(f, pts, v, box, d, one, two, lbox, rbox, l, r)
  BY <1>3, <1>4, <1>5, <1>8, <1>9, <1>10, <1>11 DEF NodeOver
<1> QED
  BY <1>12

\* Every list that is not empty becomes a node, and the box that its points fill.
LEMMA DividesTight ==
  ASSUME NEW pts \in Seq(Position), Len(pts) <= MaxBackend, NEW f, Divide(f, pts)
  PROVE  \A v \in Lists(pts) : \A box \in Boxes :
           Len(v) >= 1 => /\ f[v][box].node \in Nodes[Len(v)]
                          /\ Tight(f[v][box].bbox, pts, Range(v))
<1> DEFINE Ready(v, box) == f[v][box].node \in Nodes[Len(v)] /\ Tight(f[v][box].bbox, pts, Range(v))
           T == {n \in Nat : \A v \in Lists(pts) : \A box \in Boxes :
                               Len(v) >= 1 /\ Len(v) <= n => Ready(v, box)}
<1>1. \A v \in Lists(pts) : Len(v) \in Nat /\ Len(v) <= MaxBackend
  <2>1. MaxBackend \in Nat /\ Len(pts) \in Nat
    BY NodesByLevel
  <2> QED
    BY <2>1, ListLength
<1>2. 0 \in T
  <2>1. \A v \in Lists(pts) : ~ (Len(v) >= 1 /\ Len(v) <= 0)
    BY <1>1
  <2> HIDE DEF Ready
  <2> QED
    BY <2>1
<1>3. ASSUME NEW n \in Nat, n \in T PROVE n + 1 \in T
  <2> SUFFICES ASSUME NEW v \in Lists(pts), NEW box \in Boxes, Len(v) >= 1, Len(v) <= n + 1
               PROVE  Ready(v, box)
    <3> HIDE DEF Ready
    <3> QED
      OBVIOUS
  <2>1. Enumerates(v, Range(v)) /\ Range(v) \in SUBSET DOMAIN pts /\ Range(v) # {}
    BY ListEnumerates, ListEmpty
  <2>2. CASE Len(v) <= m_leaf_max_size
    <3>1. f[v][box] = DividedInto(f, pts, v, box)
      BY DEF Divide
    <3>2. f[v][box] = [node |-> [vind |-> v], bbox |-> computeBoundingBox(pts, v)]
      BY <2>2, <3>1 DEF DividedInto
    <3>3. v \in Seq(Nat)
      BY DEF Lists
    <3>4. [vind |-> v] \in Nodes[0] /\ Nodes[0] \subseteq Nodes[Len(v)]
      <4>1. Len(v) \in 0 .. MaxBackend /\ 0 \in 0 .. MaxBackend /\ 0 <= Len(v)
        BY <1>1, NodesByLevel
      <4> QED
        BY <3>3, <4>1, NodesByLevel
    <3>5. Tight(computeBoundingBox(pts, v), pts, Range(v))
      BY <2>1, BoundsTight
    <3> QED
      BY <3>2, <3>4, <3>5
  <2>3. CASE ~ Len(v) <= m_leaf_max_size
    <3>1. PICK d, one, two, lbox, rbox, l, r : NodeOver(f, pts, v, box, d, one, two, lbox, rbox, l, r)
      BY <2>3, DividesOver
    <3>2. /\ d \in Dims /\ one \in Lists(pts) /\ two \in Lists(pts) /\ lbox \in Boxes /\ rbox \in Boxes
          /\ Len(one) \in Nat /\ Len(one) >= 1 /\ Len(one) < Len(v)
          /\ Len(two) \in Nat /\ Len(two) >= 1 /\ Len(two) < Len(v)
          /\ l = f[one][lbox] /\ r = f[two][rbox]
          /\ Range(v) = Range(one) \cup Range(two) /\ f[v][box] = Joined(d, l, r)
      BY <3>1 DEF NodeOver
    <3>3. Len(v) \in Nat /\ Len(v) <= MaxBackend /\ MaxBackend \in Nat
      BY <1>1, NodesByLevel
    <3>4. Len(one) <= n /\ Len(two) <= n
      BY <3>2, <3>3
    <3>5. Ready(one, lbox) /\ Ready(two, rbox)
      <4> HIDE DEF Ready
      <4> QED
        BY <1>3, <3>2, <3>4
    <3>6. Tight(l.bbox, pts, Range(one)) /\ Tight(r.bbox, pts, Range(two))
      BY <3>2, <3>5
    <3>7. \A k \in Range(one) \cup Range(two) : \A e \in Dims : pts[k][e] \in Int
      <4>1. \A k \in Range(v) : pts[k] \in Position
        BY <2>1
      <4> QED
        BY <3>2, <4>1, Coordinate
    <3>8. Tight(Joined(d, l, r).bbox, pts, Range(one) \cup Range(two))
      BY <3>2, <3>6, <3>7, JoinedTight
    <3> DEFINE m == Len(v) - 1
    <3>9. /\ m \in 0 .. MaxBackend /\ Len(one) \in 0 .. MaxBackend /\ Len(two) \in 0 .. MaxBackend
          /\ Len(one) <= m /\ Len(two) <= m /\ Len(v) \in 1 .. MaxBackend
      BY <3>2, <3>3
    <3>10. l.node \in Nodes[m] /\ r.node \in Nodes[m]
      <4>1. Nodes[Len(one)] \subseteq Nodes[m] /\ Nodes[Len(two)] \subseteq Nodes[m]
        BY <3>9, NodesByLevel
      <4> QED
        BY <3>2, <3>5, <4>1
    <3>11. l.bbox[d].high \in Int /\ r.bbox[d].low \in Int
      BY <3>2, <3>6 DEF Tight, Boxes
    <3>12. Joined(d, l, r).node \in InnerNodes(Nodes[m])
      <4> HIDE DEF m
      <4>1. Joined(d, l, r).node = [divfeat |-> d, divlow |-> l.bbox[d].high, divhigh |-> r.bbox[d].low,
                                    child1 |-> l.node, child2 |-> r.node]
        BY DEF Joined
      <4> QED
        BY <3>2, <3>10, <3>11, <4>1 DEF InnerNodes
    <3>13. Joined(d, l, r).node \in Nodes[Len(v)]
      BY <3>9, <3>12, NodesByLevel
    <3> QED
      BY <3>2, <3>8, <3>13
  <2> QED
    BY <2>2, <2>3
<1>4. Nat \subseteq T
  <2> HIDE DEF T
  <2> QED
    BY <1>2, <1>3, EveryNumber
<1>5. ASSUME NEW v \in Lists(pts), NEW box \in Boxes, Len(v) >= 1 PROVE Ready(v, box)
  <2>1. Len(v) \in T /\ Len(v) <= Len(v)
    <3> HIDE DEF T
    <3> QED
      BY <1>1, <1>4
  <2> HIDE DEF Ready
  <2> QED
    BY <1>5, <2>1
<1> QED
  BY <1>5

-----------------------------------------------------------------------------
(* Searching a tree                                                        *)
\* What searchLevel finds from a node, by its function.
SearchedAt(s, pts, vec, node, known) ==
  IF IsLeaf(node) THEN Those(node.vind, Neighbors(pts, vec))
  ELSE s[bestChild(vec, node)][known]
       \o IF Beyond(vec, node, known).mindistsq <= radius
          THEN s[otherChild(vec, node)][Beyond(vec, node, known)]
          ELSE <<>>

\* The function of searchLevel on the nodes with so many levels.
SearchTo(s, pts, vec, n) ==
  s = [node \in Nodes[n] |-> [known \in Distances |-> SearchedAt(s, pts, vec, node, known)]]

\* What is no leaf has two children one level down.
LEMMA ChildrenBelow ==
  ASSUME NEW n \in 0 .. MaxBackend, NEW node \in Nodes[n], ~ IsLeaf(node)
  PROVE  n >= 1 /\ node \in InnerNodes(Nodes[n - 1])
<1> DEFINE T == {m \in Nat : m \in 0 .. MaxBackend /\ node \in Nodes[m] =>
                               m >= 1 /\ node \in InnerNodes(Nodes[m - 1])}
<1>1. 0 \in T
  <2>1. \A x \in [vind : Seq(Nat)] : IsLeaf(x)
    BY DEF IsLeaf
  <2>2. node \notin Nodes[0]
    BY <2>1, NodesByLevel
  <2> QED
    BY <2>2
<1>2. ASSUME NEW m \in Nat, m \in T PROVE m + 1 \in T
  <2> SUFFICES ASSUME m + 1 \in 0 .. MaxBackend, node \in Nodes[m + 1]
               PROVE  node \in InnerNodes(Nodes[m])
    <3>1. (m + 1) - 1 = m /\ m + 1 >= 1
      OBVIOUS
    <3> QED
      BY <3>1
  <2>1. MaxBackend \in Nat
    BY NodesByLevel
  <2>2. m + 1 \in 1 .. MaxBackend /\ (m + 1) - 1 = m /\ m \in 0 .. MaxBackend
    BY <2>1
  <2>3. Nodes[m + 1] = Nodes[m] \cup InnerNodes(Nodes[m])
    BY <2>2, NodesByLevel
  <2>4. CASE node \in Nodes[m]
    <3>1. m >= 1 /\ node \in InnerNodes(Nodes[m - 1])
      BY <1>2, <2>2, <2>4
    <3>2. m - 1 \in 0 .. MaxBackend /\ m - 1 <= m
      BY <2>1, <2>2, <3>1
    <3>3. Nodes[m - 1] \subseteq Nodes[m]
      BY <2>2, <3>2, NodesByLevel
    <3> QED
      BY <3>1, <3>3 DEF InnerNodes
  <2> QED
    BY <2>3, <2>4
<1>3. Nat \subseteq T
  <2> HIDE DEF T
  <2> QED
    BY <1>1, <1>2, EveryNumber
<1>4. n \in T
  <2>1. n \in Nat
    BY NodesByLevel
  <2> HIDE DEF T
  <2> QED
    BY <1>3, <2>1
<1> QED
  BY <1>4

\* It exists for every number of levels: the children are one level down.
LEMMA SearchExists ==
  ASSUME NEW pts, NEW vec
  PROVE  \E s : SearchTo(s, pts, vec, MaxBackend)
<1> DEFINE T == {n \in Nat : n <= MaxBackend => \E s : SearchTo(s, pts, vec, n)}
<1>1. MaxBackend \in Nat
  BY NodesByLevel
<1>2. 0 \in T
  <2> DEFINE F(h) == [node \in Nodes[0] |-> [known \in Distances |-> SearchedAt(h, pts, vec, node, known)]]
             s == F(0)
  <2>1. \A node \in Nodes[0] : IsLeaf(node)
    <3>1. 0 \in 0 .. MaxBackend
      BY <1>1
    <3> QED
      BY <3>1, ChildrenBelow
  <2>2. \A node \in Nodes[0], known \in Distances :
          SearchedAt(0, pts, vec, node, known) = SearchedAt(s, pts, vec, node, known)
    <3> HIDE DEF s
    <3> QED
      BY <2>1 DEF SearchedAt
  <2>3. s = F(s)
    <3> HIDE DEF s
    <3>1. \A node \in Nodes[0] : [known \in Distances |-> SearchedAt(0, pts, vec, node, known)]
                                   = [known \in Distances |-> SearchedAt(s, pts, vec, node, known)]
      BY <2>2
    <3>2. F(0) = F(s)
      BY <3>1
    <3> QED
      BY <3>2 DEF s
  <2> HIDE DEF s
  <2>4. SearchTo(s, pts, vec, 0)
    BY <2>3 DEF SearchTo
  <2> QED
    BY <2>4
<1>3. ASSUME NEW n \in Nat, n \in T PROVE n + 1 \in T
  <2> SUFFICES ASSUME n + 1 <= MaxBackend PROVE \E s : SearchTo(s, pts, vec, n + 1)
    OBVIOUS
  <2>1. n <= MaxBackend /\ n \in 0 .. MaxBackend /\ n + 1 \in 0 .. MaxBackend /\ (n + 1) - 1 = n
    BY <1>1
  <2>2. PICK f : SearchTo(f, pts, vec, n)
    BY <1>3, <2>1
  <2> DEFINE F(h) == [node \in Nodes[n + 1] |-> [known \in Distances |-> SearchedAt(h, pts, vec, node, known)]]
             g == F(f)
  <2>3. f = [node \in Nodes[n] |-> [known \in Distances |-> SearchedAt(f, pts, vec, node, known)]]
    BY <2>2 DEF SearchTo
  <2>4. Nodes[n] \subseteq Nodes[n + 1]
    BY <2>1, NodesByLevel
  <2>5. \A node \in Nodes[n] : f[node] = g[node]
    BY <2>3, <2>4
  <2>6. ASSUME NEW node \in Nodes[n + 1], NEW known \in Distances
        PROVE  SearchedAt(f, pts, vec, node, known) = SearchedAt(g, pts, vec, node, known)
    <3> HIDE DEF g
    <3>1. CASE IsLeaf(node)
      BY <3>1 DEF SearchedAt
    <3>2. CASE ~ IsLeaf(node)
      <4>1. node \in InnerNodes(Nodes[n])
        BY <2>1, <3>2, ChildrenBelow
      <4>2. node.child1 \in Nodes[n] /\ node.child2 \in Nodes[n]
        BY <4>1 DEF InnerNodes
      <4>3. bestChild(vec, node) \in Nodes[n] /\ otherChild(vec, node) \in Nodes[n]
        BY <4>2 DEF bestChild, otherChild
      <4>4. f[bestChild(vec, node)] = g[bestChild(vec, node)] /\ f[otherChild(vec, node)] = g[otherChild(vec, node)]
        BY <2>5, <4>3
      <4> QED
        BY <3>2, <4>4 DEF SearchedAt
    <3> QED
      BY <3>1, <3>2
  <2>7. g = F(g)
    <3> HIDE DEF g
    <3>1. \A node \in Nodes[n + 1] : [known \in Distances |-> SearchedAt(f, pts, vec, node, known)]
                                       = [known \in Distances |-> SearchedAt(g, pts, vec, node, known)]
      BY <2>6
    <3>2. F(f) = F(g)
      BY <3>1
    <3> QED
      BY <3>2 DEF g
  <2> HIDE DEF g
  <2>8. SearchTo(g, pts, vec, n + 1)
    BY <2>7 DEF SearchTo
  <2> QED
    BY <2>8
<1>4. Nat \subseteq T
  <2> HIDE DEF T
  <2> QED
    BY <1>2, <1>3, EveryNumber
<1>5. MaxBackend \in T /\ MaxBackend <= MaxBackend
  <2> HIDE DEF T
  <2> QED
    BY <1>1, <1>4
<1> QED
  BY <1>5

\* searchLevel by the function that it is defined by.
LEMMA Searches ==
  ASSUME NEW pts, NEW vec
  PROVE  \E s : SearchTo(s, pts, vec, MaxBackend)
                /\ \A node, known : searchLevel(pts, vec, node, known) = s[node][known]
<1> DEFINE s == CHOOSE h : SearchTo(h, pts, vec, MaxBackend)
<1>1. SearchTo(s, pts, vec, MaxBackend)
  BY SearchExists
<1>2. \A node, known : searchLevel(pts, vec, node, known) = s[node][known]
  BY DEF searchLevel, SearchTo, SearchedAt
<1> HIDE DEF s
<1> QED
  BY <1>1, <1>2

\* Distances by dimension that no point of A is nearer than.
Below(known, vec, pts, A) ==
  /\ known \in Distances
  /\ known.mindistsq = known.dists[1] + known.dists[2] + known.dists[3]
  /\ \A k \in A : \A d \in Dims : known.dists[d] <= accum_dist(vec[d], pts[k][d])

\* What lies beyond is not nearer.
LEMMA Farther ==
  ASSUME NEW x \in Int, NEW h \in Int, NEW p \in Int, (x <= h /\ h <= p) \/ (x >= h /\ h >= p)
  PROVE  accum_dist(x, h) <= accum_dist(x, p) /\ accum_dist(x, h) \in Int /\ accum_dist(x, p) \in Int
         /\ accum_dist(x, p) >= 0
<1>1. \A a, b \in Nat : a <= b => a * a <= b * b
  <2> SUFFICES ASSUME NEW a \in Nat, NEW b \in Nat, a <= b PROVE a * a <= b * b
    OBVIOUS
  <2>1. a * a <= a * b
    OBVIOUS
  <2>2. a * b <= b * b
    OBVIOUS
  <2> QED
    BY <2>1, <2>2
<1>2. \A a \in Int : a * a \in Int /\ a * a >= 0 /\ (-a) * (-a) = a * a
  OBVIOUS
<1>3. accum_dist(x, h) = (x - h) * (x - h) /\ accum_dist(x, p) = (x - p) * (x - p)
  BY DEF accum_dist
<1>4. CASE x <= h /\ h <= p
  <2> DEFINE a == h - x
             b == p - x
  <2>1. a \in Nat /\ b \in Nat /\ a <= b /\ x - h = -a /\ x - p = -b
    BY <1>4
  <2> HIDE DEF a, b
  <2>2. (x - h) * (x - h) = a * a /\ (x - p) * (x - p) = b * b
    BY <1>2, <2>1
  <2> QED
    BY <1>1, <1>2, <1>3, <2>1, <2>2
<1>5. CASE x >= h /\ h >= p
  <2> DEFINE a == x - h
             b == x - p
  <2>1. a \in Nat /\ b \in Nat /\ a <= b
    BY <1>5
  <2>2. a * a <= b * b
    BY <1>1, <2>1
  <2> QED
    BY <1>2, <1>3, <2>1, <2>2
<1> QED
  BY <1>4, <1>5

\* Distances that no dimension falls below do not exceed the metric.
LEMMA MetricBound ==
  ASSUME NEW vec \in Position, NEW p \in Position, NEW known \in Distances,
         known.mindistsq = known.dists[1] + known.dists[2] + known.dists[3],
         \A d \in Dims : known.dists[d] <= accum_dist(vec[d], p[d])
  PROVE  known.mindistsq <= evalMetric(vec, p) /\ known.mindistsq \in Int /\ evalMetric(vec, p) \in Int
<1>1. 1 \in Dims /\ 2 \in Dims /\ 3 \in Dims
  BY DEF Dims
<1>2. \A d \in Dims : vec[d] \in Int /\ p[d] \in Int /\ known.dists[d] \in Int
  BY Coordinate DEF Distances
<1>3. \A d \in Dims : accum_dist(vec[d], p[d]) \in Int
  BY <1>2 DEF accum_dist
<1> DEFINE a(d) == accum_dist(vec[d], p[d])
<1>4. evalMetric(vec, p) = a(1) + a(2) + a(3)
  BY DEF evalMetric
<1> HIDE DEF a
<1>5. /\ a(1) \in Int /\ a(2) \in Int /\ a(3) \in Int
      /\ known.dists[1] <= a(1) /\ known.dists[2] <= a(2) /\ known.dists[3] <= a(3)
      /\ known.dists[1] \in Int /\ known.dists[2] \in Int /\ known.dists[3] \in Int
  BY <1>1, <1>2, <1>3 DEF a
<1> QED
  BY <1>4, <1>5

\* What is known of the points on the other side of a node's plane.
LEMMA BeyondBelow ==
  ASSUME NEW pts, NEW vec \in Position, NEW node, NEW known, NEW A, NEW B,
         node.divfeat \in Dims, node.divlow \in Int, node.divhigh \in Int,
         node.divlow <= node.divhigh,
         \A k \in A \cup B : pts[k] \in Position,
         \A k \in A : pts[k][node.divfeat] <= node.divlow,
         \A k \in B : pts[k][node.divfeat] >= node.divhigh,
         Below(known, vec, pts, A \cup B)
  PROVE  Below(Beyond(vec, node, known), vec, pts, IF IsBefore(vec, node) THEN B ELSE A)
<1> DEFINE d == node.divfeat
           h == IF IsBefore(vec, node) THEN node.divhigh ELSE node.divlow
           far == IF IsBefore(vec, node) THEN B ELSE A
           dist == accum_dist(vec[d], h)
           next == Beyond(vec, node, known)
<1>1. d \in Dims /\ vec[d] \in Int /\ h \in Int
  BY Coordinate
<1>2. vec[d] - h \in Int
  BY <1>1
<1>3. dist \in Int
  <2> HIDE DEF d, h
  <2> QED
    BY <1>2 DEF accum_dist
<1>4. ASSUME NEW k \in far PROVE dist <= accum_dist(vec[d], pts[k][d]) /\ k \in A \cup B
  <2>1. k \in A \cup B /\ pts[k][d] \in Int
    BY <1>1, Coordinate
  <2> DEFINE p == pts[k][d]
             v == vec[d]
  <2>2. CASE IsBefore(vec, node)
    <3>1. (v - node.divlow) + (v - node.divhigh) < 0
      BY <2>2 DEF IsBefore
    <3>2. h = node.divhigh /\ p >= h
      BY <2>2
    <3>3. v <= h /\ h <= p
      <4> HIDE DEF v, p, h
      <4> QED
        BY <1>1, <2>1, <3>1, <3>2 DEF v, p
    <3>4. accum_dist(v, h) <= accum_dist(v, p)
      <4>1. v \in Int /\ p \in Int
        BY <1>1, <2>1
      <4>2. h \in Int
        BY <1>1
      <4> HIDE DEF v, p, h
      <4>3. (v <= h /\ h <= p) \/ (v >= h /\ h >= p)
        BY <3>3
      <4> QED
        BY <4>1, <4>2, <4>3, Farther
    <3> QED
      BY <2>1, <3>4
  <2>3. CASE ~ IsBefore(vec, node)
    <3>1. ~ (v - node.divlow) + (v - node.divhigh) < 0
      BY <2>3 DEF IsBefore
    <3>2. h = node.divlow /\ p <= h
      BY <2>3
    <3>3. v >= h /\ h >= p
      <4> HIDE DEF v, p, h
      <4> QED
        BY <1>1, <2>1, <3>1, <3>2 DEF v, p
    <3>4. accum_dist(v, h) <= accum_dist(v, p)
      <4>1. v \in Int /\ p \in Int
        BY <1>1, <2>1
      <4>2. h \in Int
        BY <1>1
      <4> HIDE DEF v, p, h
      <4>3. (v <= h /\ h <= p) \/ (v >= h /\ h >= p)
        BY <3>3
      <4> QED
        BY <4>1, <4>2, <4>3, Farther
    <3> QED
      BY <2>1, <3>4
  <2> QED
    BY <2>2, <2>3
<1>5. /\ known.mindistsq \in Int /\ known.dists \in [Dims -> Int] /\ known.dists[d] \in Int
      /\ known.mindistsq = known.dists[1] + known.dists[2] + known.dists[3]
  BY <1>1 DEF Below, Distances
<1>6. /\ next.mindistsq = known.mindistsq + dist - known.dists[d]
      /\ next.dists = [known.dists EXCEPT ![d] = dist]
      /\ next \in [mindistsq : {known.mindistsq + dist - known.dists[d]},
                   dists : {[known.dists EXCEPT ![d] = dist]}]
  BY DEF Beyond
<1>7. next.dists \in [Dims -> Int] /\ next.mindistsq \in Int
  BY <1>1, <1>3, <1>5, <1>6
<1>8. next \in Distances
  BY <1>6, <1>7 DEF Distances
<1>9. next.mindistsq = next.dists[1] + next.dists[2] + next.dists[3]
  <2>1. 1 \in Dims /\ 2 \in Dims /\ 3 \in Dims /\ (d = 1 \/ d = 2 \/ d = 3)
    BY <1>1 DEF Dims
  <2>2. known.dists[1] \in Int /\ known.dists[2] \in Int /\ known.dists[3] \in Int
    BY <1>5, <2>1
  <2>3. \A e \in Dims : next.dists[e] = IF e = d THEN dist ELSE known.dists[e]
    BY <1>5, <1>6
  <2> HIDE DEF d, dist, next
  <2>4. /\ next.dists[1] = IF d = 1 THEN dist ELSE known.dists[1]
        /\ next.dists[2] = IF d = 2 THEN dist ELSE known.dists[2]
        /\ next.dists[3] = IF d = 3 THEN dist ELSE known.dists[3]
    BY <2>1, <2>3
  <2>5. CASE d = 1
    BY <1>3, <1>5, <1>6, <2>2, <2>4, <2>5
  <2>6. CASE d = 2
    BY <1>3, <1>5, <1>6, <2>2, <2>4, <2>6
  <2>7. CASE d = 3
    BY <1>3, <1>5, <1>6, <2>2, <2>4, <2>7
  <2> QED
    BY <2>1, <2>5, <2>6, <2>7
<1>10. ASSUME NEW k \in far, NEW e \in Dims
       PROVE  next.dists[e] <= accum_dist(vec[e], pts[k][e])
  <2>1. next.dists[e] = IF e = d THEN dist ELSE known.dists[e]
    BY <1>5, <1>6
  <2>2. CASE e = d
    <3> HIDE DEF next, dist, far
    <3> QED
      BY <1>4, <2>1, <2>2
  <2>3. CASE e # d
    <3>1. k \in A \cup B
      BY <1>4
    <3>2. known.dists[e] <= accum_dist(vec[e], pts[k][e])
      BY <3>1 DEF Below
    <3> QED
      BY <2>1, <2>3, <3>2
  <2> QED
    BY <2>2, <2>3
<1> QED
  BY <1>8, <1>9, <1>10 DEF Below

\* Points that are farther than the radius are not near.
LEMMA FarAway ==
  ASSUME NEW pts, NEW vec \in Position, NEW known, NEW A, \A k \in A : pts[k] \in Position,
         Below(known, vec, pts, A), ~ known.mindistsq <= radius
  PROVE  A \cap Neighbors(pts, vec) = {}
<1>0. radius \in Nat
  BY LoopSearchAssumption
<1> SUFFICES ASSUME NEW k \in A PROVE ~ evalMetric(vec, pts[k]) < radius
  BY DEF Neighbors
<1>1. /\ known \in Distances
      /\ known.mindistsq = known.dists[1] + known.dists[2] + known.dists[3]
      /\ \A d \in Dims : known.dists[d] <= accum_dist(vec[d], pts[k][d])
      /\ pts[k] \in Position
  BY DEF Below
<1>2. /\ known.mindistsq <= evalMetric(vec, pts[k])
      /\ known.mindistsq \in Int /\ evalMetric(vec, pts[k]) \in Int
  BY <1>1, MetricBound
<1> QED
  BY <1>0, <1>2

\* The near points of one child, and of the other unless it is too far.
LEMMA ChildrenFound ==
  ASSUME NEW a, NEW b, NEW near, NEW far, NEW N, near \cap far = {}, NEW within \in BOOLEAN,
         Enumerates(a, near \cap N), within => Enumerates(b, far \cap N),
         ~ within => far \cap N = {}
  PROVE  Enumerates(a \o IF within THEN b ELSE <<>>, (near \cup far) \cap N)
<1> DEFINE c == IF within THEN b ELSE <<>>
<1>1. Enumerates(c, far \cap N)
  BY NothingEnumerated
<1>2. (near \cap N) \cap (far \cap N) = {} /\ (near \cup far) \cap N = (near \cap N) \cup (far \cap N)
  OBVIOUS
<1> HIDE DEF c
<1>3. Enumerates(a \o c, (near \cap N) \cup (far \cap N))
  BY <1>1, <1>2, BothEnumerated
<1> QED
  BY <1>2, <1>3 DEF c

\* From a node downwards every near point is found once, if what is known is right.
LEMMA SearchesOver ==
  ASSUME NEW pts0 \in Seq(Position), Len(pts0) <= MaxBackend, NEW f, Divide(f, pts0),
         NEW pts \in Seq(Position), NEW vec \in Position, NEW s, SearchTo(s, pts, vec, MaxBackend)
  PROVE  \A v \in Lists(pts0) : \A box \in Boxes :
           Len(v) >= 1 /\ (\A k \in Range(v) : k \in DOMAIN pts /\ pts[k] = pts0[k])
           => \A known : Below(known, vec, pts, Range(v)) =>
                Enumerates(s[f[v][box].node][known], Range(v) \cap Neighbors(pts, vec))
<1> DEFINE Agree(v) == \A k \in Range(v) : k \in DOMAIN pts /\ pts[k] = pts0[k]
           Found(v, box) ==
             \A known : Below(known, vec, pts, Range(v)) =>
               Enumerates(s[f[v][box].node][known], Range(v) \cap Neighbors(pts, vec))
           T == {n \in Nat : \A v \in Lists(pts0) : \A box \in Boxes :
                               Len(v) >= 1 /\ Len(v) <= n /\ Agree(v) => Found(v, box)}
<1>1. \A v \in Lists(pts0) : Len(v) \in Nat /\ Len(v) <= MaxBackend
  BY ListLength, NodesByLevel
<1>2. 0 \in T
  <2> SUFFICES ASSUME NEW v \in Lists(pts0), Len(v) >= 1, Len(v) <= 0 PROVE FALSE
    OBVIOUS
  <2> QED
    BY <1>1
<1>3. ASSUME NEW n \in Nat, n \in T PROVE n + 1 \in T
  <2> SUFFICES ASSUME NEW v \in Lists(pts0), NEW box \in Boxes, Len(v) >= 1, Len(v) <= n + 1, Agree(v)
               PROVE  Found(v, box)
    <3> HIDE DEF Found, Agree
    <3> QED
      OBVIOUS
  <2> SUFFICES ASSUME NEW known, Below(known, vec, pts, Range(v))
               PROVE  Enumerates(s[f[v][box].node][known], Range(v) \cap Neighbors(pts, vec))
    OBVIOUS
  <2>1. Enumerates(v, Range(v)) /\ Range(v) \in SUBSET DOMAIN pts0
    BY ListEnumerates
  <2> DEFINE node == f[v][box].node
             N == Neighbors(pts, vec)
  <2>2. node \in Nodes[MaxBackend]
    <3>1. node \in Nodes[Len(v)]
      BY DividesTight
    <3>2. Len(v) \in 0 .. MaxBackend /\ MaxBackend \in 0 .. MaxBackend /\ Len(v) <= MaxBackend
      BY <1>1, NodesByLevel
    <3> QED
      BY <3>1, <3>2, NodesByLevel
  <2>3. known \in Distances
    BY DEF Below
  <2>4. s[node][known] = SearchedAt(s, pts, vec, node, known)
    <3> HIDE DEF node
    <3> QED
      BY <2>2, <2>3 DEF SearchTo
  <2>5. CASE Len(v) <= m_leaf_max_size
    <3>1. f[v][box] = DividedInto(f, pts0, v, box)
      BY DEF Divide
    <3>2. f[v][box] = [node |-> [vind |-> v], bbox |-> computeBoundingBox(pts0, v)]
      BY <2>5, <3>1 DEF DividedInto
    <3>3. node = [vind |-> v]
      BY <3>2
    <3>4. IsLeaf(node) /\ node.vind = v
      BY <3>3 DEF IsLeaf
    <3>5. s[node][known] = Those(v, N)
      <4> HIDE DEF node
      <4> QED
        BY <2>4, <3>4 DEF SearchedAt
    <3> QED
      BY <2>1, <3>5, ThoseEnumerated
  <2>6. CASE ~ Len(v) <= m_leaf_max_size
    <3>1. PICK d, one, two, lbox, rbox, l, r : NodeOver(f, pts0, v, box, d, one, two, lbox, rbox, l, r)
      BY <2>6, DividesOver
    <3>2. /\ d \in Dims /\ one \in Lists(pts0) /\ two \in Lists(pts0) /\ lbox \in Boxes /\ rbox \in Boxes
          /\ Len(one) \in Nat /\ Len(one) >= 1 /\ Len(one) < Len(v)
          /\ Len(two) \in Nat /\ Len(two) >= 1 /\ Len(two) < Len(v)
          /\ l = f[one][lbox] /\ r = f[two][rbox]
          /\ Range(v) = Range(one) \cup Range(two) /\ Range(one) \cap Range(two) = {}
          /\ f[v][box] = Joined(d, l, r)
      BY <3>1 DEF NodeOver
    <3>3. PICK c \in Int : /\ \A k \in Range(one) : pts0[k][d] <= c
                           /\ \A k \in Range(two) : pts0[k][d] >= c
      BY <3>1 DEF NodeOver
    <3>4. Len(one) <= n /\ Len(two) <= n
      BY <1>1, <3>2
    <3>5. Agree(one) /\ Agree(two)
      BY <3>2
    <3>6. Found(one, lbox) /\ Found(two, rbox)
      <4> HIDE DEF Found, Agree
      <4> QED
        BY <1>3, <3>2, <3>4, <3>5
    <3>7. Tight(l.bbox, pts0, Range(one)) /\ Tight(r.bbox, pts0, Range(two))
      BY <3>2, DividesTight
    <3>8. /\ node = [divfeat |-> d, divlow |-> l.bbox[d].high, divhigh |-> r.bbox[d].low,
                     child1 |-> l.node, child2 |-> r.node]
      BY <3>2 DEF Joined
    <3>9. /\ node.divfeat = d /\ node.divlow = l.bbox[d].high /\ node.divhigh = r.bbox[d].low
          /\ node.child1 = l.node /\ node.child2 = r.node /\ ~ IsLeaf(node)
      BY <3>8 DEF IsLeaf
    <3> HIDE DEF node
    <3>10. \A k \in Range(one) \cup Range(two) : pts[k] = pts0[k] /\ pts[k] \in Position
      <4>1. \A k \in Range(v) : pts0[k] \in Position
        BY <2>1
      <4> QED
        BY <3>2, <4>1
    <3>11. /\ node.divlow \in Int /\ node.divhigh \in Int /\ node.divlow <= node.divhigh
           /\ \A k \in Range(one) : pts[k][d] <= node.divlow
           /\ \A k \in Range(two) : pts[k][d] >= node.divhigh
      <4>1. PICK i \in Range(one) : pts0[i][d] = node.divlow
        BY <3>2, <3>7, <3>9 DEF Tight
      <4>2. PICK j \in Range(two) : pts0[j][d] = node.divhigh
        BY <3>2, <3>7, <3>9 DEF Tight
      <4>3. pts0[i][d] \in Int /\ pts0[j][d] \in Int
        BY <3>2, <3>10, Coordinate
      <4>4. node.divlow <= c /\ c <= node.divhigh
        BY <3>3, <4>1, <4>2, <4>3
      <4>5. \A k \in Range(one) : pts0[k][d] <= node.divlow
        BY <3>2, <3>7, <3>9 DEF Tight
      <4>6. \A k \in Range(two) : node.divhigh <= pts0[k][d] /\ pts0[k][d] \in Int
        BY <3>2, <3>7, <3>9, <3>10, Coordinate DEF Tight
      <4>7. \A k \in Range(two) : pts0[k][d] >= node.divhigh
        BY <4>2, <4>3, <4>6
      <4> QED
        BY <3>10, <4>1, <4>2, <4>3, <4>4, <4>5, <4>7
    <3> DEFINE near == IF IsBefore(vec, node) THEN Range(one) ELSE Range(two)
               far == IF IsBefore(vec, node) THEN Range(two) ELSE Range(one)
               next == Beyond(vec, node, known)
               a == s[bestChild(vec, node)][known]
               b == s[otherChild(vec, node)][next]
    <3>12. Below(next, vec, pts, far)
      <4>1. Below(known, vec, pts, Range(one) \cup Range(two))
        BY <3>2
      <4> HIDE DEF N
      <4> QED
        BY <3>2, <3>9, <3>10, <3>11, <4>1, BeyondBelow
    <3>13. Below(known, vec, pts, near)
      BY <3>2 DEF Below
    <3>14. Enumerates(a, near \cap N)
      <4> HIDE DEF next
      <4>1. CASE IsBefore(vec, node)
        <5>1. bestChild(vec, node) = f[one][lbox].node /\ near = Range(one)
          BY <3>2, <3>9, <4>1 DEF bestChild
        <5> QED
          BY <3>6, <3>13, <5>1
      <4>2. CASE ~ IsBefore(vec, node)
        <5>1. bestChild(vec, node) = f[two][rbox].node /\ near = Range(two)
          BY <3>2, <3>9, <4>2 DEF bestChild
        <5> QED
          BY <3>6, <3>13, <5>1
      <4> QED
        BY <4>1, <4>2
    <3>15. Enumerates(b, far \cap N)
      <4> HIDE DEF next
      <4>1. CASE IsBefore(vec, node)
        <5>1. otherChild(vec, node) = f[two][rbox].node /\ far = Range(two)
          BY <3>2, <3>9, <4>1 DEF otherChild
        <5> QED
          BY <3>6, <3>12, <5>1
      <4>2. CASE ~ IsBefore(vec, node)
        <5>1. otherChild(vec, node) = f[one][lbox].node /\ far = Range(one)
          BY <3>2, <3>9, <4>2 DEF otherChild
        <5> QED
          BY <3>6, <3>12, <5>1
      <4> QED
        BY <4>1, <4>2
    <3> DEFINE within == next.mindistsq <= radius
    <3>16. ~ within => far \cap N = {}
      <4>1. \A k \in far : pts[k] \in Position
        BY <3>10
      <4> HIDE DEF next, far
      <4> QED
        BY <3>12, <4>1, FarAway
    <3>17. near \cap far = {} /\ near \cup far = Range(v)
      BY <3>2
    <3>18. s[node][known] = a \o IF within THEN b ELSE <<>>
      BY <2>4, <3>9 DEF SearchedAt
    <3>19. Enumerates(a \o IF within THEN b ELSE <<>>, (near \cup far) \cap N)
      <4> HIDE DEF a, b, near, far, next, N
      <4> QED
        BY <3>14, <3>15, <3>16, <3>17, ChildrenFound
    <3>20. Enumerates(s[node][known], Range(v) \cap N)
      <4> HIDE DEF a, b, near, far, next, N, within
      <4> QED
        BY <3>17, <3>18, <3>19
    <3> QED
      BY <3>20 DEF node
  <2> QED
    BY <2>5, <2>6
<1>4. Nat \subseteq T
  <2> HIDE DEF T
  <2> QED
    BY <1>2, <1>3, EveryNumber
<1>5. ASSUME NEW v \in Lists(pts0), NEW box \in Boxes, Len(v) >= 1, Agree(v) PROVE Found(v, box)
  <2>1. Len(v) \in T /\ Len(v) <= Len(v)
    <3> HIDE DEF T
    <3> QED
      BY <1>1, <1>4
  <2> HIDE DEF Found, Agree
  <2> QED
    BY <1>5, <2>1
<1> QED
  BY <1>5

\* What the root's box says of the points in it.
LEMMA InitialBelow ==
  ASSUME NEW pts, NEW vec \in Position, NEW A, \A k \in A : pts[k] \in Position,
         NEW bbox \in Boxes,
         \A k \in A : \A d \in Dims : bbox[d].low <= pts[k][d] /\ pts[k][d] <= bbox[d].high
  PROVE  Below(computeInitialDistances(vec, bbox), vec, pts, A)
<1> DEFINE D(d) == IF vec[d] < bbox[d].low THEN accum_dist(vec[d], bbox[d].low)
                   ELSE IF vec[d] > bbox[d].high THEN accum_dist(vec[d], bbox[d].high) ELSE 0
           dists == [d \in Dims |-> D(d)]
           known == computeInitialDistances(vec, bbox)
<1>1. ASSUME NEW d \in Dims PROVE D(d) \in Int /\ \A k \in A : D(d) <= accum_dist(vec[d], pts[k][d])
  <2>1. bbox[d].low \in Int /\ bbox[d].high \in Int /\ vec[d] \in Int
    BY Coordinate DEF Boxes
  <2> DEFINE lo == bbox[d].low
             hi == bbox[d].high
             x == vec[d]
  <2> HIDE DEF lo, hi, x
  <2>2. D(d) = IF x < lo THEN accum_dist(x, lo) ELSE IF x > hi THEN accum_dist(x, hi) ELSE 0
    BY DEF lo, hi, x
  <2>3. lo \in Int /\ hi \in Int /\ x \in Int
    BY <2>1 DEF lo, hi, x
  <2> HIDE DEF D
  <2>4. \A y \in Int : accum_dist(x, y) \in Int
    <3> SUFFICES ASSUME NEW y \in Int PROVE accum_dist(x, y) \in Int
      OBVIOUS
    <3>1. x - y \in Int
      BY <2>3
    <3> QED
      BY <3>1 DEF accum_dist
  <2>5. D(d) \in Int
    BY <2>2, <2>3, <2>4
  <2>6. ASSUME NEW k \in A PROVE D(d) <= accum_dist(x, pts[k][d])
    <3> DEFINE p == pts[k][d]
    <3>1. p \in Int /\ lo <= p /\ p <= hi
      BY Coordinate DEF lo, hi
    <3> HIDE DEF p
    <3>2. CASE x < lo
      <4>1. (x <= lo /\ lo <= p) \/ (x >= lo /\ lo >= p)
        BY <2>3, <3>1, <3>2
      <4>2. accum_dist(x, lo) <= accum_dist(x, p)
        BY <2>3, <3>1, <4>1, Farther
      <4> QED
        BY <2>2, <3>2, <4>2 DEF p
    <3>3. CASE ~ x < lo /\ x > hi
      <4>1. (x <= hi /\ hi <= p) \/ (x >= hi /\ hi >= p)
        BY <2>3, <3>1, <3>3
      <4>2. accum_dist(x, hi) <= accum_dist(x, p)
        BY <2>3, <3>1, <4>1, Farther
      <4> QED
        BY <2>2, <3>3, <4>2 DEF p
    <3>4. CASE ~ x < lo /\ ~ x > hi
      <4>1. (x <= x /\ x <= p) \/ (x >= x /\ x >= p)
        BY <2>3, <3>1
      <4>2. accum_dist(x, p) >= 0
        BY <2>3, <3>1, <4>1, Farther
      <4>3. D(d) = 0 /\ accum_dist(x, p) \in Int
        BY <2>2, <2>4, <3>1, <3>4
      <4> QED
        BY <4>2, <4>3 DEF p
    <3> QED
      BY <3>2, <3>3, <3>4
  <2> QED
    BY <2>5, <2>6 DEF x
<1>2. known = [mindistsq |-> dists[1] + dists[2] + dists[3], dists |-> dists]
  BY DEF computeInitialDistances
<1> HIDE DEF D
<1>3. dists \in [Dims -> Int]
  BY <1>1
<1>4. 1 \in Dims /\ 2 \in Dims /\ 3 \in Dims
  BY DEF Dims
<1>5. dists[1] + dists[2] + dists[3] \in Int
  BY <1>3, <1>4
<1>6. known \in Distances /\ known.mindistsq = known.dists[1] + known.dists[2] + known.dists[3]
  <2> HIDE DEF dists
  <2> QED
    BY <1>2, <1>3, <1>5 DEF Distances
<1>7. ASSUME NEW k \in A, NEW d \in Dims PROVE known.dists[d] <= accum_dist(vec[d], pts[k][d])
  <2>1. known.dists[d] = D(d)
    BY <1>2
  <2> QED
    BY <1>1, <2>1
<1> QED
  BY <1>6, <1>7 DEF Below

\* A tree holds points: it is empty, or built over them, as they still are.
Holds(tree, pts, A) ==
  IF A = {} THEN tree = EmptyTree
  ELSE \E pts0, v :
         /\ pts0 \in Seq(Position) /\ Len(pts0) <= MaxBackend
         /\ A \in SUBSET DOMAIN pts0 /\ Enumerates(v, A)
         /\ tree = buildIndex(pts0, v)
         /\ \A k \in A : k \in DOMAIN pts /\ pts[k] = pts0[k]

\* A tree lists what it holds.
LEMMA HeldListed ==
  ASSUME NEW tree, NEW pts, NEW A, Holds(tree, pts, A)
  PROVE  Enumerates(tree.vind, A)
<1>1. CASE A = {}
  BY <1>1, NothingEnumerated DEF Holds, EmptyTree
<1>2. CASE A # {}
  BY <1>2 DEF Holds, buildIndex
<1> QED
  BY <1>1, <1>2

\* No node is what an empty tree has for a root.
LEMMA NodeNotNull == ASSUME NEW node \in Nodes[MaxBackend] PROVE node # NULL
<1>1. MaxBackend \in Nat
  BY NodesByLevel
<1>2. CASE IsLeaf(node)
  BY <1>2 DEF IsLeaf, NULL
<1>3. CASE ~ IsLeaf(node)
  <2>1. node \in InnerNodes(Nodes[MaxBackend - 1])
    BY <1>1, <1>3, ChildrenBelow
  <2>2. "divfeat" \in DOMAIN node
    BY <2>1 DEF InnerNodes
  <2> QED
    BY <2>2 DEF NULL
<1> QED
  BY <1>2, <1>3

\* A search of a tree finds what is near of what the tree holds, each point once.
LEMMA TreeFound ==
  ASSUME NEW pts \in Seq(Position), NEW vec \in Position, NEW tree, NEW A, Holds(tree, pts, A)
  PROVE  Enumerates(SearchTree(tree, pts, vec), A \cap Neighbors(pts, vec))
<1>1. CASE A = {}
  <2>1. tree.root_node = NULL
    BY <1>1 DEF Holds, EmptyTree
  <2> QED
    BY <1>1, <2>1, NothingEnumerated DEF SearchTree
<1>2. CASE A # {}
  <2>1. PICK pts0, v :
          /\ pts0 \in Seq(Position) /\ Len(pts0) <= MaxBackend
          /\ A \in SUBSET DOMAIN pts0 /\ Enumerates(v, A)
          /\ tree = buildIndex(pts0, v)
          /\ \A k \in A : k \in DOMAIN pts /\ pts[k] = pts0[k]
    BY <1>2 DEF Holds
  <2>2. v \in Lists(pts0) /\ Range(v) = A
    BY <2>1, EnumeratesList
  <2>3. Len(v) >= 1 /\ Len(v) \in Nat /\ Len(v) <= MaxBackend
    <3>1. Len(v) >= 1 /\ Len(v) \in Nat
      BY <1>2, <2>1, <2>2, ListEmpty
    <3>2. Len(v) <= Len(pts0) /\ Len(pts0) \in Nat /\ MaxBackend \in Nat
      BY <2>1, <2>2, ListLength, NodesByLevel
    <3> QED
      BY <2>1, <3>1, <3>2
  <2> DEFINE box == computeBoundingBox(pts0, v)
             built == divideTree(pts0, v, box)
  <2>4. box \in Boxes
    BY <1>2, <2>1, BoundsTight DEF Tight
  <2>5. PICK f : Divide(f, pts0) /\ \A w, b : divideTree(pts0, w, b) = f[w][b]
    BY <2>1, Divides DEF Divide
  <2>6. built = f[v][box]
    BY <2>5
  <2>7. built.node \in Nodes[Len(v)] /\ Tight(built.bbox, pts0, A)
    <3> HIDE DEF built, box
    <3> QED
      BY <2>1, <2>2, <2>3, <2>4, <2>5, <2>6, DividesTight
  <2>8. tree.root_node = built.node /\ tree.root_bbox = built.bbox
    BY <2>1 DEF buildIndex
  <2> HIDE DEF built, box
  <2>9. built.node # NULL
    <3>1. Len(v) \in 0 .. MaxBackend /\ MaxBackend \in 0 .. MaxBackend
      BY <2>3, NodesByLevel
    <3> QED
      BY <2>3, <2>7, <3>1, NodesByLevel, NodeNotNull
  <2>10. PICK s : SearchTo(s, pts, vec, MaxBackend)
                  /\ \A node, known : searchLevel(pts, vec, node, known) = s[node][known]
    BY Searches
  <2> DEFINE known == computeInitialDistances(vec, built.bbox)
  <2>11. SearchTree(tree, pts, vec) = s[f[v][box].node][known]
    BY <2>6, <2>8, <2>9, <2>10 DEF SearchTree
  <2>12. Below(known, vec, pts, A)
    <3>1. \A k \in A : pts[k] \in Position /\ pts[k] = pts0[k]
      BY <2>1
    <3>2. built.bbox \in Boxes
          /\ \A k \in A : \A d \in Dims : built.bbox[d].low <= pts[k][d] /\ pts[k][d] <= built.bbox[d].high
      BY <2>7, <3>1 DEF Tight
    <3> QED
      BY <3>1, <3>2, InitialBelow
  <2> HIDE DEF known
  <2>13. Enumerates(s[f[v][box].node][known], A \cap Neighbors(pts, vec))
    <3>1. \A k \in Range(v) : k \in DOMAIN pts /\ pts[k] = pts0[k]
      BY <2>1, <2>2
    <3> QED
      BY <2>1, <2>2, <2>3, <2>4, <2>5, <2>10, <2>12, <3>1, SearchesOver
  <2> QED
    BY <2>11, <2>13
<1> QED
  BY <1>1, <1>2

-----------------------------------------------------------------------------
(* The forest: counting in binary                                          *)
\* Capacity by its function, up to the n-th tree.
CapacityTo(f, n) == f = [i \in 0 .. n |-> IF i = 0 THEN 1 ELSE 2 * f[i - 1]]

\* Such a function exists for every number of trees.
LEMMA CapacityExists == ASSUME NEW n \in Nat PROVE \E f : CapacityTo(f, n)
<1> DEFINE T == {m \in Nat : \E f : CapacityTo(f, m)}
<1>1. 0 \in T
  <2>1. CapacityTo([i \in 0 .. 0 |-> 1], 0)
    BY DEF CapacityTo
  <2> QED
    BY <2>1
<1>2. ASSUME NEW m \in Nat, m \in T PROVE m + 1 \in T
  <2>1. PICK f : CapacityTo(f, m)
    BY <1>2
  <2> DEFINE g == [i \in 0 .. m + 1 |-> IF i = m + 1 THEN 2 * f[m] ELSE f[i]]
  <2>2. f = [i \in 0 .. m |-> IF i = 0 THEN 1 ELSE 2 * f[i - 1]]
    BY <2>1 DEF CapacityTo
  <2>3. ASSUME NEW i \in 0 .. m + 1 PROVE g[i] = IF i = 0 THEN 1 ELSE 2 * g[i - 1]
    <3>1. CASE i = 0
      BY <2>2, <3>1
    <3>2. CASE i = m + 1
      <4>1. i # 0 /\ i - 1 = m /\ m \in 0 .. m + 1 /\ m # m + 1
        BY <3>2
      <4>2. g[i - 1] = f[m]
        BY <4>1
      <4> QED
        BY <3>2, <4>1, <4>2
    <3>3. CASE i \in 1 .. m
      <4>1. i # m + 1 /\ i # 0 /\ i - 1 \in 0 .. m /\ i - 1 # m + 1 /\ i \in 0 .. m
        BY <3>3
      <4>2. g[i] = f[i] /\ g[i - 1] = f[i - 1]
        BY <4>1
      <4> QED
        BY <2>2, <4>1, <4>2
    <3> QED
      BY <3>1, <3>2, <3>3
  <2>4. CapacityTo(g, m + 1)
    <3>1. g = [i \in 0 .. m + 1 |-> IF i = 0 THEN 1 ELSE 2 * g[i - 1]]
      <4> DEFINE h == [i \in 0 .. m + 1 |-> IF i = 0 THEN 1 ELSE 2 * g[i - 1]]
      <4>1. \A i \in 0 .. m + 1 : g[i] = h[i]
        <5> HIDE DEF g
        <5> QED
          BY <2>3
      <4> QED
        BY <4>1
    <3> HIDE DEF g
    <3> QED
      BY <3>1 DEF CapacityTo
  <2> QED
    BY <2>4
<1> HIDE DEF T
<1>3. n \in T
  BY <1>1, <1>2, EveryNumber
<1> QED
  BY <1>3 DEF T

\* Each tree may hold twice what the one before it may.
LEMMA CapacityDoubles ==
  /\ treeCount \in Nat \ {0} /\ Capacity[0] = 1
  /\ \A i \in 1 .. treeCount : Capacity[i] = 2 * Capacity[i - 1]
<1>1. treeCount \in Nat \ {0}
  BY LoopSearchAssumption
<1>2. \E f : CapacityTo(f, treeCount)
  BY <1>1, CapacityExists
<1>3. Capacity = CHOOSE f : CapacityTo(f, treeCount)
  BY DEF Capacity, CapacityTo
<1>4. CapacityTo(Capacity, treeCount)
  BY <1>2, <1>3
<1>5. Capacity = [i \in 0 .. treeCount |-> IF i = 0 THEN 1 ELSE 2 * Capacity[i - 1]]
  BY <1>4 DEF CapacityTo
<1> QED
  BY <1>1, <1>5

\* First0Bit by its function, up to n.
FirstTo(f, n) == f = [num \in 0 .. n |-> IF num % 2 = 1 THEN 1 + f[num \div 2] ELSE 0]

\* Such a function exists for every number.
LEMMA FirstExists == ASSUME NEW n \in Nat PROVE \E f : FirstTo(f, n)
<1> DEFINE T == {m \in Nat : \E f : FirstTo(f, m)}
<1>1. 0 \in T
  <2>1. FirstTo([num \in 0 .. 0 |-> 0], 0)
    BY DEF FirstTo
  <2> QED
    BY <2>1
<1>2. ASSUME NEW m \in Nat, m \in T PROVE m + 1 \in T
  <2>1. PICK f : FirstTo(f, m)
    BY <1>2
  <2> DEFINE R(h, num) == IF num % 2 = 1 THEN 1 + h[num \div 2] ELSE 0
             g == [num \in 0 .. m + 1 |-> R(f, num)]
  <2>2. f = [num \in 0 .. m |-> R(f, num)]
    BY <2>1 DEF FirstTo
  <2>3. \A num \in 0 .. m : g[num] = f[num]
    <3> HIDE DEF R
    <3>1. \A num \in 0 .. m : num \in 0 .. m + 1
      OBVIOUS
    <3> QED
      BY <2>2, <3>1
  <2>4. ASSUME NEW num \in 0 .. m + 1 PROVE R(f, num) = R(g, num)
    <3>1. num % 2 = 1 => num \div 2 \in 0 .. m
      OBVIOUS
    <3> HIDE DEF g
    <3> QED
      BY <2>3, <3>1
  <2>5. g = [num \in 0 .. m + 1 |-> R(g, num)]
    <3> DEFINE h == [num \in 0 .. m + 1 |-> R(g, num)]
    <3>1. h = [num \in 0 .. m + 1 |-> R(f, num)]
      <4> HIDE DEF g, R
      <4> QED
        BY <2>4
    <3> QED
      BY <3>1
  <2>6. FirstTo(g, m + 1)
    <3> HIDE DEF g
    <3> QED
      BY <2>5 DEF FirstTo
  <2> QED
    BY <2>6
<1> HIDE DEF T
<1>3. n \in T
  BY <1>1, <1>2, EveryNumber
<1> QED
  BY <1>3 DEF T

\* So First0Bit is what its definition says.
LEMMA FirstBits ==
  ASSUME NEW num \in 0 .. MaxBackend
  PROVE  First0Bit[num] = IF num % 2 = 1 THEN 1 + First0Bit[num \div 2] ELSE 0
<1>1. \E f : FirstTo(f, MaxBackend)
  BY FirstExists, NodesByLevel
<1>2. First0Bit = CHOOSE f : FirstTo(f, MaxBackend)
  BY DEF First0Bit, FirstTo
<1>3. FirstTo(First0Bit, MaxBackend)
  BY <1>1, <1>2
<1> QED
  BY <1>3 DEF FirstTo

\* What remains of a number after halving it so many times: what is odd are its bits.
Halvings(q, n) ==
  /\ q \in [0 .. treeCount -> Nat] /\ q[0] = n
  /\ \A i \in 1 .. treeCount : q[i] = q[i - 1] \div 2

\* The first bit that is not set belongs to a tree, and to count one more is to
\* set it and to clear those before it.
LEMMA FirstZero ==
  ASSUME NEW n \in Nat, n + 1 <= MaxBackend, NEW q, Halvings(q, n)
  PROVE  LET pos == First0Bit[n]
         IN  /\ pos \in Trees /\ q[pos] % 2 = 0
             /\ Halvings([i \in 0 .. treeCount |-> IF i <= pos THEN q[i] + 1 ELSE q[i]], n + 1)
<1>1. treeCount \in Nat /\ treeCount >= 1 /\ MaxBackend \in Nat /\ MaxBackend < Capacity[treeCount]
  BY CapacityDoubles, NodesByLevel, LoopSearchAssumption
<1>2. /\ q \in [0 .. treeCount -> Nat] /\ q[0] = n
      /\ \A i \in 1 .. treeCount : q[i] = q[i - 1] \div 2
  BY DEF Halvings
<1>3. \A i \in Nat : i < treeCount => i \in 0 .. treeCount /\ i + 1 \in 1 .. treeCount /\ q[i] \in Nat
                                      /\ q[i + 1] \in Nat /\ q[i + 1] = q[i] \div 2
  <2> SUFFICES ASSUME NEW i \in Nat, i < treeCount
               PROVE  i \in 0 .. treeCount /\ i + 1 \in 1 .. treeCount /\ q[i] \in Nat
                      /\ q[i + 1] \in Nat /\ q[i + 1] = q[i] \div 2
    OBVIOUS
  <2>1. i \in 0 .. treeCount /\ i + 1 \in 0 .. treeCount /\ i + 1 \in 1 .. treeCount /\ (i + 1) - 1 = i
    BY <1>1
  <2> QED
    BY <1>2, <2>1
<1>4. \E i \in Nat : i < treeCount /\ q[i] % 2 = 0
  <2> SUFFICES ASSUME \A i \in Nat : i < treeCount => q[i] % 2 # 0 PROVE FALSE
    OBVIOUS
  <2> DEFINE T == {k \in Nat : k <= treeCount => Capacity[k] \in Nat /\ q[treeCount - k] + 1 >= Capacity[k]}
  <2>1. 0 \in T
    <3>1. q[treeCount] \in Nat /\ treeCount - 0 = treeCount
      BY <1>1, <1>2
    <3>2. Capacity[0] = 1
      BY CapacityDoubles
    <3> QED
      BY <3>1, <3>2
  <2>2. ASSUME NEW k \in Nat, k \in T PROVE k + 1 \in T
    <3> SUFFICES ASSUME k + 1 <= treeCount
                 PROVE  Capacity[k + 1] \in Nat /\ q[treeCount - (k + 1)] + 1 >= Capacity[k + 1]
      OBVIOUS
    <3> DEFINE i == treeCount - (k + 1)
    <3>1. i \in Nat /\ i < treeCount /\ treeCount - k = i + 1 /\ k <= treeCount
          /\ k + 1 \in 1 .. treeCount /\ (k + 1) - 1 = k
      BY <1>1
    <3>2. Capacity[k + 1] = 2 * Capacity[k]
      BY <3>1, CapacityDoubles
    <3> HIDE DEF i
    <3>3. Capacity[k] \in Nat /\ q[i + 1] + 1 >= Capacity[k]
      BY <2>2, <3>1
    <3>4. q[i] \in Nat /\ q[i + 1] \in Nat /\ q[i + 1] = q[i] \div 2 /\ q[i] % 2 # 0
      BY <1>3, <3>1
    <3>5. q[i] + 1 = 2 * (q[i + 1] + 1)
      BY <3>4
    <3> QED
      BY <3>2, <3>3, <3>4, <3>5 DEF i
  <2>3. treeCount \in T
    <3> HIDE DEF T
    <3> QED
      BY <1>1, <2>1, <2>2, EveryNumber
  <2>4. Capacity[treeCount] \in Nat /\ q[0] + 1 >= Capacity[treeCount]
    <3>1. treeCount <= treeCount /\ treeCount - treeCount = 0
      BY <1>1
    <3> QED
      BY <2>3, <3>1
  <2> QED
    BY <1>1, <1>2, <2>4
<1>5. PICK pos \in Nat : pos < treeCount /\ q[pos] % 2 = 0
                         /\ \A i \in Nat : i < pos => q[i] % 2 # 0
  <2> DEFINE P(j) == j < treeCount /\ q[j] % 2 = 0
  <2> SUFFICES ASSUME \A j \in Nat : ~ (P(j) /\ \A i \in Nat : i < j => q[i] % 2 # 0) PROVE FALSE
    OBVIOUS
  <2>1. \A j \in Nat : P(j) => \E i \in Nat : i < j /\ P(i)
    BY <1>1
  <2> HIDE DEF P
  <2>2. 0 \in {m \in Nat : \A i \in Nat : i <= m => ~ P(i)}
    BY <2>1
  <2>3. ASSUME NEW m \in Nat, m \in {h \in Nat : \A i \in Nat : i <= h => ~ P(i)}
        PROVE  m + 1 \in {h \in Nat : \A i \in Nat : i <= h => ~ P(i)}
    <3> SUFFICES ASSUME NEW i \in Nat, i <= m + 1, P(i) PROVE FALSE
      OBVIOUS
    <3>1. PICK j \in Nat : j < i /\ P(j)
      BY <2>1
    <3> QED
      BY <2>3, <3>1
  <2>4. Nat \subseteq {m \in Nat : \A i \in Nat : i <= m => ~ P(i)}
    BY <2>2, <2>3, EveryNumber
  <2>5. \A i \in Nat : ~ P(i)
    BY <2>4
  <2> QED
    BY <1>4, <2>5 DEF P
<1>6. \A i \in 0 .. treeCount : q[i] \in 0 .. MaxBackend
  <2> DEFINE T == {i \in Nat : i <= treeCount => q[i] \in 0 .. MaxBackend}
  <2>1. 0 \in T
    BY <1>1, <1>2
  <2>2. ASSUME NEW i \in Nat, i \in T PROVE i + 1 \in T
    <3> SUFFICES ASSUME i + 1 <= treeCount PROVE q[i + 1] \in 0 .. MaxBackend
      OBVIOUS
    <3>1. i < treeCount /\ i <= treeCount
      BY <1>1
    <3>2. q[i + 1] \in Nat /\ q[i + 1] = q[i] \div 2 /\ q[i] \in 0 .. MaxBackend
      BY <1>3, <2>2, <3>1
    <3> QED
      BY <1>1, <3>2
  <2>3. Nat \subseteq T
    <3> HIDE DEF T
    <3> QED
      BY <2>1, <2>2, EveryNumber
  <2> QED
    BY <1>1, <2>3
<1>7. First0Bit[n] = pos
  <2> DEFINE T == {k \in Nat : k <= pos => First0Bit[q[pos - k]] = k}
  <2>1. 0 \in T
    <3>1. pos - 0 = pos /\ pos \in 0 .. treeCount
      BY <1>1, <1>5
    <3>2. First0Bit[q[pos]] = 0
      BY <1>5, <1>6, <3>1, FirstBits
    <3> QED
      BY <3>1, <3>2
  <2>2. ASSUME NEW k \in Nat, k \in T PROVE k + 1 \in T
    <3> SUFFICES ASSUME k + 1 <= pos PROVE First0Bit[q[pos - (k + 1)]] = k + 1
      OBVIOUS
    <3> DEFINE i == pos - (k + 1)
    <3>1. i \in Nat /\ i < pos /\ i < treeCount /\ pos - k = i + 1 /\ k <= pos /\ i \in 0 .. treeCount
      BY <1>1, <1>5
    <3> HIDE DEF i
    <3>2. First0Bit[q[i + 1]] = k
      BY <2>2, <3>1
    <3>3. q[i] \in Nat /\ q[i] \in 0 .. MaxBackend /\ q[i] % 2 = 1 /\ q[i] \div 2 = q[i + 1]
      BY <1>3, <1>5, <1>6, <3>1
    <3>4. First0Bit[q[i]] = 1 + First0Bit[q[i] \div 2]
      BY <3>3, FirstBits
    <3>5. First0Bit[q[i]] = 1 + k
      BY <3>2, <3>3, <3>4
    <3> QED
      BY <3>5 DEF i
  <2>3. pos \in T
    <3> HIDE DEF T
    <3> QED
      BY <2>1, <2>2, EveryNumber
  <2>4. pos <= pos /\ pos - pos = 0
    OBVIOUS
  <2>5. First0Bit[q[0]] = pos
    BY <2>3, <2>4
  <2> QED
    BY <1>2, <2>5
<1> DEFINE next == [i \in 0 .. treeCount |-> IF i <= pos THEN q[i] + 1 ELSE q[i]]
<1>8. Halvings(next, n + 1)
  <2>1. next \in [0 .. treeCount -> Nat]
    BY <1>2
  <2>2. next[0] = n + 1
    BY <1>1, <1>2, <1>5
  <2>3. ASSUME NEW i \in 1 .. treeCount PROVE next[i] = next[i - 1] \div 2
    <3>1. i \in 0 .. treeCount /\ i - 1 \in 0 .. treeCount /\ i - 1 \in Nat
      BY <1>1
    <3>2. q[i] = q[i - 1] \div 2 /\ q[i] \in Nat /\ q[i - 1] \in Nat
      BY <1>2, <3>1
    <3>3. /\ next[i] = IF i <= pos THEN q[i] + 1 ELSE q[i]
          /\ next[i - 1] = IF i - 1 <= pos THEN q[i - 1] + 1 ELSE q[i - 1]
      BY <3>1
    <3> HIDE DEF next
    <3>4. CASE i <= pos
      <4>1. i - 1 < pos /\ i - 1 <= pos
        BY <3>1, <3>4
      <4>2. q[i - 1] % 2 = 1
        BY <1>5, <3>1, <3>2, <4>1
      <4>3. (q[i - 1] + 1) \div 2 = q[i - 1] \div 2 + 1
        BY <3>2, <4>2
      <4> QED
        BY <3>2, <3>3, <3>4, <4>1, <4>3
    <3>5. CASE i = pos + 1
      <4>1. i - 1 = pos /\ i - 1 <= pos /\ ~ i <= pos
        BY <3>5
      <4>2. q[i - 1] % 2 = 0
        BY <1>5, <4>1
      <4>3. (q[i - 1] + 1) \div 2 = q[i - 1] \div 2
        BY <3>2, <4>2
      <4> QED
        BY <3>2, <3>3, <4>1, <4>3
    <3>6. CASE i > pos + 1
      <4>1. ~ i - 1 <= pos /\ ~ i <= pos
        BY <3>1, <3>6
      <4> QED
        BY <3>2, <3>3, <4>1
    <3> QED
      BY <3>1, <3>4, <3>5, <3>6
  <2> HIDE DEF next
  <2> QED
    BY <2>1, <2>2, <2>3 DEF Halvings
<1>9. pos \in Trees
  BY <1>1, <1>5 DEF Trees
<1> QED
  BY <1>5, <1>7, <1>8, <1>9

-----------------------------------------------------------------------------
(* The forest: adding points                                               *)
\* A list with one more member.
LEMMA OneMore ==
  ASSUME NEW s, NEW A, Enumerates(s, A), NEW x, x \notin A
  PROVE  Enumerates(Append(s, x), A \cup {x})
<1>1. s \in Seq(A) /\ Len(s) \in Nat
  BY DEF Enumerates
<1> DEFINE t == Append(s, x)
           n == Len(s)
<1>2. /\ s \in Seq(A \cup {x}) /\ x \in A \cup {x}
      /\ \A i \in 1 .. n : s[i] \in A
  BY <1>1
<1>3. /\ t \in Seq(A \cup {x}) /\ Len(t) = n + 1
      /\ \A i \in 1 .. n + 1 : t[i] = IF i = n + 1 THEN x ELSE s[i]
  BY <1>1, <1>2
<1> HIDE DEF t
<1>4. \A i, j \in 1 .. n : s[i] = s[j] => i = j
  BY DEF Enumerates
<1>5. \A i, j \in 1 .. n + 1 : t[i] = t[j] => i = j
  <2> SUFFICES ASSUME NEW i \in 1 .. n + 1, NEW j \in 1 .. n + 1, t[i] = t[j] PROVE i = j
    OBVIOUS
  <2>1. i \in 1 .. n \/ i = n + 1
    BY <1>1
  <2>2. j \in 1 .. n \/ j = n + 1
    BY <1>1
  <2>3. n + 1 \notin 1 .. n
    BY <1>1
  <2> QED
    BY <1>2, <1>3, <1>4, <2>1, <2>2, <2>3
<1>6. \A y \in A \cup {x} : \E i \in 1 .. n + 1 : t[i] = y
  <2> SUFFICES ASSUME NEW y \in A \cup {x} PROVE \E i \in 1 .. n + 1 : t[i] = y
    OBVIOUS
  <2>1. n + 1 \in 1 .. n + 1 /\ 1 .. n \subseteq 1 .. n + 1 /\ n + 1 \notin 1 .. n
    BY <1>1
  <2>2. CASE y = x
    BY <1>3, <2>1, <2>2
  <2>3. CASE y \in A
    <3>1. PICK i \in 1 .. n : s[i] = y
      BY <2>3 DEF Enumerates
    <3> QED
      BY <1>3, <2>1, <3>1
  <2> QED
    BY <2>2, <2>3
<1> QED
  BY <1>3, <1>5, <1>6 DEF Enumerates, t

\* The trees hold the points 1 .. n, each in one tree, and what is not set in n
\* is an empty tree.
Forest(forest, pts, n) ==
  \E q, A : /\ Halvings(q, n) /\ A \in [Trees -> SUBSET (1 .. n)]
            /\ \A k \in 1 .. n : \E i \in Trees : k \in A[i]
            /\ \A i, j \in Trees : i # j => A[i] \cap A[j] = {}
            /\ \A i \in Trees : Holds(forest[i], pts, A[i]) /\ (q[i] % 2 = 0 => A[i] = {})

\* addPoint keeps it so: the trees before the first that the count has no bit for are
\* emptied into that one, with the new point.
LEMMA PointAdded ==
  ASSUME NEW pts \in Seq(Position), Len(pts) <= MaxBackend, NEW n \in Nat, n + 1 <= Len(pts),
         NEW forest, Forest(forest, pts, n)
  PROVE  Forest(addPoint(forest, pts, n + 1), pts, n + 1)
<1>1. PICK q, A : /\ Halvings(q, n) /\ A \in [Trees -> SUBSET (1 .. n)]
                  /\ \A k \in 1 .. n : \E i \in Trees : k \in A[i]
                  /\ \A i, j \in Trees : i # j => A[i] \cap A[j] = {}
                  /\ \A i \in Trees : Holds(forest[i], pts, A[i]) /\ (q[i] % 2 = 0 => A[i] = {})
  BY DEF Forest
<1>2. MaxBackend \in Nat /\ Len(pts) \in Nat /\ DOMAIN pts = 1 .. Len(pts) /\ treeCount \in Nat
  BY NodesByLevel, CapacityDoubles
<1> DEFINE pos == First0Bit[n]
           r == [i \in 0 .. treeCount |-> IF i <= pos THEN q[i] + 1 ELSE q[i]]
<1>3. pos \in Trees /\ q[pos] % 2 = 0 /\ Halvings(r, n + 1)
  <2>1. n + 1 <= MaxBackend
    BY <1>2
  <2> QED
    BY <1>1, <2>1, FirstZero
<1> HIDE DEF pos
<1>4. /\ pos \in Nat /\ (n + 1) - 1 = n /\ A[pos] = {}
      /\ \A i \in 1 .. pos : i - 1 \in Trees /\ i - 1 < pos
      /\ \A i \in Trees : i < pos => i + 1 \in 1 .. pos /\ (i + 1) - 1 = i
  BY <1>1, <1>2, <1>3 DEF Trees
<1> DEFINE seqs == [i \in 1 .. pos |-> forest[i - 1].vind]
           U == UNION {A[i - 1] : i \in 1 .. pos}
           joined == FlattenSeq(seqs)
           x == n + 1
           more == addPoint(forest, pts, x)
<1>5. Enumerates(joined, U) /\ U \in SUBSET (1 .. n)
  <2> DEFINE B == [i \in 1 .. pos |-> A[i - 1]]
  <2>1. \A i \in 1 .. pos : Enumerates(seqs[i], B[i]) /\ B[i] \in SUBSET (1 .. n)
    <3> SUFFICES ASSUME NEW i \in 1 .. pos PROVE Enumerates(seqs[i], B[i]) /\ B[i] \in SUBSET (1 .. n)
      OBVIOUS
    <3>1. Holds(forest[i - 1], pts, A[i - 1]) /\ A[i - 1] \in SUBSET (1 .. n)
      BY <1>1, <1>4
    <3> QED
      BY <3>1, HeldListed
  <2>2. \A i, j \in 1 .. pos : i # j => B[i] \cap B[j] = {}
    <3> SUFFICES ASSUME NEW i \in 1 .. pos, NEW j \in 1 .. pos, i # j PROVE B[i] \cap B[j] = {}
      OBVIOUS
    <3>1. i - 1 \in Trees /\ j - 1 \in Trees /\ i - 1 # j - 1
      BY <1>4
    <3> QED
      BY <1>1, <3>1
  <2>3. \A k : k \in U <=> \E i \in 1 .. pos : k \in B[i]
    OBVIOUS
  <2> HIDE DEF B
  <2>4. seqs \in [1 .. pos -> Seq(Nat)]
    <3>1. \A i \in 1 .. pos : seqs[i] \in Seq(Nat)
      <4> SUFFICES ASSUME NEW i \in 1 .. pos PROVE seqs[i] \in Seq(Nat)
        OBVIOUS
      <4>1. seqs[i] \in Seq(B[i])
        <5> HIDE DEF seqs
        <5> QED
          BY <2>1 DEF Enumerates
      <4>2. B[i] \subseteq Nat
        BY <2>1
      <4> HIDE DEF seqs
      <4> QED
        BY <4>1, <4>2
    <3> QED
      BY <3>1
  <2> HIDE DEF seqs, U
  <2>5. Enumerates(FlattenSeq(seqs), U)
    <3>1. pos \in Nat /\ \A i \in 1 .. pos : Enumerates(seqs[i], B[i])
      BY <1>4, <2>1
    <3> QED
      BY <2>2, <2>3, <2>4, <3>1, FlattenEnumerated
  <2> QED
    BY <2>1, <2>3, <2>5 DEF joined
<1>6. more = [i \in Trees |-> CASE i < pos -> EmptyTree
                                [] i = pos -> buildIndex(pts, Append(joined, x))
                                [] i > pos -> forest[i]]
  <2>1. First0Bit[x - 1] = pos
    BY <1>4 DEF pos
  <2> QED
    BY <2>1 DEF addPoint
<1> HIDE DEF joined, seqs
<1>7. Enumerates(Append(joined, x), U \cup {x})
  <2>1. x \notin U
    <3>1. x \notin 1 .. n
      OBVIOUS
    <3> HIDE DEF U, x
    <3> QED
      BY <1>5, <3>1
  <2> HIDE DEF U, x
  <2> QED
    BY <1>5, <2>1, OneMore
<1> DEFINE AA == [i \in Trees |-> CASE i < pos -> {} [] i = pos -> U \cup {x} [] i > pos -> A[i]]
<1>8. /\ \A i \in Trees : i \in Nat
      /\ \A i \in Trees : i < pos => AA[i] = {} /\ more[i] = EmptyTree
      /\ AA[pos] = U \cup {x} /\ more[pos] = buildIndex(pts, Append(joined, x))
      /\ \A i \in Trees : i > pos => AA[i] = A[i] /\ more[i] = forest[i]
  <2>1. \A i \in Trees : i \in Nat
    BY DEF Trees
  <2> HIDE DEF U, x, more
  <2> QED
    BY <1>3, <1>4, <1>6, <2>1
<1>9. \A i \in Trees : i < pos \/ i = pos \/ i > pos
  BY <1>4, <1>8
<1>10. AA \in [Trees -> SUBSET (1 .. n + 1)]
  <2>1. \A i \in Trees : AA[i] \in SUBSET (1 .. n + 1)
    <3> SUFFICES ASSUME NEW i \in Trees PROVE AA[i] \in SUBSET (1 .. n + 1)
      OBVIOUS
    <3>1. 1 .. n \subseteq 1 .. n + 1 /\ x \in 1 .. n + 1 /\ A[i] \in SUBSET (1 .. n)
      BY <1>1
    <3> HIDE DEF AA, U
    <3>2. CASE i < pos
      BY <1>8, <3>2
    <3>3. CASE i = pos
      BY <1>5, <1>8, <3>1, <3>3
    <3>4. CASE i > pos
      BY <1>8, <3>1, <3>4
    <3> QED
      BY <1>9, <3>2, <3>3, <3>4
  <2> QED
    BY <2>1
<1> HIDE DEF AA, more
<1>11. \A k \in 1 .. n + 1 : \E i \in Trees : k \in AA[i]
  <2> SUFFICES ASSUME NEW k \in 1 .. n + 1 PROVE \E i \in Trees : k \in AA[i]
    OBVIOUS
  <2>1. CASE k = n + 1
    BY <1>3, <1>8, <2>1
  <2>2. CASE k \in 1 .. n
    <3>1. PICK i \in Trees : k \in A[i]
      BY <1>1, <2>2
    <3>2. CASE i < pos
      <4>1. k \in U
        BY <1>4, <3>1, <3>2
      <4> QED
        BY <1>3, <1>8, <4>1
    <3>3. CASE i > pos
      BY <1>8, <3>1, <3>3
    <3> QED
      BY <1>4, <1>9, <3>1, <3>2, <3>3
  <2> QED
    BY <2>1, <2>2
<1>12. \A i \in Trees : i > pos => (U \cup {x}) \cap A[i] = {}
  <2> SUFFICES ASSUME NEW i \in Trees, i > pos, NEW k \in U \cup {x}, k \in A[i] PROVE FALSE
    OBVIOUS
  <2>1. A[i] \in SUBSET (1 .. n)
    BY <1>1
  <2>2. k # x
    BY <2>1
  <2>3. PICK j \in 1 .. pos : k \in A[j - 1]
    BY <2>2
  <2>4. j - 1 \in Trees /\ j - 1 < pos /\ i \in Nat /\ j - 1 # i
    BY <1>4, <1>8
  <2> QED
    BY <1>1, <2>3, <2>4
<1> HIDE DEF U, x
<1>13. \A i, j \in Trees : i # j => AA[i] \cap AA[j] = {}
  <2> SUFFICES ASSUME NEW i \in Trees, NEW j \in Trees, i # j PROVE AA[i] \cap AA[j] = {}
    OBVIOUS
  <2>1. CASE i < pos \/ j < pos
    BY <1>8, <2>1
  <2>2. CASE i = pos /\ j > pos
    BY <1>8, <1>12, <2>2
  <2>3. CASE j = pos /\ i > pos
    BY <1>8, <1>12, <2>3
  <2>4. CASE i > pos /\ j > pos
    BY <1>1, <1>8, <2>4
  <2> QED
    BY <1>9, <2>1, <2>2, <2>3, <2>4
<1>14. ASSUME NEW i \in Trees PROVE Holds(more[i], pts, AA[i]) /\ (r[i] % 2 = 0 => AA[i] = {})
  <2>1. i \in 0 .. treeCount /\ q[i] \in Nat /\ i \in Nat
    BY <1>1, <1>2, <1>8 DEF Trees, Halvings
  <2>2. r[i] = IF i <= pos THEN q[i] + 1 ELSE q[i]
    BY <2>1
  <2>3. CASE i < pos
    BY <1>8, <2>3 DEF Holds
  <2>4. CASE i = pos
    <3>1. r[i] % 2 # 0
      BY <1>3, <1>4, <2>1, <2>2, <2>4
    <3>2. U \cup {x} # {} /\ U \cup {x} \in SUBSET (DOMAIN pts)
      BY <1>2, <1>5 DEF x
    <3>3. Holds(more[pos], pts, U \cup {x})
      BY <1>7, <1>8, <3>2 DEF Holds
    <3> QED
      BY <1>8, <2>4, <3>1, <3>3
  <2>5. CASE i > pos
    <3>1. r[i] = q[i]
      BY <1>4, <2>1, <2>2, <2>5
    <3> QED
      BY <1>1, <1>8, <2>5, <3>1
  <2> QED
    BY <1>9, <2>3, <2>4, <2>5
<1> HIDE DEF r
<1>15. Forest(more, pts, n + 1)
  BY <1>3, <1>10, <1>11, <1>13, <1>14 DEF Forest
<1> QED
  BY <1>15 DEF more, x

\* addPoints by its function, up to the m-th point.
AddedTo(f, forest, pts, start, m) ==
  f = [n \in start - 1 .. m |-> IF n = start - 1 THEN forest ELSE addPoint(f[n - 1], pts, n)]

\* Such a function exists for every number of points.
LEMMA AddedExist ==
  ASSUME NEW forest, NEW pts, NEW start \in Nat \ {0}, NEW k \in Nat
  PROVE  \E f : AddedTo(f, forest, pts, start, start - 1 + k)
<1> DEFINE T == {m \in Nat : \E f : AddedTo(f, forest, pts, start, start - 1 + m)}
<1>1. 0 \in T
  <2>1. start - 1 + 0 = start - 1 /\ start - 1 \in Int
    OBVIOUS
  <2> DEFINE f == [n \in start - 1 .. start - 1 |-> forest]
  <2>2. \A n \in start - 1 .. start - 1 : n = start - 1
    BY <2>1
  <2>3. f = [n \in start - 1 .. start - 1 |-> IF n = start - 1 THEN forest ELSE addPoint(f[n - 1], pts, n)]
    <3> DEFINE h == [n \in start - 1 .. start - 1 |-> IF n = start - 1 THEN forest ELSE addPoint(f[n - 1], pts, n)]
    <3>1. \A n \in start - 1 .. start - 1 : f[n] = h[n]
      BY <2>2
    <3> QED
      BY <3>1
  <2> HIDE DEF f
  <2>4. AddedTo(f, forest, pts, start, start - 1 + 0)
    BY <2>1, <2>3 DEF AddedTo
  <2> QED
    BY <2>4
<1>2. ASSUME NEW m \in Nat, m \in T PROVE m + 1 \in T
  <2> DEFINE a == start - 1
             b == start - 1 + m
             c == start - 1 + (m + 1)
  <2>1. PICK f : AddedTo(f, forest, pts, start, b)
    BY <1>2
  <2>2. a \in Nat /\ b \in Nat /\ a <= b /\ c = b + 1
    OBVIOUS
  <2> HIDE DEF b, c
  <2> DEFINE R(h, n) == IF n = a THEN forest ELSE addPoint(h[n - 1], pts, n)
             g == [n \in a .. c |-> R(f, n)]
  <2>3. f = [n \in a .. b |-> R(f, n)]
    BY <2>1 DEF AddedTo
  <2> HIDE DEF a
  <2>4. \A n \in a .. b : g[n] = f[n]
    <3> HIDE DEF R
    <3>1. \A n \in a .. b : n \in a .. c
      BY <2>2
    <3> QED
      BY <2>3, <3>1
  <2>5. ASSUME NEW n \in a .. c PROVE R(f, n) = R(g, n)
    <3>1. n # a => n - 1 \in a .. b
      BY <2>2
    <3> HIDE DEF g
    <3>2. CASE n = a
      BY <3>2
    <3>3. CASE n # a
      <4>1. f[n - 1] = g[n - 1]
        BY <2>4, <3>1, <3>3
      <4> QED
        BY <3>3, <4>1
    <3> QED
      BY <3>2, <3>3
  <2>6. g = [n \in a .. c |-> R(g, n)]
    <3> DEFINE h == [n \in a .. c |-> R(g, n)]
    <3>1. h = [n \in a .. c |-> R(f, n)]
      <4> HIDE DEF g, R
      <4> QED
        BY <2>5
    <3> QED
      BY <3>1
  <2>7. AddedTo(g, forest, pts, start, c)
    <3> HIDE DEF g
    <3> QED
      BY <2>6 DEF AddedTo, a
  <2> QED
    BY <2>7 DEF c
<1> HIDE DEF T
<1>3. k \in T
  BY <1>1, <1>2, EveryNumber
<1> QED
  BY <1>3 DEF T

\* Adding the remaining points one by one.
LEMMA PointsAdded ==
  ASSUME NEW pts \in Seq(Position), Len(pts) <= MaxBackend, NEW start \in Nat \ {0},
         start <= Len(pts) + 1, NEW forest, Forest(forest, pts, start - 1)
  PROVE  Forest(addPoints(forest, pts, start), pts, Len(pts))
<1> DEFINE last == Len(pts)
           f == CHOOSE h : AddedTo(h, forest, pts, start, last)
           k == last - (start - 1)
<1>1. last \in Nat /\ k \in Nat /\ start - 1 + k = last /\ start - 1 \in Nat
  OBVIOUS
<1>2. AddedTo(f, forest, pts, start, last)
  <2> HIDE DEF k
  <2>1. \E h : AddedTo(h, forest, pts, start, start - 1 + k)
    BY <1>1, AddedExist
  <2> QED
    BY <1>1, <2>1
<1>3. addPoints(forest, pts, start) = f[last]
  BY DEF addPoints, AddedTo
<1> HIDE DEF f, last, k
<1>4. f = [n \in start - 1 .. last |-> IF n = start - 1 THEN forest ELSE addPoint(f[n - 1], pts, n)]
  BY <1>2 DEF AddedTo
<1> DEFINE T == {m \in Nat : m <= k => Forest(f[start - 1 + m], pts, start - 1 + m)}
<1>5. 0 \in T
  <2>1. start - 1 + 0 = start - 1 /\ start - 1 \in start - 1 .. last
    BY <1>1
  <2>2. f[start - 1] = forest
    BY <1>4, <2>1
  <2> QED
    BY <2>1, <2>2
<1>6. ASSUME NEW m \in Nat, m \in T PROVE m + 1 \in T
  <2> SUFFICES ASSUME m + 1 <= k
               PROVE  Forest(f[start - 1 + (m + 1)], pts, start - 1 + (m + 1))
    OBVIOUS
  <2> DEFINE n == start - 1 + m
  <2>1. /\ n \in Nat /\ n + 1 <= last /\ m <= k /\ start - 1 + (m + 1) = n + 1
        /\ n + 1 \in start - 1 .. last /\ n + 1 # start - 1 /\ (n + 1) - 1 = n
    BY <1>1
  <2>2. Forest(f[n], pts, n)
    BY <1>6, <2>1
  <2> HIDE DEF n
  <2>3. f[n + 1] = addPoint(f[n], pts, n + 1)
    BY <1>4, <2>1
  <2>4. Forest(addPoint(f[n], pts, n + 1), pts, n + 1)
    BY <2>1, <2>2, PointAdded DEF last
  <2> QED
    BY <2>1, <2>3, <2>4
<1>7. k \in T /\ k <= k
  <2> HIDE DEF T
  <2> QED
    BY <1>1, <1>5, <1>6, EveryNumber
<1>8. Forest(f[last], pts, last)
  BY <1>1, <1>7
<1> QED
  BY <1>3, <1>8 DEF last

\* A forest without points.
LEMMA NoPoints == ASSUME NEW pts PROVE Forest([i \in Trees |-> EmptyTree], pts, 0)
<1> DEFINE q == [i \in 0 .. treeCount |-> 0]
           A == [i \in Trees |-> {}]
<1>1. Halvings(q, 0)
  <2>1. treeCount \in Nat /\ 0 \div 2 = 0
    BY CapacityDoubles
  <2>2. \A i \in 1 .. treeCount : i \in 0 .. treeCount /\ i - 1 \in 0 .. treeCount
    BY <2>1
  <2> QED
    BY <2>1, <2>2 DEF Halvings
<1>2. \A i \in Trees : Holds([j \in Trees |-> EmptyTree][i], pts, A[i])
  BY DEF Holds
<1>3. A \in [Trees -> SUBSET (1 .. 0)] /\ \A i \in Trees : A[i] = {}
  OBVIOUS
<1>4. \A k \in 1 .. 0 : FALSE
  OBVIOUS
<1> HIDE DEF A, q
<1> QED
  BY <1>1, <1>2, <1>3, <1>4 DEF Forest

\* Further points do not disturb the trees.
LEMMA ForestStays ==
  ASSUME NEW pts \in Seq(Position), NEW p \in Position, NEW forest, Forest(forest, pts, Len(pts))
  PROVE  Forest(forest, Append(pts, p), Len(pts))
<1> DEFINE more == Append(pts, p)
<1>1. DOMAIN pts \subseteq DOMAIN more /\ \A k \in DOMAIN pts : more[k] = pts[k]
  OBVIOUS
<1> HIDE DEF more
<1>2. ASSUME NEW tree, NEW A, Holds(tree, pts, A) PROVE Holds(tree, more, A)
  <2>1. CASE A = {}
    BY <1>2, <2>1 DEF Holds
  <2>2. CASE A # {}
    <3>1. PICK pts0, v :
            /\ pts0 \in Seq(Position) /\ Len(pts0) <= MaxBackend
            /\ A \in SUBSET DOMAIN pts0 /\ Enumerates(v, A)
            /\ tree = buildIndex(pts0, v)
            /\ \A k \in A : k \in DOMAIN pts /\ pts[k] = pts0[k]
      BY <1>2, <2>2 DEF Holds
    <3>2. \A k \in A : k \in DOMAIN more /\ more[k] = pts0[k]
      BY <1>1, <3>1
    <3> QED
      BY <2>2, <3>1, <3>2 DEF Holds
  <2> QED
    BY <2>1, <2>2
<1>3. Forest(forest, more, Len(pts))
  BY <1>2 DEF Forest
<1> QED
  BY <1>3 DEF more

-----------------------------------------------------------------------------
(* The index and the poses *)

\* The data set of the index is the poses, each in one tree of the forest, and a
\* tree that the count of the poses has no bit for is empty.
IndexFollows ==
  /\ pose \in Seq(Places) /\ Len(pose) <= MaxBackend
  /\ keyframe_poses = pose
  /\ Forest(index, pose, Len(pose))

\* The places are positions.
LEMMA PlacesArePoints == Seq(Places) \subseteq Seq(Position) /\ Places \subseteq Position
<1>1. Places \subseteq Position
  BY LoopSearchAssumption DEF Position
<1> QED
  BY <1>1

\* The index follows the poses at first,
LEMMA IndexInit == SearchInit => IndexFollows
<1> SUFFICES ASSUME SearchInit PROVE IndexFollows
  OBVIOUS
<1>1. pose = <<>> /\ keyframe_poses = <<>> /\ index = [i \in Trees |-> EmptyTree]
  BY DEF SearchInit
<1>2. pose \in Seq(Places) /\ Len(pose) = 0 /\ MaxBackend \in Nat
  BY <1>1, NodesByLevel
<1>3. Forest(index, pose, 0)
  BY <1>1, NoPoints
<1> QED
  BY <1>1, <1>2, <1>3 DEF IndexFollows

\* A new position is entered behind the others.
LEMMA EntryFollows ==
  ASSUME IndexFollows, Len(pose) < MaxBackend, NEW p \in Places,
         pose' = Append(pose, p), EmplaceBack(p)
  PROVE  IndexFollows'
<1>1. /\ pose \in Seq(Places) /\ keyframe_poses = pose /\ Forest(index, pose, Len(pose))
      /\ MaxBackend \in Nat
  BY NodesByLevel DEF IndexFollows
<1> DEFINE more == Append(pose, p)
           n == Len(pose)
<1>2. /\ more \in Seq(Places) /\ n \in Nat /\ Len(more) = n + 1 /\ n + 1 <= MaxBackend
      /\ pose \in Seq(Position) /\ more \in Seq(Position) /\ p \in Position
  <2>1. more \in Seq(Places) /\ n \in Nat /\ Len(more) = n + 1
    BY <1>1
  <2> QED
    BY <1>1, <2>1, PlacesArePoints
<1>3. keyframe_poses' = more /\ index' = addPoints(index, more, n + 1)
  BY <1>1 DEF EmplaceBack
<1>4. Forest(index, more, n)
  BY <1>1, <1>2, ForestStays
<1> HIDE DEF more, n
<1>5. Forest(addPoints(index, more, n + 1), more, Len(more))
  <2>1. n + 1 \in Nat \ {0} /\ (n + 1) - 1 = n /\ n + 1 <= Len(more) + 1 /\ Len(more) <= MaxBackend
    BY <1>2
  <2> QED
    BY <1>2, <1>4, <2>1, PointsAdded
<1>6. pose' = more /\ Len(more) <= MaxBackend
  BY <1>2 DEF more
<1> QED
  BY <1>2, <1>3, <1>5, <1>6 DEF IndexFollows

\* A rebuilt index is of the poses that it was rebuilt over.
LEMMA RebuildFollows ==
  ASSUME pose' \in Seq(Places), Len(pose') <= MaxBackend, Rebuild
  PROVE  IndexFollows'
<1>1. pose' \in Seq(Position)
  BY PlacesArePoints
<1>2. keyframe_poses' = pose' /\ index' = addPoints([i \in Trees |-> EmptyTree], pose', 1)
  BY DEF Rebuild, NewForest
<1>3. Forest([i \in Trees |-> EmptyTree], pose', 1 - 1)
  BY NoPoints
<1>4. 1 \in Nat \ {0} /\ 1 <= Len(pose') + 1
  BY <1>1
<1>5. Forest(addPoints([i \in Trees |-> EmptyTree], pose', 1), pose', Len(pose'))
  <2> DEFINE forest == [i \in Trees |-> EmptyTree]
  <2> HIDE DEF forest
  <2> QED
    BY <1>1, <1>3, <1>4, PointsAdded DEF forest
<1> QED
  BY <1>2, <1>5 DEF IndexFollows

\* A solve keeps the number of the poses.
LEMMA MovedSeq ==
  ASSUME NEW poses, NEW n \in Nat, DOMAIN poses = 1 .. n, NEW after, NEW shift,
         Range(Moved(poses, after, shift)) \subseteq Places
  PROVE  Moved(poses, after, shift) \in Seq(Places) /\ Len(Moved(poses, after, shift)) = n
<1> DEFINE m == Moved(poses, after, shift)
<1>1. DOMAIN m = 1 .. n /\ m = [k \in 1 .. n |-> m[k]]
  BY DEF Moved
<1> HIDE DEF m
<1>2. \A k \in 1 .. n : m[k] \in Places
  BY <1>1 DEF Range, m
<1>3. m \in [1 .. n -> Places]
  BY <1>1, <1>2
<1>4. m \in Seq(Places) /\ Len(m) = n
  BY <1>3
<1> QED
  BY <1>4 DEF m

\* and every step keeps it so.
LEMMA IndexNext == IndexFollows /\ [SearchNext]_searchVars => IndexFollows'
<1> SUFFICES ASSUME IndexFollows, [SearchNext]_searchVars PROVE IndexFollows'
  OBVIOUS
<1>1. pose \in Seq(Places) /\ Len(pose) \in Nat /\ Len(pose) <= MaxBackend /\ MaxBackend \in Nat
  BY NodesByLevel DEF IndexFollows
<1>2. CASE EnterKeyframe
  BY <1>2, EntryFollows DEF EnterKeyframe
<1>3. CASE StrictLoopStage1
  <2>1. PICK p, shift, h : p \in Places /\ pose' = Moved(Append(pose, p), h, shift)
    BY <1>3 DEF StrictLoopStage1
  <2>2. Range(pose') \subseteq Places /\ Rebuild /\ Len(pose) < MaxBackend
    BY <1>3 DEF StrictLoopStage1
  <2>3. DOMAIN Append(pose, p) = 1 .. Len(pose) + 1 /\ Len(pose) + 1 \in Nat
    BY <1>1
  <2>4. pose' \in Seq(Places) /\ Len(pose') = Len(pose) + 1
    <3> DEFINE poses == Append(pose, p)
               n == Len(pose) + 1
    <3>1. n \in Nat /\ DOMAIN poses = 1 .. n /\ pose' = Moved(poses, h, shift)
      BY <2>1, <2>3
    <3> HIDE DEF poses, n
    <3>2. Range(Moved(poses, h, shift)) \subseteq Places
      BY <2>2, <3>1
    <3>3. Moved(poses, h, shift) \in Seq(Places) /\ Len(Moved(poses, h, shift)) = n
      BY <3>1, <3>2, MovedSeq
    <3> QED
      BY <3>1, <3>3 DEF n
  <2>5. Len(pose') <= MaxBackend
    BY <1>1, <2>2, <2>4
  <2> QED
    BY <2>2, <2>4, <2>5, RebuildFollows
<1>4. CASE ApplyResult
  <2>1. PICK after \in DOMAIN pose, shift \in Shifts : pose' = Moved(pose, after, shift)
    BY <1>4 DEF ApplyResult
  <2>2. Range(pose') \subseteq Places /\ Rebuild
    BY <1>4 DEF ApplyResult
  <2>3. DOMAIN pose = 1 .. Len(pose)
    BY <1>1
  <2>4. pose' \in Seq(Places) /\ Len(pose') = Len(pose)
    BY <1>1, <2>1, <2>2, <2>3, MovedSeq
  <2> QED
    BY <1>1, <2>2, <2>4, RebuildFollows
<1>5. CASE UNCHANGED searchVars
  <2>1. pose' = pose /\ keyframe_poses' = keyframe_poses /\ index' = index
    BY <1>5 DEF searchVars
  <2> QED
    BY <2>1 DEF IndexFollows
<1> QED
  BY <1>2, <1>3, <1>4, <1>5 DEF SearchNext

\* An index that follows the poses finds what is near by them.
LEMMA ForestExact == IndexFollows => SearchExact
<1> SUFFICES ASSUME IndexFollows, NEW vec \in Places
             PROVE  /\ IsInjective(findNeighbors(vec))
                    /\ Range(findNeighbors(vec)) = {k \in DOMAIN pose : evalMetric(vec, pose[k]) < radius}
  BY DEF SearchExact
<1> DEFINE n == Len(pose)
           N == Neighbors(pose, vec)
           seqs == [i \in 1 .. treeCount |-> SearchTree(index[i - 1], keyframe_poses, vec)]
<1>1. pose \in Seq(Position) /\ keyframe_poses = pose /\ Forest(index, pose, n) /\ vec \in Position
      /\ n \in Nat /\ DOMAIN pose = 1 .. n
  <2>1. pose \in Seq(Places) /\ keyframe_poses = pose /\ Forest(index, pose, n)
    BY DEF IndexFollows
  <2> QED
    BY <2>1, PlacesArePoints
<1>2. PICK A : /\ A \in [Trees -> SUBSET (1 .. n)]
               /\ \A k \in 1 .. n : \E i \in Trees : k \in A[i]
               /\ \A i, j \in Trees : i # j => A[i] \cap A[j] = {}
               /\ \A i \in Trees : Holds(index[i], pose, A[i])
  BY <1>1 DEF Forest
<1>3. /\ treeCount \in Nat
      /\ \A i \in 1 .. treeCount : i - 1 \in Trees
      /\ \A i \in Trees : i + 1 \in 1 .. treeCount /\ (i + 1) - 1 = i
  BY CapacityDoubles DEF Trees
<1> DEFINE B == [i \in 1 .. treeCount |-> A[i - 1] \cap N]
<1>4. \A k : k \in N <=> \E i \in 1 .. treeCount : k \in B[i]
  <2>1. N \subseteq 1 .. n
    BY <1>1 DEF Neighbors
  <2> HIDE DEF N
  <2>2. ASSUME NEW k \in N PROVE \E i \in 1 .. treeCount : k \in B[i]
    <3>1. PICK i \in Trees : k \in A[i]
      BY <1>2, <2>1
    <3>2. i + 1 \in 1 .. treeCount /\ (i + 1) - 1 = i
      BY <1>3
    <3>3. k \in B[i + 1]
      BY <3>1, <3>2
    <3> QED
      BY <3>2, <3>3
  <2> QED
    BY <2>2
<1>5. ASSUME NEW i \in 1 .. treeCount PROVE Enumerates(seqs[i], B[i]) /\ B[i] \subseteq Nat
  <2>1. i - 1 \in Trees
    BY <1>3
  <2>2. Holds(index[i - 1], pose, A[i - 1]) /\ A[i - 1] \in SUBSET (1 .. n)
    BY <1>2, <2>1
  <2>3. Enumerates(SearchTree(index[i - 1], pose, vec), A[i - 1] \cap N)
    BY <1>1, <2>2, TreeFound
  <2> HIDE DEF N
  <2>4. Enumerates(seqs[i], B[i])
    BY <1>1, <2>3
  <2> QED
    BY <2>2, <2>4
<1>6. \A i, j \in 1 .. treeCount : i # j => B[i] \cap B[j] = {}
  <2> SUFFICES ASSUME NEW i \in 1 .. treeCount, NEW j \in 1 .. treeCount, i # j
               PROVE  B[i] \cap B[j] = {}
    OBVIOUS
  <2>1. i - 1 \in Trees /\ j - 1 \in Trees /\ i - 1 # j - 1
    BY <1>3
  <2> HIDE DEF N
  <2> QED
    BY <1>2, <2>1
<1>7. findNeighbors(vec) = FlattenSeq(seqs)
  BY DEF findNeighbors
<1> HIDE DEF B, N
<1>8. seqs \in [1 .. treeCount -> Seq(Nat)]
  <2>1. \A i \in 1 .. treeCount : seqs[i] \in Seq(Nat)
    <3> SUFFICES ASSUME NEW i \in 1 .. treeCount PROVE seqs[i] \in Seq(Nat)
      OBVIOUS
    <3> HIDE DEF seqs
    <3>1. seqs[i] \in Seq(B[i]) /\ B[i] \subseteq Nat
      BY <1>5 DEF Enumerates
    <3> QED
      BY <3>1
  <2> QED
    BY <2>1
<1> HIDE DEF seqs
<1>9. Enumerates(FlattenSeq(seqs), N)
  <2>1. \A i \in 1 .. treeCount : Enumerates(seqs[i], B[i])
    BY <1>5
  <2> QED
    BY <1>3, <1>4, <1>6, <1>8, <2>1, FlattenEnumerated
<1> DEFINE found == findNeighbors(vec)
<1>10. /\ found \in Seq(N) /\ DOMAIN found = 1 .. Len(found)
       /\ \A i, j \in 1 .. Len(found) : found[i] = found[j] => i = j
       /\ \A k \in N : \E i \in 1 .. Len(found) : found[i] = k
  BY <1>7, <1>9 DEF Enumerates
<1> HIDE DEF found
<1>11. IsInjective(found)
  BY <1>10 DEF IsInjective
<1>12. Range(found) = N
  BY <1>10 DEF Range
<1> QED
  BY <1>11, <1>12 DEF found, N, Neighbors

\* Wherever the sensor is, whatever tree the positions make and however often
\* they were moved, detect_loop_for_keyframe's search returns every backend
\* keyframe nearer than the radius exactly once.
THEOREM SearchStaysExact == SearchSpec => []SearchExact
<1>1. IndexFollows /\ [SearchNext]_searchVars => IndexFollows'
  BY IndexNext
<1> QED
  BY <1>1, IndexInit, ForestExact, PTL DEF SearchSpec
=============================================================================
