----------------------------- MODULE GeorefProofs -----------------------------
(***************************************************************************)
(* Theorems about Georef, for images, point lists and hashes of every      *)
(* size.                                                                   *)
(***************************************************************************)
EXTENDS Georef, FiniteSetTheorems, WellFoundedInduction, TLAPS

GeorefSpec == points = <<>> /\ [][AddPoint \/ DeactivatePoint]_points

Point == [id : 1..MaxPoints, x : Xs, y : Ys, active : BOOLEAN]

PointList(P) ==
  /\ P \in Seq(Point)
  /\ \A i \in DOMAIN P : P[i].id = i
  /\ \A i, j \in ActivePoints(P) :
       P[i].x = P[j].x /\ P[i].y = P[j].y => i = j

-------------------------------------------------------------------------------
(* The least element, and what follows from it                              *)

Less == {ss \in Nat \X Nat : ss[1] < ss[2]}

LEMMA LessWF == IsWellFoundedOn(Less, Nat)
<1>1. Less = OpToRel(<, Nat)
  BY DEF Less, OpToRel
<1> QED
  BY <1>1, NatLessThanWellFounded

(* A set of natural numbers has a least element. *)
LEMMA LeastOf ==
  ASSUME NEW S, S \subseteq Nat, S # {}
  PROVE  \E m \in S : \A n \in S : m <= n
<1>1. PICK m \in S : \A n \in S : ~(<<n, m>> \in Less)
  BY LessWF, WFMin, Zenon
<1>2. ASSUME NEW n \in S PROVE m <= n
  <2>1. m \in Nat /\ n \in Nat
    OBVIOUS
  <2>2. ~(<<n, m>> \in Less)
    BY <1>1
  <2>3. n < m => <<n, m>> \in Less
    BY <2>1 DEF Less
  <2> QED
    BY <2>1, <2>2, <2>3
<1> QED
  BY <1>2

(* What holds of 0 and is handed on holds up to n. *)
LEMMA UpTo ==
  ASSUME NEW n \in Nat, NEW S, 0 \in S,
         \A m \in 1..n : m - 1 \in S => m \in S
  PROVE  \A m \in 0..n : m \in S
<1> SUFFICES ASSUME NEW k \in 0..n, k \notin S PROVE FALSE
  OBVIOUS
<1> DEFINE B == {m \in 0..n : m \notin S}
<1>1. B \subseteq Nat /\ B # {}
  OBVIOUS
<1>2. PICK m \in B : \A l \in B : m <= l
  BY <1>1, LeastOf
<1>3. m # 0
  BY <1>2
<1>4. m \in 1..n
  BY <1>2, <1>3
<1>5. m - 1 \in 0..n /\ m - 1 \notin B
  BY <1>2, <1>4
<1> QED
  BY <1>2, <1>4, <1>5

(* So has a set of numbers between two bounds a least and a greatest. *)
LEMMA MinMax ==
  ASSUME NEW S, NEW n \in Nat, S \subseteq 0..n, S # {}
  PROVE  /\ Min(S) \in S /\ \A k \in S : Min(S) <= k
         /\ Max(S) \in S /\ \A k \in S : k <= Max(S)
<1>0. \A k \in S : k \in Int
  OBVIOUS
<1>1. PICK a \in S : \A k \in S : a <= k
  <2>1. S \subseteq Nat
    OBVIOUS
  <2> QED
    BY <2>1, LeastOf
<1> DEFINE T == {n - k : k \in S}
<1>2. PICK c \in T : \A k \in T : c <= k
  <2>1. T \subseteq Nat /\ T # {}
    OBVIOUS
  <2> QED
    BY <2>1, LeastOf
<1>3. PICK b \in S : c = n - b
  BY <1>2
<1>4. ASSUME NEW k \in S PROVE k <= b
  <2>1. n - k \in T
    BY <1>4
  <2>2. c <= n - k
    BY <2>1, <1>2
  <2>3. k \in Int /\ b \in Int
    BY <1>0
  <2> QED
    BY <2>2, <2>3, <1>3
<1>5. Min(S) \in S /\ \A k \in S : Min(S) <= k
  BY <1>1, Zenon DEF Min
<1>6. Max(S) \in S /\ \A k \in S : Max(S) >= k
  <2>1. \A k \in S : b >= k
    BY <1>4
  <2> QED
    BY <2>1, Zenon DEF Max
<1> QED
  BY <1>5, <1>6

-------------------------------------------------------------------------------
(* Point lists                                                              *)

LEMMA Place ==
  ASSUME NEW P \in Seq(Point)
  PROVE  /\ Len(P) \in Nat /\ DOMAIN P = 1..Len(P)
         /\ ActivePoints(P) \subseteq 1..Len(P)
         /\ IsFiniteSet(ActivePoints(P)) /\ Cardinality(ActivePoints(P)) \in Nat
         /\ \A i \in DOMAIN P :
              /\ P[i] \in Point /\ P[i].id \in 1..MaxPoints
              /\ P[i].active \in BOOLEAN
              /\ P[i].x \in 0..Width /\ P[i].y \in 0..Height
<1>1. Len(P) \in Nat /\ DOMAIN P = 1..Len(P)
  OBVIOUS
<1>2. ActivePoints(P) \subseteq 1..Len(P)
  BY <1>1 DEF ActivePoints
<1>3. IsFiniteSet(ActivePoints(P))
  <2>1. IsFiniteSet(1..Len(P))
    BY <1>1, FS_Interval
  <2> QED
    BY <1>2, <2>1, FS_Subset
<1>4. \A i \in DOMAIN P : P[i] \in Point
  BY <1>1
<1> QED
  BY <1>1, <1>2, <1>3, <1>4, FS_CardinalityType, GeorefAssumption DEF Point

LEMMA PointListInvariant == GeorefSpec => []PointList(points)
<1>1. points = <<>> => PointList(points)
  BY DEF PointList, ActivePoints
<1>2. PointList(points) /\ [AddPoint \/ DeactivatePoint]_points => PointList(points)'
  <2> SUFFICES ASSUME PointList(points), [AddPoint \/ DeactivatePoint]_points
               PROVE  PointList(points')
    BY DEF PointList, ActivePoints
  <2> USE GeorefAssumption
  <2>0. points \in Seq(Point)
    BY DEF PointList
  <2>1. CASE AddPoint
    <3> DEFINE n == Len(points) + 1
    <3>1. PICK x \in Xs, y \in Ys :
            /\ \A i \in DOMAIN points :
                 points[i].active => <<points[i].x, points[i].y>> # <<x, y>>
            /\ points' = Append(points, [id |-> n, x |-> x, y |-> y,
                                         active |-> TRUE])
      BY <2>1 DEF AddPoint
    <3>2. n \in 1..MaxPoints /\ Len(points) \in Nat
      BY <2>0, <2>1, Place DEF AddPoint
    <3>3. [id |-> n, x |-> x, y |-> y, active |-> TRUE] \in Point
      BY <3>2 DEF Point
    <3>4. points' \in Seq(Point)
      BY <2>0, <3>1, <3>3
    <3>5. /\ DOMAIN points' = 1..n /\ DOMAIN points = 1..(n - 1)
          /\ \A i \in DOMAIN points : points'[i] = points[i]
          /\ points'[n] = [id |-> n, x |-> x, y |-> y, active |-> TRUE]
      BY <2>0, <3>1, <3>2
    <3>6. \A i \in DOMAIN points' : points'[i].id = i
      BY <3>5, <3>2 DEF PointList
    <3>7. ASSUME NEW i \in ActivePoints(points'), NEW j \in ActivePoints(points'),
                 points'[i].x = points'[j].x, points'[i].y = points'[j].y
          PROVE  i = j
      <4>1. i \in 1..n /\ j \in 1..n /\ points'[i].active /\ points'[j].active
        BY <3>5 DEF ActivePoints
      <4>0. \A k \in 1..(n - 1) :
              points[k].active => ~(points[k].x = x /\ points[k].y = y)
        BY <3>1, <3>5
      <4>2. CASE i = n /\ j # n
        <5>1. j \in 1..(n - 1) /\ points'[j] = points[j]
          BY <3>2, <3>5, <4>1, <4>2
        <5> QED
          BY <3>5, <3>7, <4>0, <4>1, <4>2, <5>1
      <4>3. CASE i # n /\ j = n
        <5>1. i \in 1..(n - 1) /\ points'[i] = points[i]
          BY <3>2, <3>5, <4>1, <4>3
        <5> QED
          BY <3>5, <3>7, <4>0, <4>1, <4>3, <5>1
      <4>4. CASE i # n /\ j # n
        <5>0. i \in 1..(n - 1) /\ j \in 1..(n - 1)
          BY <3>2, <4>1, <4>4
        <5>1. /\ i \in 1..(n - 1) /\ points'[i] = points[i]
              /\ j \in 1..(n - 1) /\ points'[j] = points[j]
          BY <3>5, <5>0
        <5>2. i \in ActivePoints(points) /\ j \in ActivePoints(points)
          BY <3>5, <4>1, <5>1 DEF ActivePoints
        <5> QED
          BY <3>7, <5>1, <5>2 DEF PointList
      <4> QED
        BY <4>2, <4>3, <4>4
    <3> QED
      BY <3>4, <3>6, <3>7 DEF PointList
  <2>2. CASE DeactivatePoint
    <3>1. PICK i \in DOMAIN points :
            points[i].active /\ points' = [points EXCEPT ![i].active = FALSE]
      BY <2>2 DEF DeactivatePoint
    <3>2. [points[i] EXCEPT !.active = FALSE] \in Point
      <4>1. points[i] \in Point
        BY <2>0, <3>1, Place
      <4> QED
        BY <4>1 DEF Point
    <3>3. points' \in Seq(Point)
      BY <2>0, <3>1, <3>2
    <3>4. /\ DOMAIN points' = DOMAIN points
          /\ \A j \in DOMAIN points : /\ points'[j].id = points[j].id
                                      /\ points'[j].x = points[j].x
                                      /\ points'[j].y = points[j].y
                                      /\ points'[j].active => points[j].active
      <4>1. \A j \in DOMAIN points : points[j] \in Point
        BY <2>0, Place
      <4> QED
        BY <2>0, <3>1, <4>1 DEF Point
    <3> QED
      BY <3>3, <3>4 DEF PointList, ActivePoints
  <2> QED
    BY <2>1, <2>2
<1> QED
  BY <1>1, <1>2, PTL DEF GeorefSpec

-------------------------------------------------------------------------------
(* Coverage                                                                 *)

(* The quadrants that have a point. *)
Covered(P) == {Quadrant(P[i]) : i \in ActivePoints(P)}

LEMMA QuadrantsCovered ==
  ASSUME NEW P \in Seq(Point)
  PROVE  /\ Covered(P) = 0..3 <=> Cardinality(Covered(P)) = 4
         /\ Covered(P) = 0..3 <=> \A q \in 0..3 : QuadrantCounts(P)[q] > 0
         /\ Distribution(P) <=>
              Cardinality(ActivePoints(P)) >= 4 /\ Covered(P) = 0..3
<1> DEFINE A == ActivePoints(P)
           T == {Quadrant(P[i]) : i \in A}
<1>1. \A i \in A : Quadrant(P[i]) \in 0..3
  BY DEF Quadrant
<1>2. IsFiniteSet(0..3) /\ Cardinality(0..3) = 4
  <2>1. 0 \in Int /\ 3 \in Int /\ ~(0 > 3) /\ 3 - 0 + 1 = 4
    OBVIOUS
  <2> QED
    BY <2>1, FS_Interval
<1>3. T = 0..3 <=> Cardinality(T) = 4
  <2>1. T \in SUBSET (0..3)
    BY <1>1
  <2> HIDE DEF T
  <2> QED
    BY <1>2, <2>1, FS_Subset
<1>4. ASSUME NEW q \in 0..3
      PROVE  q \in T <=> QuadrantCounts(P)[q] > 0
  <2> DEFINE I == {i \in A : Quadrant(P[i]) = q}
  <2>1. QuadrantCounts(P)[q] = Cardinality(I)
    BY DEF QuadrantCounts
  <2>2. IsFiniteSet(A)
    BY Place
  <2>3. I \in SUBSET A
    OBVIOUS
  <2>4. q \in T <=> I # {}
    OBVIOUS
  <2> HIDE DEF I, A, T
  <2>5. IsFiniteSet(I)
    BY <2>2, <2>3, FS_Subset
  <2>6. Cardinality(I) \in Nat /\ (Cardinality(I) = 0 <=> I = {})
    BY <2>5, FS_CardinalityType, FS_EmptySet
  <2> QED
    BY <2>1, <2>4, <2>6
<1>5. T = 0..3 <=> \A q \in 0..3 : QuadrantCounts(P)[q] > 0
  <2>1. T \subseteq 0..3
    BY <1>1
  <2> HIDE DEF T
  <2> QED
    BY <1>4, <2>1
<1>6. Distribution(P) <=> Cardinality(A) >= 4 /\ T = 0..3
  BY DEF Distribution, Quadrant
<1> QED
  BY <1>3, <1>5, <1>6, Zenon DEF Covered

LEMMA ListsAreCovered == points \in Seq(Point) => CoverageAgrees
<1> SUFFICES ASSUME points \in Seq(Point) PROVE CoverageAgrees
  OBVIOUS
<1>1. /\ Covered(points) = 0..3 <=> Cardinality(Covered(points)) = 4
      /\ Covered(points) = 0..3 <=> \A q \in 0..3 : QuadrantCounts(points)[q] > 0
      /\ Distribution(points) <=>
           Cardinality(ActivePoints(points)) >= 4 /\ Covered(points) = 0..3
  BY QuadrantsCovered
<1>2. DistributionPassed(points) <=>
        Cardinality(ActivePoints(points)) >= 4 /\ Cardinality(Covered(points)) = 4
  BY DEF DistributionPassed, Quadrant, Covered
<1> QED
  BY <1>1, <1>2, Zenon DEF CoverageAgrees

-------------------------------------------------------------------------------
(* Sums                                                                     *)

(* The partial sums that Total computes.                                    *)
LEMMA PartialSums ==
  ASSUME NEW n \in Nat, NEW c \in [1..n -> Int]
  PROVE  \E t \in [0..n -> Int] :
           /\ t[0] = 0
           /\ \A k \in 1..n : t[k] = t[k - 1] + c[k]
           /\ Total(n, c) = t[n]
<1> DEFINE Sums(m) == {t \in [0..m -> Int] :
                         /\ t[0] = 0
                         /\ \A k \in 1..m : t[k] = t[k - 1] + c[k]}
           S == {m \in 0..n : Sums(m) # {}}
           F(t) == [k \in 0..n |-> IF k = 0 THEN 0 ELSE t[k - 1] + c[k]]
           Total_t == CHOOSE t : t = F(t)
<1>1. 0 \in S
  <2>1. [k \in 0..0 |-> 0] \in Sums(0)
    OBVIOUS
  <2> QED
    BY <2>1
<1>2. ASSUME NEW m \in 1..n, m - 1 \in S PROVE m \in S
  <2>1. PICK t \in Sums(m - 1) : TRUE
    BY <1>2
  <2>2. /\ t \in [0..(m - 1) -> Int] /\ t[0] = 0
        /\ \A k \in 1..(m - 1) : t[k] = t[k - 1] + c[k]
    BY <2>1
  <2> DEFINE u == [k \in 0..m |-> IF k = m THEN t[m - 1] + c[m] ELSE t[k]]
  <2>3. u \in [0..m -> Int] /\ u[0] = 0
    BY <2>2
  <2>4. ASSUME NEW k \in 1..m PROVE u[k] = u[k - 1] + c[k]
    <3>1. CASE k = m
      <4>1. u[m] = t[m - 1] + c[m] /\ u[m - 1] = t[m - 1]
        BY <1>2
      <4> QED
        BY <3>1, <4>1
    <3>2. CASE k # m
      <4>1. k \in 1..(m - 1)
        BY <3>2
      <4>2. u[k] = t[k] /\ u[k - 1] = t[k - 1]
        BY <3>2, <4>1
      <4> QED
        BY <2>2, <4>1, <4>2
    <3> QED
      BY <3>1, <3>2
  <2>5. u \in Sums(m)
    BY <2>3, <2>4
  <2>6. m \in 0..n
    OBVIOUS
  <2> HIDE DEF Sums, u
  <2> QED
    BY <2>5, <2>6
<1>3. n \in S
  <2> HIDE DEF S
  <2>1. \A m \in 0..n : m \in S
    BY <1>1, <1>2, UpTo
  <2> QED
    BY <2>1
<1>4. PICK t \in Sums(n) : TRUE
  BY <1>3
<1>5. /\ t \in [0..n -> Int] /\ t[0] = 0
      /\ \A k \in 1..n : t[k] = t[k - 1] + c[k]
  BY <1>4
<1>6. t = F(t)
  BY <1>5
<1>7. Total_t = F(Total_t)
  BY <1>6, Zenon
<1>8. Total(n, c) = Total_t[n]
  BY Zenon DEF Total
<1> DEFINE v == Total_t
<1>9. v = F(v)
  BY <1>7
<1> HIDE DEF v
<1>10. v[0] = 0 /\ \A k \in 1..n : v[k] = v[k - 1] + c[k]
  BY <1>9
<1> DEFINE E == {k \in 0..n : v[k] = t[k]}
<1>11. \A k \in 0..n : k \in E
  <2>1. 0 \in E
    BY <1>5, <1>10
  <2>2. \A k \in 1..n : k - 1 \in E => k \in E
    BY <1>5, <1>10
  <2> HIDE DEF E
  <2> QED
    BY <2>1, <2>2, UpTo
<1>12. Total(n, c) = t[n]
  BY <1>8, <1>11 DEF v
<1> QED
  BY <1>5, <1>12

-------------------------------------------------------------------------------
(* The normal matrix                                                        *)

(* The value of (a, b, c) under the quadratic form of the matrix.           *)
Form(a, b, c, xx, xy, yy, x1, y1, n) ==
  a * a * xx + 2 * a * b * xy + 2 * a * c * x1 + b * b * yy + 2 * b * c * y1 + c * c * n

LEMMA Squares ==
  ASSUME NEW s \in Int
  PROVE  s * s \in Nat /\ (s # 0 => s * s > 0)
  OBVIOUS

LEMMA FormType ==
  ASSUME NEW a \in Int, NEW b \in Int, NEW c \in Int,
         NEW xx \in Int, NEW xy \in Int, NEW yy \in Int,
         NEW x1 \in Int, NEW y1 \in Int, NEW n \in Int
  PROVE  Form(a, b, c, xx, xy, yy, x1, y1, n) \in Int
  BY DEF Form

(* An entry of the matrix is the last of the sums over the first l points.  *)
IsSums(P, t, j, k) ==
  /\ t \in [0..Len(P) -> Int] /\ t[0] = 0
  /\ \A l \in 1..Len(P) :
       t[l] = t[l - 1] + (IF P[l].active
                          THEN NormalRow(P[l])[j] * NormalRow(P[l])[k] ELSE 0)
  /\ NormalEntry(P, j, k) = t[Len(P)]

LEMMA EntrySums ==
  ASSUME NEW P \in Seq(Point), NEW j \in 1..3, NEW k \in 1..3
  PROVE  \E t : IsSums(P, t, j, k)
<1> DEFINE n == Len(P)
           e(l) == IF P[l].active THEN NormalRow(P[l])[j] * NormalRow(P[l])[k] ELSE 0
           f == [l \in 1..n |-> e(l)]
<1>1. n \in Nat /\ DOMAIN P = 1..n
  BY Place
<1>2. ASSUME NEW l \in 1..n PROVE e(l) \in Int
  <2>1. P[l].x \in Int /\ P[l].y \in Int
    BY <1>1, Place
  <2>2. NormalRow(P[l])[1] = P[l].x /\ NormalRow(P[l])[2] = P[l].y
        /\ NormalRow(P[l])[3] = 1
    BY DEF NormalRow
  <2>3. j = 1 \/ j = 2 \/ j = 3
    OBVIOUS
  <2>4. k = 1 \/ k = 2 \/ k = 3
    OBVIOUS
  <2>5. NormalRow(P[l])[j] \in Int
    BY <2>1, <2>2, <2>3
  <2>6. NormalRow(P[l])[k] \in Int
    BY <2>1, <2>2, <2>4
  <2> QED
    BY <2>5, <2>6
<1> HIDE DEF e
<1>3. f \in [1..n -> Int]
  BY <1>2
<1>4. PICK t \in [0..n -> Int] : /\ t[0] = 0
                                 /\ \A l \in 1..n : t[l] = t[l - 1] + f[l]
                                 /\ Total(n, f) = t[n]
  BY <1>1, <1>3, PartialSums
<1>5. NormalEntry(P, j, k) = Total(n, f)
  BY <1>1, Zenon DEF NormalEntry, e
<1>6. \A l \in 1..n : t[l] = t[l - 1] + e(l)
  BY <1>4
<1> HIDE DEF f
<1> QED
  BY <1>4, <1>5, <1>6, Zenon DEF IsSums, e

(* The form is a sum of squares: where it is zero, so is each of them.      *)
LEMMA FormIsSumOfSquares ==
  ASSUME NEW P \in Seq(Point), NEW a \in Int, NEW b \in Int, NEW c \in Int,
         Form(a, b, c, NormalEntry(P, 1, 1), NormalEntry(P, 1, 2),
              NormalEntry(P, 2, 2), NormalEntry(P, 1, 3), NormalEntry(P, 2, 3),
              NormalEntry(P, 3, 3)) = 0,
         NEW i \in ActivePoints(P)
  PROVE  a * P[i].x + b * P[i].y + c = 0
<1> DEFINE n == Len(P)
           s(l) == a * P[l].x + b * P[l].y + c
<1>1. n \in Nat /\ DOMAIN P = 1..n /\ i \in 1..n /\ P[i].active
  BY Place DEF ActivePoints
<1>2. \A l \in 1..n : P[l].x \in Int /\ P[l].y \in Int /\ P[l].active \in BOOLEAN
  BY <1>1, Place
<1>3. ASSUME NEW l \in 1..n PROVE s(l) \in Int
  <2> DEFINE x == P[l].x
             y == P[l].y
  <2>1. x \in Int /\ y \in Int
    BY <1>2
  <2> HIDE DEF x, y
  <2>2. a * x + b * y + c \in Int
    BY <2>1
  <2> QED
    BY <2>2 DEF x, y
<1>6. PICK xx : IsSums(P, xx, 1, 1)
  BY EntrySums
<1>7. PICK xy : IsSums(P, xy, 1, 2)
  BY EntrySums
<1>8. PICK yy : IsSums(P, yy, 2, 2)
  BY EntrySums
<1>9. PICK x1 : IsSums(P, x1, 1, 3)
  BY EntrySums
<1>10. PICK y1 : IsSums(P, y1, 2, 3)
  BY EntrySums
<1>11. PICK nn : IsSums(P, nn, 3, 3)
  BY EntrySums
<1> DEFINE q(k) == Form(a, b, c, xx[k], xy[k], yy[k], x1[k], y1[k], nn[k])
           S == {k \in 0..n : q(k) \in Nat /\ (k >= i /\ s(i) # 0 => q(k) > 0)}
<1>12. 0 \in S
  <2>1. /\ xx[0] = 0 /\ xy[0] = 0 /\ yy[0] = 0
        /\ x1[0] = 0 /\ y1[0] = 0 /\ nn[0] = 0
    BY <1>6, <1>7, <1>8, <1>9, <1>10, <1>11 DEF IsSums
  <2>2. q(0) = 0
    BY <2>1 DEF Form
  <2> HIDE DEF q
  <2> QED
    BY <1>1, <2>2
<1>13. ASSUME NEW k \in 1..n
       PROVE  /\ q(k - 1) \in Int
              /\ q(k) = q(k - 1) + (IF P[k].active THEN s(k) * s(k) ELSE 0)
  <2>1. k - 1 \in 0..n
    BY <1>1
  <2>2. /\ xx[k - 1] \in Int /\ xy[k - 1] \in Int /\ yy[k - 1] \in Int
        /\ x1[k - 1] \in Int /\ y1[k - 1] \in Int /\ nn[k - 1] \in Int
    BY <2>1, <1>6, <1>7, <1>8, <1>9, <1>10, <1>11 DEF IsSums
  <2>3. NormalRow(P[k])[1] = P[k].x /\ NormalRow(P[k])[2] = P[k].y
        /\ NormalRow(P[k])[3] = 1
    BY DEF NormalRow
  <2>4. q(k - 1) \in Int
    BY <2>2, FormType
  <2>5. CASE P[k].active
    <3>1. xx[k] = xx[k - 1] + P[k].x * P[k].x
      BY <1>6, <2>3, <2>5, Zenon DEF IsSums
    <3>2. xy[k] = xy[k - 1] + P[k].x * P[k].y
      BY <1>7, <2>3, <2>5, Zenon DEF IsSums
    <3>3. yy[k] = yy[k - 1] + P[k].y * P[k].y
      BY <1>8, <2>3, <2>5, Zenon DEF IsSums
    <3>4. x1[k] = x1[k - 1] + P[k].x
      <4>1. x1[k] = x1[k - 1] + P[k].x * 1
        BY <1>9, <2>3, <2>5, Zenon DEF IsSums
      <4> QED
        BY <1>2, <2>2, <4>1
    <3>5. y1[k] = y1[k - 1] + P[k].y
      <4>1. y1[k] = y1[k - 1] + P[k].y * 1
        BY <1>10, <2>3, <2>5, Zenon DEF IsSums
      <4> QED
        BY <1>2, <2>2, <4>1
    <3>6. nn[k] = nn[k - 1] + 1
      <4>1. nn[k] = nn[k - 1] + 1 * 1
        BY <1>11, <2>3, <2>5, Zenon DEF IsSums
      <4> QED
        BY <2>2, <4>1
    <3>7. q(k) = q(k - 1) + s(k) * s(k)
      <4> DEFINE x == P[k].x
                 y == P[k].y
                 sxx == xx[k - 1]
                 sxy == xy[k - 1]
                 syy == yy[k - 1]
                 sx == x1[k - 1]
                 sy == y1[k - 1]
                 sn == nn[k - 1]
      <4>1. /\ x \in Int /\ y \in Int /\ sxx \in Int /\ sxy \in Int
            /\ syy \in Int /\ sx \in Int /\ sy \in Int /\ sn \in Int
        BY <1>2, <2>2
      <4>2. q(k) = Form(a, b, c, sxx + x * x, sxy + x * y, syy + y * y,
                        sx + x, sy + y, sn + 1)
        BY <3>1, <3>2, <3>3, <3>4, <3>5, <3>6, Zenon
      <4>3. q(k - 1) = Form(a, b, c, sxx, sxy, syy, sx, sy, sn)
        OBVIOUS
      <4>4. s(k) = a * x + b * y + c
        OBVIOUS
      <4> HIDE DEF x, y, sxx, sxy, syy, sx, sy, sn, q, s
      <4> QED
        BY <4>1, <4>2, <4>3, <4>4 DEF Form
    <3> QED
      BY <2>4, <2>5, <3>7, Zenon
  <2>6. CASE ~P[k].active
    <3>1. /\ xx[k] = xx[k - 1] + 0 /\ xy[k] = xy[k - 1] + 0 /\ yy[k] = yy[k - 1] + 0
          /\ x1[k] = x1[k - 1] + 0 /\ y1[k] = y1[k - 1] + 0 /\ nn[k] = nn[k - 1] + 0
      BY <1>6, <1>7, <1>8, <1>9, <1>10, <1>11, <2>6, Zenon DEF IsSums
    <3>0. \A z \in Int : z + 0 = z
      OBVIOUS
    <3>2. /\ xx[k] = xx[k - 1] /\ xy[k] = xy[k - 1] /\ yy[k] = yy[k - 1]
          /\ x1[k] = x1[k - 1] /\ y1[k] = y1[k - 1] /\ nn[k] = nn[k - 1]
      BY <2>2, <3>0, <3>1, Zenon
    <3>3. q(k) = q(k - 1)
      BY <3>2
    <3> HIDE DEF q, s
    <3> QED
      BY <2>4, <2>6, <3>3
  <2> QED
    BY <2>5, <2>6
<1>14. ASSUME NEW k \in 1..n, k - 1 \in S PROVE k \in S
  <2>1. s(k) \in Int
    BY <1>3
  <2>2. s(k) * s(k) \in Nat /\ (s(k) # 0 => s(k) * s(k) > 0)
    BY <2>1, Squares
  <2>3. q(k - 1) \in Nat /\ (k - 1 >= i /\ s(i) # 0 => q(k - 1) > 0)
    BY <1>14
  <2>4. q(k) = q(k - 1) + (IF P[k].active THEN s(k) * s(k) ELSE 0)
    BY <1>13
  <2> DEFINE d == s(k) * s(k)
             r == q(k)
             r0 == q(k - 1)
  <2>5. k \in 0..n /\ k \in Int /\ i \in Int
    BY <1>1
  <2>6. d \in Nat /\ (s(k) # 0 => d > 0)
    BY <2>2
  <2>7. r0 \in Nat /\ (k - 1 >= i /\ s(i) # 0 => r0 > 0)
    BY <2>3
  <2>8. r = r0 + (IF P[k].active THEN d ELSE 0)
    BY <2>4
  <2>9. r \in Nat /\ (k >= i /\ s(i) # 0 => r > 0)
    <3> HIDE DEF d, r, r0, s
    <3>1. CASE k = i
      BY <1>1, <2>5, <2>6, <2>7, <2>8, <3>1
    <3>2. CASE k # i
      BY <2>5, <2>6, <2>7, <2>8, <3>2
    <3> QED
      BY <3>1, <3>2
  <2> HIDE DEF q, s
  <2> QED
    BY <2>5, <2>9 DEF r
<1>15. n \in S
  <2> HIDE DEF S
  <2>1. \A k \in 0..n : k \in S
    BY <1>1, <1>12, <1>14, UpTo
  <2> QED
    BY <1>1, <2>1
<1>16. q(n) = 0
  BY <1>6, <1>7, <1>8, <1>9, <1>10, <1>11, Zenon DEF IsSums
<1>17. s(i) = 0
  <2>1. n >= i
    BY <1>1
  <2> HIDE DEF q, s
  <2> QED
    BY <1>15, <1>16, <2>1
<1> QED
  BY <1>17

(* The points lie on a line.                                                *)
OnLine(P, a, b, c) ==
  /\ a # 0 \/ b # 0
  /\ \A i \in ActivePoints(P) : a * P[i].x + b * P[i].y + c = 0

LEMMA LinesAreDegenerate ==
  ASSUME NEW P \in Seq(Point), NEW a \in Int, NEW b \in Int, NEW c \in Int,
         OnLine(P, a, b, c)
  PROVE  Degenerate(P)
<1> SUFFICES ASSUME NEW i \in ActivePoints(P), NEW j \in ActivePoints(P),
                    NEW k \in ActivePoints(P)
             PROVE  1000000 * Area(P[i], P[j], P[k]) < Width * Height
  BY DEF Degenerate
<1>1. \A l \in ActivePoints(P) : P[l].x \in Int /\ P[l].y \in Int
  BY Place
<1> DEFINE dx == P[j].x - P[i].x
           dy == P[j].y - P[i].y
           ex == P[k].x - P[i].x
           ey == P[k].y - P[i].y
           d == dx * ey - ex * dy
<1>2. d = 0
  <2> DEFINE px == P[i].x
             py == P[i].y
             qx == P[j].x
             qy == P[j].y
             rx == P[k].x
             ry == P[k].y
  <2>0. /\ px \in Int /\ py \in Int /\ qx \in Int
        /\ qy \in Int /\ rx \in Int /\ ry \in Int
    BY <1>1
  <2>9. /\ a * px + b * py + c = 0
        /\ a * qx + b * qy + c = 0
        /\ a * rx + b * ry + c = 0
    BY DEF OnLine
  <2> HIDE DEF px, py, qx, qy, rx, ry
  <2>10. dx = qx - px /\ dy = qy - py /\ ex = rx - px /\ ey = ry - py
    BY DEF px, py, qx, qy, rx, ry
  <2> HIDE DEF dx, dy, ex, ey
  <2>1. dx \in Int /\ dy \in Int /\ ex \in Int /\ ey \in Int
    BY <2>0, <2>10
  <2>2. a * dx = -(b * dy) /\ a * ex = -(b * ey)
    BY <2>0, <2>9, <2>10
  <2>3. a # 0 \/ b # 0
    BY DEF OnLine
  <2>4. a * d = (a * dx) * ey - (a * ex) * dy
    BY <2>1
  <2>5. b * d = (b * ey) * dx - (b * dy) * ex
    BY <2>1
  <2>6. a * d = 0
    <3>1. a * d = (-(b * dy)) * ey - (-(b * ey)) * dy
      BY <2>2, <2>4
    <3> QED
      BY <2>1, <3>1
  <2>7. b * d = 0
    <3>1. b * dy = -(a * dx) /\ b * ey = -(a * ex)
      BY <2>1, <2>2
    <3>2. b * d = (-(a * ex)) * dx - (-(a * dx)) * ex
      BY <2>5, <3>1
    <3> QED
      BY <2>1, <3>2
  <2>8. d \in Int
    BY <2>1
  <2> HIDE DEF d
  <2> QED
    BY <2>3, <2>6, <2>7, <2>8
<1>3. Area(P[i], P[j], P[k]) = 0
  BY <1>2 DEF Area, Abs
<1>4. Width \in Nat \ {0} /\ Height \in Nat \ {0}
  BY GeorefAssumption
<1>5. Width * Height > 0
  BY <1>4
<1> QED
  BY <1>3, <1>5

LEMMA CoveredFit ==
  ASSUME NEW P \in Seq(Point), ActivePoints(P) # {}, ~Degenerate(P)
  PROVE  NormalDeterminant(P) # 0
<1> DEFINE xx == NormalEntry(P, 1, 1)
           xy == NormalEntry(P, 1, 2)
           yy == NormalEntry(P, 2, 2)
           x1 == NormalEntry(P, 1, 3)
           y1 == NormalEntry(P, 2, 3)
           n == NormalEntry(P, 3, 3)
           det == xx * (yy * n - y1 * y1) - xy * (xy * n - y1 * x1)
                    + x1 * (xy * y1 - yy * x1)
           a == xy * y1 - x1 * yy
           b == xy * x1 - xx * y1
           c == xx * yy - xy * xy
           zero(v1, v2, v3) ==
             \A i \in ActivePoints(P) : v1 * P[i].x + v2 * P[i].y + v3 = 0
<1>1. NormalDeterminant(P) = det
  BY Zenon DEF NormalDeterminant
<1> SUFFICES ASSUME det = 0 PROVE FALSE
  BY <1>1, Zenon
<1>2. \A j, k \in 1..3 : NormalEntry(P, j, k) \in Int
  <2> SUFFICES ASSUME NEW j \in 1..3, NEW k \in 1..3
               PROVE  NormalEntry(P, j, k) \in Int
    OBVIOUS
  <2>1. PICK t : IsSums(P, t, j, k)
    BY EntrySums
  <2>2. Len(P) \in 0..Len(P)
    BY Place
  <2> QED
    BY <2>1, <2>2 DEF IsSums
<1>3. /\ xx \in Int /\ xy \in Int /\ yy \in Int
      /\ x1 \in Int /\ y1 \in Int /\ n \in Int
  BY <1>2
<1>4. ASSUME NEW v1 \in Int, NEW v2 \in Int, NEW v3 \in Int,
             Form(v1, v2, v3, xx, xy, yy, x1, y1, n) = 0
      PROVE  zero(v1, v2, v3)
  BY <1>4, FormIsSumOfSquares
<1>5. ASSUME NEW v1 \in Int, NEW v2 \in Int, NEW v3 \in Int, zero(v1, v2, v3)
      PROVE  v1 = 0 /\ v2 = 0
  BY <1>5, LinesAreDegenerate DEF OnLine
<1> HIDE DEF xx, xy, yy, x1, y1, n
<1>6. a \in Int /\ b \in Int /\ c \in Int
  BY <1>3
<1>7. Form(a, b, c, xx, xy, yy, x1, y1, n) = 0
  <2>1. Form(a, b, c, xx, xy, yy, x1, y1, n) = c * det
    BY <1>3 DEF Form
  <2> QED
    BY <1>6, <2>1
<1>8. zero(a, b, c)
  BY <1>4, <1>6, <1>7
<1>9. a = 0 /\ b = 0
  BY <1>5, <1>6, <1>8
<1>10. c = 0
  <2> HIDE DEF a, b, c
  <2>1. PICK i \in ActivePoints(P) : TRUE
    OBVIOUS
  <2>2. 0 * P[i].x + 0 * P[i].y + c = 0
    BY <1>8, <1>9
  <2>3. P[i].x \in Int /\ P[i].y \in Int
    BY Place
  <2> QED
    BY <1>6, <2>2, <2>3
<1>11. Form(yy, -xy, 0, xx, xy, yy, x1, y1, n) = 0
  <2>1. Form(yy, -xy, 0, xx, xy, yy, x1, y1, n) = yy * c
    BY <1>3 DEF Form
  <2> QED
    BY <1>3, <1>10, <2>1
<1>12. yy = 0
  <2>1. -xy \in Int /\ 0 \in Int
    BY <1>3
  <2> HIDE DEF zero
  <2>2. zero(yy, -xy, 0)
    BY <1>3, <1>4, <1>11, <2>1
  <2> QED
    BY <1>3, <1>5, <2>1, <2>2
<1>13. Form(0, 1, 0, xx, xy, yy, x1, y1, n) = 0
  BY <1>3, <1>12 DEF Form
<1> QED
  <2>1. 0 \in Int /\ 1 \in Int /\ ~(1 = 0)
    OBVIOUS
  <2> HIDE DEF zero
  <2>2. zero(0, 1, 0)
    BY <1>4, <1>13, <2>1
  <2> QED
    BY <1>5, <2>1, <2>2

LEMMA ReadyListsFit ==
  ASSUME NEW P \in Seq(Point), Ready(P)
  PROVE  Fits(P)
<1>1. /\ Cardinality(ActivePoints(P)) >= 4
      /\ \A q \in 0..3 : QuadrantCounts(P)[q] # 0
      /\ ~Degenerate(P)
  BY DEF Ready
<1>2. \A q \in 0..3 : QuadrantCounts(P)[q] \in Nat
  <2> SUFFICES ASSUME NEW q \in 0..3
               PROVE  QuadrantCounts(P)[q] \in Nat
    OBVIOUS
  <2> DEFINE I == {i \in ActivePoints(P) : Quadrant(P[i]) = q}
  <2>1. QuadrantCounts(P)[q] = Cardinality(I)
    BY DEF QuadrantCounts
  <2>2. IsFiniteSet(ActivePoints(P)) /\ I \in SUBSET ActivePoints(P)
    BY Place
  <2> HIDE DEF I
  <2> QED
    BY <2>1, <2>2, FS_Subset, FS_CardinalityType
<1>3. \A q \in 0..3 : QuadrantCounts(P)[q] > 0
  BY <1>1, <1>2
<1>4. Distribution(P)
  BY <1>1, <1>3, QuadrantsCovered
<1>5. ActivePoints(P) # {}
  <2> SUFFICES ASSUME ActivePoints(P) = {} PROVE FALSE
    OBVIOUS
  <2>1. Cardinality(ActivePoints(P)) = 0
    BY FS_EmptySet, Zenon
  <2> QED
    BY <1>1, <2>1
<1> QED
  BY <1>1, <1>4, <1>5, CoveredFit DEF Fits

-------------------------------------------------------------------------------
(* The sample                                                               *)

(* Of some points there is one with the lowest hash, and it is drawn.       *)
LEMMA LowestFacts ==
  ASSUME NEW P \in Seq(Point), NEW I, I \subseteq DOMAIN P, I # {}
  PROVE  \E i \in I : /\ LowestOf(P, I) = P[i].id
                      /\ \A j \in I : HashRank[P[i].id] <= HashRank[P[j].id]
<1> DEFINE S == {HashRank[P[i].id] : i \in I}
           lowest(p) == \A i \in I : HashRank[p.id] <= HashRank[P[i].id]
           R == {P[i] : i \in I}
<1>1. \A i \in I : HashRank[P[i].id] \in Nat
  <2>1. \A i \in I : P[i].id \in 1..MaxPoints
    BY Place
  <2> QED
    BY <2>1, GeorefAssumption
<1>2. PICK m \in S : \A k \in S : m <= k
  <2>1. S \subseteq Nat /\ S # {}
    BY <1>1
  <2> HIDE DEF S
  <2> QED
    BY <2>1, LeastOf
<1>3. PICK i \in I : m = HashRank[P[i].id]
  BY <1>2
<1>4. P[i] \in R /\ lowest(P[i])
  BY <1>2, <1>3
<1> DEFINE p == CHOOSE p \in R : lowest(p)
<1>5. p \in R /\ lowest(p)
  BY <1>4, Zenon
<1>6. LowestOf(P, I) = p.id
  BY Zenon DEF LowestOf
<1>7. PICK j \in I : p = P[j]
  BY <1>5
<1> QED
  BY <1>5, <1>6, <1>7, Zenon

UniqueIds(P) ==
  \A i, j \in ActivePoints(P) : P[i].id = P[j].id => i = j

SameInUse(P, Q) ==
  /\ \A i \in ActivePoints(P) : \E j \in ActivePoints(Q) : Q[j] = P[i]
  /\ \A j \in ActivePoints(Q) : \E i \in ActivePoints(P) : P[i] = Q[j]

LEMMA SameNumber ==
  ASSUME NEW P \in Seq(Point), NEW Q \in Seq(Point),
         UniqueIds(P), UniqueIds(Q), SameInUse(P, Q)
  PROVE  Cardinality(ActivePoints(P)) = Cardinality(ActivePoints(Q))
<1> DEFINE A == ActivePoints(P)
           B == ActivePoints(Q)
           f == [i \in A |-> CHOOSE j \in B : Q[j] = P[i]]
<1>1. \A i \in A : f[i] \in B /\ Q[f[i]] = P[i]
  BY Zenon DEF SameInUse
<1>2. f \in [A -> B]
  BY <1>1
<1> HIDE DEF f
<1>3. ASSUME NEW i \in A, NEW j \in A, f[i] = f[j] PROVE i = j
  BY <1>1, <1>3 DEF UniqueIds
<1>4. ASSUME NEW j \in B PROVE \E i \in A : f[i] = j
  <2>1. PICK i \in A : P[i] = Q[j]
    BY DEF SameInUse
  <2>2. f[i] \in B /\ Q[f[i]] = Q[j]
    BY <1>1, <2>1
  <2> QED
    BY <2>1, <2>2, Zenon DEF UniqueIds
<1>5. f \in Bijection(A, B)
  BY <1>2, <1>3, <1>4 DEF Bijection, Injection, IsInjective, Surjection
<1>6. ExistsBijection(A, B)
  BY <1>5 DEF ExistsBijection
<1> QED
  BY <1>6, Place, FS_Bijection

LEMMA SameCentre ==
  ASSUME NEW P, NEW Q, SameInUse(P, Q)
  PROVE  Centre(P) = Centre(Q)
<1>1. {P[i].x : i \in ActivePoints(P)} = {Q[i].x : i \in ActivePoints(Q)}
  <2>1. \A i \in ActivePoints(P) : \E j \in ActivePoints(Q) : Q[j].x = P[i].x
    BY DEF SameInUse
  <2>2. \A j \in ActivePoints(Q) : \E i \in ActivePoints(P) : Q[j].x = P[i].x
    BY DEF SameInUse
  <2> QED
    BY <2>1, <2>2
<1>2. {P[i].y : i \in ActivePoints(P)} = {Q[i].y : i \in ActivePoints(Q)}
  <2>1. \A i \in ActivePoints(P) : \E j \in ActivePoints(Q) : Q[j].y = P[i].y
    BY DEF SameInUse
  <2>2. \A j \in ActivePoints(Q) : \E i \in ActivePoints(P) : Q[j].y = P[i].y
    BY DEF SameInUse
  <2> QED
    BY <2>1, <2>2
<1> QED
  BY <1>1, <1>2, Zenon DEF Centre

LEMMA SameZone ==
  ASSUME NEW P, NEW Q, SameInUse(P, Q), NEW z, NEW i \in Zone(P, z)
  PROVE  \E j \in Zone(Q, z) : Q[j] = P[i]
<1>1. i \in ActivePoints(P)
  BY DEF Zone
<1>2. PICK j \in ActivePoints(Q) : Q[j] = P[i]
  BY <1>1 DEF SameInUse
<1>3. j \in Zone(Q, z)
  BY <1>2, SameCentre DEF Zone
<1> QED
  BY <1>2, <1>3

(* The sample depends on the points in use only.                            *)
LEMMA SameSample ==
  ASSUME NEW P \in Seq(Point), NEW Q \in Seq(Point),
         UniqueIds(P), UniqueIds(Q), SameInUse(P, Q)
  PROVE  Sample(P) = Sample(Q)
<1>1. Cardinality(ActivePoints(P)) = Cardinality(ActivePoints(Q))
  BY SameNumber
<1>2. {P[i].id : i \in ActivePoints(P)} = {Q[i].id : i \in ActivePoints(Q)}
  <2>1. \A i \in ActivePoints(P) : \E j \in ActivePoints(Q) : Q[j].id = P[i].id
    BY DEF SameInUse
  <2>2. \A j \in ActivePoints(Q) : \E i \in ActivePoints(P) : Q[j].id = P[i].id
    BY DEF SameInUse
  <2> QED
    BY <2>1, <2>2
<1>3. SameInUse(Q, P)
  BY DEF SameInUse
<1>4. ASSUME NEW z \in 0..3
      PROVE  /\ Zone(P, z) # {} <=> Zone(Q, z) # {}
             /\ Zone(P, z) # {} => LowestOf(P, Zone(P, z)) = LowestOf(Q, Zone(Q, z))
  <2>1. \A i \in Zone(P, z) : \E j \in Zone(Q, z) : Q[j] = P[i]
    BY SameZone
  <2>2. \A j \in Zone(Q, z) : \E i \in Zone(P, z) : P[i] = Q[j]
    BY <1>3, SameZone
  <2>3. Zone(P, z) # {} <=> Zone(Q, z) # {}
    BY <2>1, <2>2
  <2>4. ASSUME Zone(P, z) # {}
        PROVE  LowestOf(P, Zone(P, z)) = LowestOf(Q, Zone(Q, z))
    <3>1. Zone(P, z) \subseteq DOMAIN P /\ Zone(Q, z) \subseteq DOMAIN Q
      BY DEF Zone, ActivePoints
    <3>2. PICK i \in Zone(P, z) :
            /\ LowestOf(P, Zone(P, z)) = P[i].id
            /\ \A k \in Zone(P, z) : HashRank[P[i].id] <= HashRank[P[k].id]
      BY <2>4, <3>1, LowestFacts
    <3>3. PICK j \in Zone(Q, z) :
            /\ LowestOf(Q, Zone(Q, z)) = Q[j].id
            /\ \A k \in Zone(Q, z) : HashRank[Q[j].id] <= HashRank[Q[k].id]
      BY <2>3, <2>4, <3>1, LowestFacts
    <3>4. HashRank[P[i].id] <= HashRank[Q[j].id]
      BY <2>2, <3>2
    <3>5. HashRank[Q[j].id] <= HashRank[P[i].id]
      BY <2>1, <3>3
    <3>6. P[i].id \in 1..MaxPoints /\ Q[j].id \in 1..MaxPoints
      BY <3>1, Place
    <3>7. HashRank[P[i].id] = HashRank[Q[j].id]
      <4>1. HashRank[P[i].id] \in Nat /\ HashRank[Q[j].id] \in Nat
        BY <3>6, GeorefAssumption
      <4> QED
        BY <3>4, <3>5, <4>1
    <3>8. P[i].id = Q[j].id
      BY <3>6, <3>7, GeorefAssumption
    <3> QED
      BY <3>2, <3>3, <3>8
  <2> QED
    BY <2>3, <2>4
<1>5. {LowestOf(P, Zone(P, z)) : z \in {z \in 0..3 : Zone(P, z) # {}}}
        = {LowestOf(Q, Zone(Q, z)) : z \in {z \in 0..3 : Zone(Q, z) # {}}}
  BY <1>4
<1> QED
  BY <1>1, <1>2, <1>5, Zenon DEF Sample

LEMMA SwappedFacts ==
  ASSUME NEW P \in Seq(Point), UniqueIds(P), NEW i \in DOMAIN P, NEW j \in DOMAIN P
  PROVE  /\ Swapped(P, i, j) \in Seq(Point)
         /\ UniqueIds(Swapped(P, i, j))
         /\ SameInUse(P, Swapped(P, i, j))
<1> DEFINE Q == Swapped(P, i, j)
           g(k) == IF k = i THEN j ELSE IF k = j THEN i ELSE k
<1>1. P[i] \in Point /\ P[j] \in Point
  BY Place
<1>2. Q \in Seq(Point) /\ DOMAIN Q = DOMAIN P
  BY <1>1 DEF Swapped
<1>3. \A k \in DOMAIN P : Q[k] = P[g(k)] /\ g(k) \in DOMAIN P /\ g(g(k)) = k
  BY DEF Swapped
<1> HIDE DEF Q, g
<1>4. \A k \in DOMAIN P : k \in ActivePoints(Q) <=> g(k) \in ActivePoints(P)
  BY <1>2, <1>3 DEF ActivePoints
<1>5. ActivePoints(P) \subseteq DOMAIN P /\ ActivePoints(Q) \subseteq DOMAIN P
  BY <1>2 DEF ActivePoints
<1>6. UniqueIds(Q)
  <2> SUFFICES ASSUME NEW k \in ActivePoints(Q), NEW l \in ActivePoints(Q),
                      Q[k].id = Q[l].id
               PROVE  k = l
    BY DEF UniqueIds
  <2>1. k \in DOMAIN P /\ l \in DOMAIN P
    BY <1>5
  <2>2. P[g(k)].id = P[g(l)].id
    BY <1>3, <2>1
  <2>3. g(k) = g(l)
    BY <1>4, <2>1, <2>2 DEF UniqueIds
  <2> QED
    BY <1>3, <2>1, <2>3
<1>7. SameInUse(P, Q)
  <2>1. ASSUME NEW k \in ActivePoints(P)
        PROVE  \E l \in ActivePoints(Q) : Q[l] = P[k]
    <3>1. g(k) \in ActivePoints(Q)
      BY <1>3, <1>4, <1>5
    <3>2. Q[g(k)] = P[k]
      BY <1>3, <1>5
    <3> QED
      BY <3>1, <3>2
  <2>2. ASSUME NEW k \in ActivePoints(Q)
        PROVE  \E l \in ActivePoints(P) : P[l] = Q[k]
    BY <1>3, <1>4, <1>5
  <2> QED
    BY <2>1, <2>2 DEF SameInUse
<1> QED
  BY <1>2, <1>6, <1>7 DEF Q

LEMMA WithoutFacts ==
  ASSUME NEW P \in Seq(Point), UniqueIds(P),
         NEW i \in DOMAIN P, i \notin ActivePoints(P)
  PROVE  /\ Without(P, i) \in Seq(Point)
         /\ UniqueIds(Without(P, i))
         /\ SameInUse(P, Without(P, i))
<1> DEFINE Q == Without(P, i)
           n == Len(P)
           g(k) == IF k < i THEN k ELSE k + 1
<1>1. n \in Nat /\ DOMAIN P = 1..n /\ i \in 1..n
  BY Place
<1>2. \A k \in 1..n : P[k] \in Point
  BY <1>1, Place
<1>3. /\ DOMAIN Q = 1..(n - 1)
      /\ \A k \in 1..(n - 1) : Q[k] = P[g(k)] /\ g(k) \in 1..n
  <2>1. DOMAIN Q = 1..(n - 1)
    BY DEF Without
  <2>2. \A k \in 1..(n - 1) : Q[k] = IF k < i THEN P[k] ELSE P[k + 1]
    BY DEF Without
  <2>3. ASSUME NEW k \in 1..(n - 1) PROVE Q[k] = P[g(k)] /\ g(k) \in 1..n
    <3>1. CASE k < i
      BY <1>1, <2>2, <3>1
    <3>2. CASE ~(k < i)
      BY <1>1, <2>2, <3>2
    <3> QED
      BY <3>1, <3>2
  <2> QED
    BY <2>1, <2>3
<1>4. \A k, l \in 1..(n - 1) : g(k) = g(l) => k = l
  BY <1>1
<1>5. \A l \in (1..n) \ {i} : \E k \in 1..(n - 1) : g(k) = l
  <2> SUFFICES ASSUME NEW l \in (1..n) \ {i}
               PROVE  \E k \in 1..(n - 1) : g(k) = l
    OBVIOUS
  <2>1. CASE l < i
    <3>1. l \in 1..(n - 1) /\ g(l) = l
      BY <1>1, <2>1
    <3> QED
      BY <3>1
  <2>2. CASE ~(l < i)
    <3>1. l - 1 \in 1..(n - 1) /\ g(l - 1) = l
      BY <1>1, <2>2
    <3> QED
      BY <3>1
  <2> QED
    BY <2>1, <2>2
<1>6. Q \in Seq(Point)
  <2>1. Q = [k \in 1..(n - 1) |-> Q[k]]
    BY DEF Without
  <2>2. \A k \in 1..(n - 1) : Q[k] \in Point
    BY <1>2, <1>3
  <2>3. n - 1 \in Nat
    BY <1>1
  <2> HIDE DEF Q
  <2>4. Q \in [1..(n - 1) -> Point]
    BY <2>1, <2>2
  <2> QED
    BY <2>3, <2>4
<1> HIDE DEF Q, g
<1>7. UniqueIds(Q)
  <2> SUFFICES ASSUME NEW k \in ActivePoints(Q), NEW l \in ActivePoints(Q),
                      Q[k].id = Q[l].id
               PROVE  k = l
    BY DEF UniqueIds
  <2>1. k \in 1..(n - 1) /\ l \in 1..(n - 1) /\ Q[k].active /\ Q[l].active
    BY <1>3 DEF ActivePoints
  <2>2. g(k) \in ActivePoints(P) /\ g(l) \in ActivePoints(P)
    BY <1>1, <1>3, <2>1 DEF ActivePoints
  <2>3. g(k) = g(l)
    BY <1>3, <2>1, <2>2 DEF UniqueIds
  <2> QED
    BY <1>4, <2>1, <2>3
<1>8. SameInUse(P, Q)
  <2>1. ASSUME NEW k \in ActivePoints(P)
        PROVE  \E l \in ActivePoints(Q) : Q[l] = P[k]
    <3>1. k \in (1..n) \ {i} /\ P[k].active
      BY <1>1 DEF ActivePoints
    <3>2. PICK l \in 1..(n - 1) : g(l) = k
      BY <1>5, <3>1
    <3>3. Q[l] = P[k]
      BY <1>3, <3>2
    <3> QED
      BY <1>3, <3>1, <3>2, <3>3 DEF ActivePoints
  <2>2. ASSUME NEW k \in ActivePoints(Q)
        PROVE  \E l \in ActivePoints(P) : P[l] = Q[k]
    <3>1. k \in 1..(n - 1) /\ Q[k].active
      BY <1>3 DEF ActivePoints
    <3>2. Q[k] = P[g(k)] /\ g(k) \in ActivePoints(P)
      BY <1>1, <1>3, <3>1 DEF ActivePoints
    <3> QED
      BY <3>2
  <2> QED
    BY <2>1, <2>2 DEF SameInUse
<1> QED
  BY <1>6, <1>7, <1>8 DEF Q

LEMMA ListsAreSampledAsSets == PointList(points) => SampleIsOfTheSet
<1> SUFFICES ASSUME PointList(points) PROVE SampleIsOfTheSet
  OBVIOUS
<1>1. points \in Seq(Point) /\ UniqueIds(points)
  BY DEF PointList, UniqueIds, ActivePoints
<1>2. ASSUME NEW i \in DOMAIN points, NEW j \in DOMAIN points
      PROVE  Sample(Swapped(points, i, j)) = Sample(points)
  BY <1>1, SwappedFacts, SameSample
<1>3. ASSUME NEW i \in DOMAIN points \ ActivePoints(points)
      PROVE  Sample(Without(points, i)) = Sample(points)
  BY <1>1, WithoutFacts, SameSample
<1> QED
  BY <1>2, <1>3 DEF SampleIsOfTheSet

(* Every point in use is represented by a drawn one on the same sides of    *)
(* the centre.                                                              *)
LEMMA Represented ==
  ASSUME NEW P, PointList(P), Cardinality(ActivePoints(P)) >= 4,
         NEW i \in ActivePoints(P)
  PROVE  \E d \in ActivePoints(P) :
           /\ P[d].id \in Sample(P)
           /\ 2 * P[d].x >= Centre(P)[1] <=> 2 * P[i].x >= Centre(P)[1]
           /\ 2 * P[d].y >= Centre(P)[2] <=> 2 * P[i].y >= Centre(P)[2]
<1> DEFINE c == Centre(P)
           in(p) == (IF 2 * p.x >= c[1] THEN 1 ELSE 0)
                      + (IF 2 * p.y >= c[2] THEN 2 ELSE 0)
           z == in(P[i])
<1>1. P \in Seq(Point)
  BY DEF PointList
<1>2. \A k, l : k \in Zone(P, l) <=> k \in ActivePoints(P) /\ in(P[k]) = l
  BY Zenon DEF Zone
<1>3. z \in 0..3 /\ i \in Zone(P, z)
  BY <1>2
<1>4. Zone(P, z) \subseteq DOMAIN P
  BY DEF Zone, ActivePoints
<1> HIDE DEF z
<1>5. PICK d \in Zone(P, z) : LowestOf(P, Zone(P, z)) = P[d].id
  BY <1>1, <1>3, <1>4, LowestFacts
<1>6. P[d].id \in Sample(P)
  <2>1. ~(Cardinality(ActivePoints(P)) <= 3)
    BY <1>1, Place
  <2> QED
    BY <1>3, <1>5, <2>1, Zenon DEF Sample
<1>7. d \in ActivePoints(P) /\ in(P[d]) = in(P[i])
  BY <1>2, <1>5 DEF z
<1> QED
  BY <1>6, <1>7

Lo(A, c) == Min({c[i] : i \in A})
Hi(A, c) == Max({c[i] : i \in A})

LEMMA Bounds ==
  ASSUME NEW A, A # {}, NEW n \in Nat, NEW c \in [A -> Nat], \A i \in A : c[i] <= n
  PROVE  /\ Lo(A, c) \in Nat /\ Hi(A, c) \in Nat
         /\ \A i \in A : Lo(A, c) <= c[i] /\ c[i] <= Hi(A, c)
         /\ \E i \in A : c[i] = Lo(A, c)
         /\ \E i \in A : c[i] = Hi(A, c)
<1> DEFINE S == {c[i] : i \in A}
<1>1. S \subseteq 0..n /\ S # {} /\ \A i \in A : c[i] \in S
  OBVIOUS
<1>2. S \subseteq Nat /\ \A k \in S : \E i \in A : c[i] = k
  OBVIOUS
<1> HIDE DEF S
<1>3. /\ Min(S) \in S /\ \A k \in S : Min(S) <= k
      /\ Max(S) \in S /\ \A k \in S : k <= Max(S)
  BY <1>1, MinMax
<1>4. Lo(A, c) = Min(S) /\ Hi(A, c) = Max(S)
  BY DEF Lo, Hi, S
<1> QED
  BY <1>1, <1>2, <1>3, <1>4

(* Where every point is represented on its side of the middle, and the      *)
(* points extend in the direction c, points on both sides represent them.   *)
LEMMA SpreadsAlong ==
  ASSUME NEW A, A # {}, NEW n \in Nat, NEW c \in [A -> Nat], \A i \in A : c[i] <= n,
         NEW D, D \subseteq A,
         \A i \in A : \E d \in D :
           2 * c[d] >= Lo(A, c) + Hi(A, c) <=> 2 * c[i] >= Lo(A, c) + Hi(A, c),
         Lo(A, c) < Hi(A, c)
  PROVE  \E d, e \in D : /\ 2 * c[d] < Lo(A, c) + Hi(A, c)
                         /\ 2 * c[e] >= Lo(A, c) + Hi(A, c)
                         /\ d # e
<1> DEFINE m == Lo(A, c) + Hi(A, c)
<1>1. Lo(A, c) \in Nat /\ Hi(A, c) \in Nat
  BY Bounds
<1>2. PICK i \in A : c[i] = Lo(A, c)
  BY Bounds
<1>3. PICK j \in A : c[j] = Hi(A, c)
  BY Bounds
<1>4. 2 * c[i] < m /\ 2 * c[j] >= m
  BY <1>1, <1>2, <1>3
<1>5. PICK d \in D : 2 * c[d] >= m <=> 2 * c[i] >= m
  OBVIOUS
<1>6. PICK e \in D : 2 * c[e] >= m <=> 2 * c[j] >= m
  OBVIOUS
<1>7. c[d] \in Nat /\ c[i] \in Nat /\ m \in Nat
  BY <1>1
<1> HIDE DEF m
<1>8. 2 * c[d] < m /\ 2 * c[e] >= m
  BY <1>4, <1>5, <1>6, <1>7
<1>9. d # e
  BY <1>7, <1>8
<1> QED
  BY <1>8, <1>9 DEF m

(* No more points are drawn than there are parts of the box.                *)
LEMMA AtMostFour ==
  ASSUME NEW P, PointList(P), Cardinality(ActivePoints(P)) >= 4
  PROVE  LET D == {i \in ActivePoints(P) : P[i].id \in Sample(P)}
         IN  IsFiniteSet(D) /\ Cardinality(D) \in Nat /\ Cardinality(D) <= 4
<1> DEFINE A == ActivePoints(P)
           D == {i \in A : P[i].id \in Sample(P)}
           Z == {z \in 0..3 : Zone(P, z) # {}}
           low(z) == LowestOf(P, Zone(P, z))
           f == [i \in D |-> CHOOSE z \in Z : low(z) = i]
<1>1. P \in Seq(Point) /\ \A i \in A : P[i].id = i
  BY DEF PointList, ActivePoints
<1>2. Sample(P) = {low(z) : z \in Z}
  <2>1. ~(Cardinality(A) <= 3)
    BY <1>1, Place
  <2> QED
    BY <2>1, Zenon DEF Sample
<1>3. \A i \in D : \E z \in Z : low(z) = i
  BY <1>1, <1>2
<1> HIDE DEF low, Z, D
<1>4. \A i \in D : f[i] \in Z /\ low(f[i]) = i
  BY <1>3, Zenon
<1>5. f \in [D -> Z]
  BY <1>4
<1> HIDE DEF f
<1>6. f \in Injection(D, Z)
  BY <1>4, <1>5 DEF Injection, IsInjective
<1>7. IsFiniteSet(0..3) /\ Cardinality(0..3) = 4
  <2>1. 0 \in Int /\ 3 \in Int /\ ~(0 > 3) /\ 3 - 0 + 1 = 4
    OBVIOUS
  <2> QED
    BY <2>1, FS_Interval
<1>8. IsFiniteSet(Z) /\ Cardinality(Z) <= 4 /\ Cardinality(Z) \in Nat
  <2>1. Z \in SUBSET (0..3)
    BY DEF Z
  <2>2. IsFiniteSet(Z) /\ Cardinality(Z) <= Cardinality(0..3)
    BY <1>7, <2>1, FS_Subset
  <2> QED
    BY <1>7, <2>2, FS_CardinalityType
<1>9. IsFiniteSet(D) /\ Cardinality(D) <= Cardinality(Z)
  BY <1>6, <1>8, FS_Injection
<1>10. Cardinality(D) \in Nat /\ Cardinality(D) <= 4
  BY <1>8, <1>9, FS_CardinalityType
<1> QED
  BY <1>9, <1>10 DEF D

LEMMA TwoElements ==
  ASSUME NEW D, IsFiniteSet(D), NEW i \in D, NEW j \in D, i # j
  PROVE  Cardinality(D) >= 2
<1>1. IsFiniteSet({i}) /\ Cardinality({i}) = 1
  BY FS_Singleton
<1>2. IsFiniteSet({i} \cup {j}) /\ Cardinality({i} \cup {j}) = 1 + 1
  BY <1>1, FS_AddElement
<1>3. {i} \cup {j} \in SUBSET D
  OBVIOUS
<1>4. Cardinality({i} \cup {j}) <= Cardinality(D)
  BY <1>3, FS_Subset
<1>5. Cardinality(D) \in Nat
  BY FS_CardinalityType
<1> QED
  BY <1>2, <1>4, <1>5

LEMMA ListsSpread == PointList(points) => SampleSpreads
<1> DEFINE A == ActivePoints(points)
           drawn == {i \in A : points[i].id \in Sample(points)}
           xs == [i \in A |-> points[i].x]
           ys == [i \in A |-> points[i].y]
           apart(c) == \E d, e \in drawn : /\ 2 * c[d] < Lo(A, c) + Hi(A, c)
                                           /\ 2 * c[e] >= Lo(A, c) + Hi(A, c)
                                           /\ d # e
<1> SUFFICES ASSUME PointList(points), Cardinality(A) >= 4
             PROVE  /\ Cardinality(drawn) \in 2..4
                    /\ Lo(A, xs) < Hi(A, xs) => apart(xs)
                    /\ Lo(A, ys) < Hi(A, ys) => apart(ys)
  BY Zenon DEF SampleSpreads, Lo, Hi
<1>1. points \in Seq(Point)
  BY DEF PointList
<1>2. /\ \A i \in A : points[i].x \in 0..Width /\ points[i].y \in 0..Height
      /\ IsFiniteSet(A) /\ Width \in Nat /\ Height \in Nat
  BY <1>1, Place, GeorefAssumption DEF ActivePoints
<1>3. A # {}
  <2> SUFFICES ASSUME A = {} PROVE FALSE
    OBVIOUS
  <2>1. Cardinality(A) = 0
    BY FS_EmptySet, Zenon
  <2> QED
    BY <2>1
<1>4. /\ xs \in [A -> Nat] /\ \A i \in A : xs[i] = points[i].x /\ xs[i] <= Width
      /\ ys \in [A -> Nat] /\ \A i \in A : ys[i] = points[i].y /\ ys[i] <= Height
  BY <1>2
<1>5. Centre(points) = <<Lo(A, xs) + Hi(A, xs), Lo(A, ys) + Hi(A, ys)>>
  <2>1. {points[i].x : i \in A} = {xs[i] : i \in A}
    BY <1>4
  <2>2. {points[i].y : i \in A} = {ys[i] : i \in A}
    BY <1>4
  <2> QED
    BY <2>1, <2>2, Zenon DEF Centre, Lo, Hi
<1>6. ASSUME NEW i \in A
      PROVE  \E d \in drawn :
               /\ 2 * xs[d] >= Lo(A, xs) + Hi(A, xs) <=> 2 * xs[i] >= Lo(A, xs) + Hi(A, xs)
               /\ 2 * ys[d] >= Lo(A, ys) + Hi(A, ys) <=> 2 * ys[i] >= Lo(A, ys) + Hi(A, ys)
  <2>1. PICK d \in A :
          /\ points[d].id \in Sample(points)
          /\ 2 * points[d].x >= Centre(points)[1]
               <=> 2 * points[i].x >= Centre(points)[1]
          /\ 2 * points[d].y >= Centre(points)[2]
               <=> 2 * points[i].y >= Centre(points)[2]
    BY Represented
  <2>2. /\ Centre(points)[1] = Lo(A, xs) + Hi(A, xs)
        /\ Centre(points)[2] = Lo(A, ys) + Hi(A, ys)
    BY <1>5
  <2>3. /\ xs[d] = points[d].x /\ xs[i] = points[i].x
        /\ ys[d] = points[d].y /\ ys[i] = points[i].y
    BY <1>4
  <2>4. d \in drawn
    BY <2>1
  <2> HIDE DEF xs, ys, drawn
  <2> QED
    BY <2>1, <2>2, <2>3, <2>4
<1>7. drawn \subseteq A
  OBVIOUS
<1>8. IsFiniteSet(drawn) /\ Cardinality(drawn) \in Nat /\ Cardinality(drawn) <= 4
  BY AtMostFour, Zenon
<1> HIDE DEF xs, ys, drawn
<1>9. Lo(A, xs) < Hi(A, xs) => apart(xs)
  <2>1. \A i \in A : \E d \in drawn :
          2 * xs[d] >= Lo(A, xs) + Hi(A, xs) <=> 2 * xs[i] >= Lo(A, xs) + Hi(A, xs)
    BY <1>6
  <2> QED
    BY <1>2, <1>3, <1>4, <1>7, <2>1, SpreadsAlong
<1>10. Lo(A, ys) < Hi(A, ys) => apart(ys)
  <2>1. \A i \in A : \E d \in drawn :
          2 * ys[d] >= Lo(A, ys) + Hi(A, ys) <=> 2 * ys[i] >= Lo(A, ys) + Hi(A, ys)
    BY <1>6
  <2> QED
    BY <1>2, <1>3, <1>4, <1>7, <2>1, SpreadsAlong
<1>11. Lo(A, xs) < Hi(A, xs) \/ Lo(A, ys) < Hi(A, ys)
  <2> SUFFICES ASSUME ~(Lo(A, xs) < Hi(A, xs)), ~(Lo(A, ys) < Hi(A, ys)) PROVE FALSE
    OBVIOUS
  <2>1. /\ Lo(A, xs) \in Nat /\ Hi(A, xs) \in Nat
        /\ \A i \in A : Lo(A, xs) <= xs[i] /\ xs[i] <= Hi(A, xs)
    BY <1>2, <1>3, <1>4, Bounds
  <2>2. /\ Lo(A, ys) \in Nat /\ Hi(A, ys) \in Nat
        /\ \A i \in A : Lo(A, ys) <= ys[i] /\ ys[i] <= Hi(A, ys)
    BY <1>2, <1>3, <1>4, Bounds
  <2>3. \A i \in A : xs[i] \in Nat /\ ys[i] \in Nat
    BY <1>4
  <2>4. \A i, j \in A : xs[i] = xs[j] /\ ys[i] = ys[j]
    BY <2>1, <2>2, <2>3
  <2>5. \A i, j \in A : i = j
    BY <1>4, <2>4 DEF PointList
  <2>6. PICK i \in A : TRUE
    BY <1>3
  <2>7. A = {i}
    BY <2>5
  <2>8. Cardinality(A) = 1
    BY <2>7, FS_Singleton, Zenon
  <2> QED
    BY <2>8
<1>12. Cardinality(drawn) >= 2
  <2>1. \E d, e \in drawn : d # e
    BY <1>9, <1>10, <1>11
  <2> QED
    BY <1>8, <2>1, TwoElements
<1>13. Cardinality(drawn) \in 2..4
  BY <1>8, <1>12
<1> QED
  BY <1>9, <1>10, <1>13

-------------------------------------------------------------------------------
(* The theorems                                                             *)

(* CoverageAgrees: the three places that decide on coverage agree, for      *)
(* every size of the image.                                                 *)
THEOREM CoverageIsAgreed == GeorefSpec => []CoverageAgrees
<1>1. PointList(points) => CoverageAgrees
  BY ListsAreCovered DEF PointList
<1> QED
  BY <1>1, PointListInvariant, PTL

(* ReadyFits: the normal matrix of a set that Diagnose calls ready is       *)
(* regular, so Fit solves it.                                               *)
THEOREM ReadySetsFit == GeorefSpec => []ReadyFits
<1>1. PointList(points) => ReadyFits
  BY ReadyListsFit DEF PointList, ReadyFits
<1> QED
  BY <1>1, PointListInvariant, PTL

(* SampleIsOfTheSet: neither order nor points out of use change the sample. *)
THEOREM SamplesAreOfTheSet == GeorefSpec => []SampleIsOfTheSet
  BY ListsAreSampledAsSets, PointListInvariant, PTL

(* SampleSpreads: two to four points are drawn, on both sides of the middle *)
(* in each direction in which the set extends.                              *)
THEOREM SamplesSpread == GeorefSpec => []SampleSpreads
  BY ListsSpread, PointListInvariant, PTL

(***************************************************************************)
(* The numbers that Registration takes as given are of the kind that       *)
(* RulesAssumption says: of two lists with the same records in use, both   *)
(* are covered or none is, both can be evaluated or none can, and the same *)
(* points, which are some of them, are drawn from both.                    *)
(***************************************************************************)
THEOREM RulesAreOfTheSet ==
  ASSUME NEW P \in Seq(Point), NEW Q \in Seq(Point),
         UniqueIds(P), UniqueIds(Q), SameInUse(P, Q)
  PROVE  /\ Distribution(P) <=> Distribution(Q)
         /\ Ready(P) /\ Fits(P) <=> Ready(Q) /\ Fits(Q)
         /\ Sample(P) = Sample(Q)
         /\ Sample(P) \subseteq {P[i].id : i \in ActivePoints(P)}
<1>1. Cardinality(ActivePoints(P)) = Cardinality(ActivePoints(Q))
  BY SameNumber
<1>2. Covered(P) = Covered(Q)
  <2>1. \A i \in ActivePoints(P) : \E j \in ActivePoints(Q) : Q[j] = P[i]
    BY DEF SameInUse
  <2>2. \A j \in ActivePoints(Q) : \E i \in ActivePoints(P) : P[i] = Q[j]
    BY DEF SameInUse
  <2>3. Covered(P) \subseteq Covered(Q)
    BY <2>1 DEF Covered
  <2>4. Covered(Q) \subseteq Covered(P)
    BY <2>2 DEF Covered
  <2> QED
    BY <2>3, <2>4
<1>3. Distribution(P) <=> Distribution(Q)
  BY <1>1, <1>2, QuadrantsCovered
<1>4. ASSUME NEW L \in Seq(Point)
      PROVE  Ready(L) /\ Fits(L) <=> Distribution(L) /\ ~Degenerate(L)
  <2>1. ASSUME Distribution(L), ~Degenerate(L) PROVE Ready(L)
    <3>1. /\ Cardinality(ActivePoints(L)) >= 4
          /\ \A q \in 0..3 : QuadrantCounts(L)[q] > 0
      BY <2>1, QuadrantsCovered
    <3>2. \A q \in 0..3 : QuadrantCounts(L)[q] # 0
      BY <3>1
    <3> QED
      BY <2>1, <3>1, <3>2 DEF Ready
  <2>2. Ready(L) => Fits(L)
    BY ReadyListsFit
  <2> QED
    BY <2>1, <2>2 DEF Ready, Fits
<1>5. ASSUME NEW L, NEW M, SameInUse(L, M), Degenerate(M) PROVE Degenerate(L)
  <2> SUFFICES ASSUME NEW i \in ActivePoints(L), NEW j \in ActivePoints(L),
                      NEW k \in ActivePoints(L)
               PROVE  1000000 * Area(L[i], L[j], L[k]) < Width * Height
    BY DEF Degenerate
  <2>1. /\ \E e \in ActivePoints(M) : M[e] = L[i]
        /\ \E f \in ActivePoints(M) : M[f] = L[j]
        /\ \E g \in ActivePoints(M) : M[g] = L[k]
    BY <1>5 DEF SameInUse
  <2>2. PICK e \in ActivePoints(M) : M[e] = L[i]
    BY <2>1
  <2>3. PICK f \in ActivePoints(M) : M[f] = L[j]
    BY <2>1
  <2>4. PICK g \in ActivePoints(M) : M[g] = L[k]
    BY <2>1
  <2>5. 1000000 * Area(M[e], M[f], M[g]) < Width * Height
    BY <1>5, SMT DEF Degenerate
  <2> QED
    BY <2>2, <2>3, <2>4, <2>5, SMT
<1>6. Degenerate(P) <=> Degenerate(Q)
  <2>1. SameInUse(Q, P)
    BY DEF SameInUse
  <2> QED
    BY <1>5, <2>1
<1>7. Sample(P) \subseteq {P[i].id : i \in ActivePoints(P)}
  <2>1. ASSUME NEW z \in 0..3, Zone(P, z) # {}
        PROVE  LowestOf(P, Zone(P, z)) \in {P[i].id : i \in ActivePoints(P)}
    <3>1. Zone(P, z) \subseteq ActivePoints(P) /\ Zone(P, z) \subseteq DOMAIN P
      BY DEF Zone, ActivePoints
    <3>2. PICK i \in Zone(P, z) : LowestOf(P, Zone(P, z)) = P[i].id
      BY <2>1, <3>1, LowestFacts
    <3> QED
      BY <3>1, <3>2
  <2>2. CASE Cardinality(ActivePoints(P)) <= 3
    BY <2>2 DEF Sample
  <2>3. CASE ~(Cardinality(ActivePoints(P)) <= 3)
    BY <2>1, <2>3, Zenon DEF Sample
  <2> QED
    BY <2>2, <2>3
<1> QED
  BY <1>3, <1>4, <1>6, <1>7, SameSample, Zenon
===============================================================================
