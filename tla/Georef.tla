-------------------------------- MODULE Georef --------------------------------
(***************************************************************************)
(* The pure algorithms of internal/georef, and their copies in             *)
(* internal/domain and internal/app, on whole-number pixels: how the       *)
(* quadrants are counted, when a point set can be fitted, and which points *)
(* are drawn for review.  Registration only assumes that these are         *)
(* functions of the control set; here they are computed.                   *)
(*                                                                         *)
(* The state is the list of points as the store keeps it, in the order in  *)
(* which they were added, with those that were taken out of use.           *)
(***************************************************************************)
EXTENDS Integers, Sequences, FiniteSetsExt

CONSTANTS
  Width, Height, \* the size of the image
  Xs, Ys,        \* the coordinates that points may have
  MaxPoints,     \* bound of the model: the length of the list
  HashRank       \* HashRank[id]: the place of id in the order of the hashes

ASSUME GeorefAssumption ==
  /\ {Width, Height, MaxPoints} \subseteq Nat \ {0}
  /\ Xs \subseteq 0..Width
  /\ Ys \subseteq 0..Height
  /\ HashRank \in [1..MaxPoints -> Nat]
  /\ \A i, j \in 1..MaxPoints : HashRank[i] = HashRank[j] => i = j

VARIABLE points

(***************************************************************************)
(* A point has its place in the list for its id; no two points in use have *)
(* one pixel.                                                              *)
(***************************************************************************)
AddPoint ==
  /\ Len(points) < MaxPoints
  /\ \E x \in Xs, y \in Ys :
       /\ \A i \in DOMAIN points :
            points[i].active => <<points[i].x, points[i].y>> # <<x, y>>
       /\ points' = Append(points, [id |-> Len(points) + 1, x |-> x, y |-> y,
                                    active |-> TRUE])

DeactivatePoint ==
  \E i \in DOMAIN points :
    /\ points[i].active
    /\ points' = [points EXCEPT ![i].active = FALSE]

(* The places of the points in use. *)
ActivePoints(P) == {i \in DOMAIN P : P[i].active}

-------------------------------------------------------------------------------
(* Coverage, three times                                                    *)

(* domain.Distribution: what makes a job solvable, and what Fit requires. *)
Distribution(P) ==
  LET A == ActivePoints(P)
      index(p) == (IF 2 * p.x >= Width THEN 1 ELSE 0)
                    + (IF 2 * p.y >= Height THEN 2 ELSE 0)
  IN Cardinality(A) >= 4 /\ {index(P[i]) : i \in A} = 0..3

(* Mistake: a point on the centre line belongs to the lower half. *)
QuadrantOpen(p) ==
  (IF 2 * p.x > Width THEN 1 ELSE 0) + (IF 2 * p.y > Height THEN 2 ELSE 0)

(* The quadrant that Diagnose counts a point in. *)
Quadrant(p) ==
  (IF 2 * p.x >= Width THEN 1 ELSE 0) + (IF 2 * p.y >= Height THEN 2 ELSE 0)

QuadrantCounts(P) ==
  [q \in 0..3 |-> Cardinality({i \in ActivePoints(P) : Quadrant(P[i]) = q})]

(* Mistake: points out of use are counted. *)
CoveredByAll(P) ==
  /\ Len(P) >= 4
  /\ Cardinality({Quadrant(P[i]) : i \in DOMAIN P}) = 4

(* projectPointSet: what the page is told. *)
DistributionPassed(P) ==
  LET A == ActivePoints(P)
      zone(p) == (IF 2 * p.x >= Width THEN 1 ELSE 0)
                   + (IF 2 * p.y >= Height THEN 2 ELSE 0)
  IN Cardinality(A) >= 4 /\ Cardinality({zone(P[i]) : i \in A}) = 4

-------------------------------------------------------------------------------
(* Readiness and fit                                                        *)

Abs(n) == IF n < 0 THEN -n ELSE n

(* Twice the area of the triangle of three points. *)
Area(p, q, r) ==
  Abs((q.x - p.x) * (r.y - p.y) - (r.x - p.x) * (q.y - p.y))

(* All triples span less than a millionth of the image. *)
Degenerate(P) ==
  \A i, j, k \in ActivePoints(P) :
    1000000 * Area(P[i], P[j], P[k]) < Width * Height

(* No blocking rule of Diagnose holds; the other rules only warn. *)
Ready(P) ==
  /\ Cardinality(ActivePoints(P)) >= 4
  /\ \A q \in 0..3 : QuadrantCounts(P)[q] # 0
  /\ ~Degenerate(P)

(* c[1] + ... + c[n] *)
Total(n, c) ==
  LET t[k \in 0..n] == IF k = 0 THEN 0 ELSE t[k - 1] + c[k]
  IN t[n]

(* What a point adds to one of the two equal blocks of the normal matrix. *)
NormalRow(p) == <<p.x, p.y, 1>>

NormalEntry(P, a, b) ==
  Total(Len(P), [i \in DOMAIN P |->
                   IF P[i].active THEN NormalRow(P[i])[a] * NormalRow(P[i])[b] ELSE 0])

(***************************************************************************)
(* The determinant of that block: solve finds its pivots, but for          *)
(* rounding, if it is not zero.                                            *)
(***************************************************************************)
NormalDeterminant(P) ==
  LET xx == NormalEntry(P, 1, 1)
      xy == NormalEntry(P, 1, 2)
      yy == NormalEntry(P, 2, 2)
      x1 == NormalEntry(P, 1, 3)
      y1 == NormalEntry(P, 2, 3)
      n == NormalEntry(P, 3, 3)
  IN xx * (yy * n - y1 * y1) - xy * (xy * n - y1 * x1) + x1 * (xy * y1 - yy * x1)

(* Fit returns a solution. *)
Fits(P) == Distribution(P) /\ NormalDeterminant(P) # 0

-------------------------------------------------------------------------------
(* The sample                                                               *)

(* Mistake: the sample is drawn from the quadrants of the image. *)
CentreOfImage(P) == <<Width, Height>>

(* Twice the centre of the box around the points in use. *)
Centre(P) ==
  LET xs == {P[i].x : i \in ActivePoints(P)}
      ys == {P[i].y : i \in ActivePoints(P)}
  IN <<Min(xs) + Max(xs), Min(ys) + Max(ys)>>

(* The points in use in one of the four parts of that box. *)
Zone(P, z) ==
  LET c == Centre(P)
      in(p) == (IF 2 * p.x >= c[1] THEN 1 ELSE 0)
                 + (IF 2 * p.y >= c[2] THEN 2 ELSE 0)
  IN {i \in ActivePoints(P) : in(P[i]) = z}

(* Mistake: the first point of a zone is drawn. *)
FirstOf(P, I) == P[Min(I)].id

(* The point with the lowest hash of those with their place in I. *)
LowestOf(P, I) ==
  (CHOOSE p \in {P[i] : i \in I} :
     \A i \in I : HashRank[p.id] <= HashRank[P[i].id]).id

(* All of up to three points; of more, one of every zone. *)
Sample(P) ==
  IF Cardinality(ActivePoints(P)) <= 3
  THEN {P[i].id : i \in ActivePoints(P)}
  ELSE {LowestOf(P, Zone(P, z)) : z \in {z \in 0..3 : Zone(P, z) # {}}}

-------------------------------------------------------------------------------
(* Properties                                                               *)

(* The three places that decide on coverage agree on every point set, on   *)
(* the centre lines of images of even and of odd size too: otherwise a     *)
(* page would be told that a job can be solved that Evaluate refuses.      *)
CoverageAgrees ==
  /\ Distribution(points) <=> DistributionPassed(points)
  /\ Distribution(points) <=> /\ Cardinality(ActivePoints(points)) >= 4
                              /\ \A q \in 0..3 : QuadrantCounts(points)[q] > 0

(* What Diagnose calls ready, Fit can solve: the refusals of Fit and of    *)
(* solve are never the first that an operator hears of.                    *)
ReadyFits == Ready(points) => Fits(points)

(* The list with two places exchanged, and without one of its places. *)
Swapped(P, i, j) == [P EXCEPT ![i] = P[j], ![j] = P[i]]

Without(P, i) == [k \in 1..(Len(P) - 1) |-> IF k < i THEN P[k] ELSE P[k + 1]]

(* The sample depends on the set of points in use only: neither the order  *)
(* in which they were added nor what was taken out of use changes it, so   *)
(* that a reviewer's digest stands for what the operator submitted.        *)
SampleIsOfTheSet ==
  /\ \A i, j \in DOMAIN points :
       Sample(Swapped(points, i, j)) = Sample(points)
  /\ \A i \in DOMAIN points \ ActivePoints(points) :
       Sample(Without(points, i)) = Sample(points)

(* Of four points or more at least two are drawn, and the drawn points lie *)
(* as far apart as the set does: on both sides of the middle between the   *)
(* outermost points, in each direction in which the set extends.           *)
SampleSpreads ==
  LET A == ActivePoints(points)
      drawn == {i \in A : points[i].id \in Sample(points)}
      spread(c) ==
        LET lo == Min({c[i] : i \in A})
            hi == Max({c[i] : i \in A})
        IN lo < hi => /\ \E i \in drawn : 2 * c[i] < lo + hi
                      /\ \E i \in drawn : 2 * c[i] >= lo + hi
  IN Cardinality(A) >= 4 => /\ Cardinality(drawn) \in 2..4
                            /\ spread([i \in A |-> points[i].x])
                            /\ spread([i \in A |-> points[i].y])
===============================================================================
