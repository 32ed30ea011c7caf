------------------------------ MODULE PointRules ------------------------------
(***************************************************************************)
(* The rules a set of control points is judged by: the pixel rules of      *)
(* internal/domain/rules.go, the readiness diagnosis and the quality       *)
(* assessment of internal/georef.                                          *)
(*                                                                         *)
(* A row is the part of a control point a command carries: its id, its     *)
(* pixel position and, in the single field map, everything else the        *)
(* canonical point of ControlSetDigest holds (map coordinates, evidence    *)
(* note).  A pixel is a position as it is printed and stored, so that 0    *)
(* and -0 are two pixels; SamePixel says which are the same number.  A     *)
(* control set is a set of rows.  The digest of a control set is the       *)
(* control set itself: SHA-256 is taken to be free of collisions.          *)
(*                                                                         *)
(* The floating-point results are deterministic functions of the baseline  *)
(* (image size, RMSE limit, image digest) and of the control set; the      *)
(* CONSTANT operators stand for them, and nothing else is assumed of them. *)
(***************************************************************************)
EXTENDS Naturals, FiniteSets

CONSTANTS
  PointIds,       \* point identities
  Pixels,         \* pixel positions
  Maps,           \* map coordinates with their evidence
  Rows,           \* the rows that commands may carry
  Baselines,      \* baselines that ValidateBaseline accepts
  SamePixel(_, _), \* SamePixel(x, y): pixels x and y are equal numbers
  Evidenced(_),   \* Evidenced(m): the note in m is more than white space
  InImage(_, _),  \* InImage(b, x): pixel x lies inside the image of b
  Quadrant(_, _), \* Quadrant(b, x): the quadrant of pixel x, in 0..3
  Regular(_, _),  \* Regular(b, S): S is not near-collinear and solve finds its pivots
  Finite(_, _),   \* Finite(b, S): no result of the fit of S overflows
  RMSEOver(_, _), \* RMSEOver(b, S): the RMSE of the fit of S exceeds the limit of b
  Outliers(_, _), \* Outliers(b, S): ids of the points over twice the limit
  Sample(_, _)    \* Sample(b, S): ids of the points drawn for review

ASSUME RulesAssumption ==
  /\ Rows \subseteq [id : PointIds, pix : Pixels, map : Maps]
  /\ \A r \in Rows : SamePixel(r.pix, r.pix)
  /\ \A b \in Baselines, r \in Rows : Quadrant(b, r.pix) \in 0..3
  /\ \A b \in Baselines, S \in SUBSET Rows :
       /\ Outliers(b, S) \subseteq {r.id : r \in S}
       /\ Sample(b, S) \subseteq {r.id : r \in S}
       /\ RMSEOver(b, S) \in BOOLEAN

(***************************************************************************)
(* Four points, and one in each quadrant.                                  *)
(***************************************************************************)
Distribution(b, S) ==
  /\ Cardinality(S) >= 4
  /\ \A q \in 0..3 : \E r \in S : Quadrant(b, r.pix) = q

(***************************************************************************)
(* Diagnose reports no blocking rule (minimum_count and missing_quadrant   *)
(* are the two conjuncts of Distribution) and Fit returns a solution.      *)
(***************************************************************************)
Ready(b, S) == Distribution(b, S) /\ Regular(b, S)

(***************************************************************************)
(* The verdict of Assess under DefaultQualityRules.  The distribution rule *)
(* holds of every solution that Fit returns.  A comparison with NaN is     *)
(* false, so a fit that overflows may well pass.                           *)
(***************************************************************************)
Passes(b, S) == ~RMSEOver(b, S) /\ Outliers(b, S) = {}

(* Mistake: the numbers are not looked at. *)
StoredUnchecked(b, S) == Ready(b, S)

(***************************************************************************)
(* An evaluation of S can be stored: Fit returns a solution, and           *)
(* store.validate finds no number in it that is not finite.                *)
(***************************************************************************)
Evaluable(b, S) == Ready(b, S) /\ Finite(b, S)

(***************************************************************************)
(* What a reviewer is shown: the control set and the points drawn from it. *)
(***************************************************************************)
SampleDigest(b, S) == [set |-> S, ids |-> Sample(b, S)]
===============================================================================
