---------------------------- MODULE MCRegistration ----------------------------
(***************************************************************************)
(* Registration on small point sets.  A pixel is named after its quadrant; *)
(* "ok" and "bad" are map positions that agree with the others and that    *)
(* miss them by more than twice the limit, "off" is one that two points    *)
(* together carry over the RMSE limit although neither is an outlier, and  *)
(* "huge" is one whose residual overflows; a "blank" position is an "ok"   *)
(* one whose note is white space.                                          *)
(***************************************************************************)
EXTENDS Projection

MCPointIds == {"a", "b", "c", "d", "r", "s", "t"}
MCPixels == {"nw", "ne", "sw", "se", "-se", "se2", "out"}
MCMaps == {"ok", "bad", "off", "huge", "blank"}

Row(id, pix, map) == [id |-> id, pix |-> pix, map |-> map]

A == Row("a", "nw", "ok")
B == Row("b", "ne", "ok")
C == Row("c", "sw", "ok")

(* "se" and "-se" differ in the sign of a coordinate that is zero. *)
MCSamePixel(x, y) == x = y \/ {x, y} = {"se", "-se"}
MCEvidenced(m) == m # "blank"
MCInImage(b, x) == x # "out"
MCQuadrant(b, x) == CASE x = "nw" -> 0 [] x = "ne" -> 1 [] x = "sw" -> 2
                      [] OTHER -> 3
(* In the larger image of baseline "two", "se2" is too close to the centre. *)
MCRegular(b, S) == b = "two" => \E r \in S : r.pix \in {"se", "-se"}
MCFinite(b, S) == \A r \in S : r.map # "huge"
MCOutliers(b, S) == {r.id : r \in {q \in S : q.map = "bad"}}
MCRMSEOver(b, S) ==
  \/ MCOutliers(b, S) # {}
  \/ Cardinality({r \in S : r.map = "off"}) > 1

(* One quadrant is drawn from, and of its points the first in this order. *)
Rank == [id \in MCPointIds |->
           CASE id = "d" -> 1 [] id = "s" -> 2 [] id = "r" -> 3 [] OTHER -> 4]
MCSample(b, S) ==
  LET ids == {r.id : r \in {q \in S : MCQuadrant(b, q.pix) = 3}}
  IN {id \in ids : \A other \in ids : Rank[id] <= Rank[other]}

(* One problem point d, and points that can replace or join it. *)
OneRows == {A, B, C, Row("d", "se", "ok"), Row("d", "se", "bad"),
            Row("r", "se2", "ok"), Row("r", "se2", "bad"), Row("r", "se2", "huge"),
            Row("s", "se", "ok"), Row("s", "-se", "blank"), Row("t", "se2", "ok")}
OneBatches == {{A, B, C, Row("d", "se", "ok")}, {A, B, C, Row("d", "se", "bad")},
               {Row("d", "se", "ok"), Row("s", "-se", "blank")}}

(* Two points that together carry the RMSE over its limit. *)
OffRows == {A, B, C, Row("d", "se", "off"), Row("r", "se2", "off"),
            Row("s", "se", "ok"), Row("t", "se2", "ok")}
OffBatches == {{A, B, C, Row("d", "se", "off"), Row("r", "se2", "off")}}
===============================================================================
