----------------------------- MODULE BatchPreview -----------------------------
(***************************************************************************)
(* The row errors of a batch import (app/batch.go): a batch is a list that *)
(* buildBatchPreview walks once, collecting the rows of every id and of    *)
(* every pixel on the way.  Registration has the outcome, a guard on a set *)
(* of rows; here is how the code gets there.                               *)
(***************************************************************************)
EXTENDS Naturals, Sequences, FiniteSets

CONSTANTS
  Existing,      \* the points of the job: [id, pix, active]
  RowIds,        \* point ids that rows may carry
  NoRowId,       \* the empty id
  RowPixels,     \* pixels that rows may carry, some outside the image
  InBounds(_),   \* the pixel lies inside the image
  MaxBatch,      \* the largest batch, 500 in the code
  MaxRows        \* bound of the model: the longest list

ASSUME BatchAssumption ==
  /\ NoRowId \in RowIds
  /\ MaxBatch < MaxRows
  \* store.validate: one point to an id, and to a pixel in use
  /\ \A p, q \in Existing :
       p.id = q.id \/ (p.active /\ q.active /\ p.pix = q.pix) => p = q

VARIABLE rows

(***************************************************************************)
(* A row with everything in order, without its operator, or without note.  *)
(***************************************************************************)
Row == [id : RowIds, pix : RowPixels, fault : {"none", "actor", "note"}]

EnterRow ==
  /\ Len(rows) < MaxRows
  /\ \E r \in Row : rows' = Append(rows, r)

-------------------------------------------------------------------------------

ExistingIds == {p.id : p \in Existing}
ExistingPixels == {p.pix : p \in {q \in Existing : q.active}}

(* The errors of row i alone, as bad(code) reports them. *)
OwnErrors(R, i) ==
  LET r == R[i]
  IN {<<i, code>> : code \in
        (IF r.id = NoRowId THEN {"point_id_required"} ELSE {}) \cup
        (IF r.id \in ExistingIds THEN {"point_id_conflict"} ELSE {}) \cup
        (IF r.fault = "actor" THEN {"operator_invalid"} ELSE {}) \cup
        (IF r.fault = "note" THEN {"evidence_required"} ELSE {}) \cup
        (IF ~InBounds(r.pix) THEN {"pixel_out_of_bounds"} ELSE {}) \cup
        (IF r.pix \in ExistingPixels THEN {"pixel_conflict"} ELSE {})}

(* Mistake: the pixels of the rows are not compared with one another. *)
IdDuplicates(R) ==
  {<<i, "batch_point_id_duplicate">> : i \in
     {m \in DOMAIN R : \E k \in DOMAIN R \ {m} : R[k].id = R[m].id}}

(* Mistake: the first row of an id or a pixel is let through. *)
LaterDuplicates(R) ==
  {<<i, "batch_point_id_duplicate">> : i \in
     {m \in DOMAIN R : \E k \in 1..(m - 1) : R[k].id = R[m].id}} \cup
  {<<i, "batch_pixel_duplicate">> : i \in
     {m \in DOMAIN R : \E k \in 1..(m - 1) : R[k].pix = R[m].pix}}

(* Every row of an id, or of a pixel, that several rows have. *)
Duplicates(R) ==
  {<<i, "batch_point_id_duplicate">> : i \in
     {m \in DOMAIN R : \E k \in DOMAIN R \ {m} : R[k].id = R[m].id}} \cup
  {<<i, "batch_pixel_duplicate">> : i \in
     {m \in DOMAIN R : \E k \in DOMAIN R \ {m} : R[k].pix = R[m].pix}}

SizeErrors(R) == IF Len(R) \in 1..MaxBatch THEN {} ELSE {<<0, "batch_size">>}

(* The errors of a preview; a row with one is left out of the projection. *)
Errors(R) ==
  SizeErrors(R) \cup Duplicates(R) \cup UNION {OwnErrors(R, i) : i \in DOMAIN R}

ValidRows(R) == {i \in DOMAIN R : \A e \in Errors(R) : e[1] # i}

(* The pixels in use once the valid rows are added, one entry per point. *)
Projected(R) ==
  {[id |-> p.id, pix |-> p.pix] : p \in {q \in Existing : q.active}} \cup
  {[id |-> R[i].id, pix |-> R[i].pix] : i \in ValidRows(R)}

-------------------------------------------------------------------------------
(* A batch is imported, all of it, exactly if the rows of the list are the *)
(* rows of a set that may be added at once: as many as the list has, of    *)
(* different ids and pixels, none of them known to the job (this is the    *)
(* guard of ImportBatch in Registration).                                  *)
ImportableAsSet ==
  LET S == {rows[i] : i \in DOMAIN rows}
  IN Errors(rows) = {} <=>
       /\ rows # <<>>
       /\ Len(rows) <= MaxBatch
       /\ Cardinality(S) = Len(rows)
       /\ \A r \in S : /\ r.fault = "none"
                       /\ r.id \notin ExistingIds \cup {NoRowId}
                       /\ InBounds(r.pix)
                       /\ r.pix \notin ExistingPixels
       /\ \A r, q \in S : r # q => r.id # q.id /\ r.pix # q.pix

(* However many rows are wrong, what the preview projects is a point set   *)
(* that the job could have: one point to an id and to a pixel; and which   *)
(* rows it takes does not depend on their order.                           *)
ProjectionIsSound ==
  /\ \A p, q \in Projected(rows) : p.id = q.id \/ p.pix = q.pix => p = q
  /\ LET n == Len(rows)
         reversed == [i \in 1..n |-> rows[n + 1 - i]]
     IN Projected(reversed) = Projected(rows)
===============================================================================
