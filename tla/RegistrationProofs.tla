-------------------------- MODULE RegistrationProofs --------------------------
(***************************************************************************)
(* Theorems about Registration, for all values of its constants that its   *)
(* assumptions admit.                                                      *)
(***************************************************************************)
EXTENDS Registration, TLAPS

(* The conditions on which commands are accepted, spelled out everywhere.  *)
USE DEF MayFreeze, MayDeactivate, MayEvaluate, MaySubmitReview, MayReview, MayRelease

(***************************************************************************)
(* What is true of the job before it is created.                           *)
(***************************************************************************)
NothingYet ==
  state = "none" =>
    /\ points = {} /\ remediations = {}
    /\ current = 0 /\ review = None /\ manifest = None

(***************************************************************************)
(* The inductive invariant.                                                *)
(***************************************************************************)
IInv ==
  /\ TypeOK
  /\ NothingYet
  /\ Integrity
  /\ EvaluationReproducible
  /\ VerdictTracksSubmission
  /\ SubmittedEvidence
  /\ PublishedEvidence

(***************************************************************************)
(* What AddPoint, ImportBatch, UpdatePoint and DeactivatePoint have in     *)
(* common: the points become P.                                            *)
(***************************************************************************)
PointCommand(P) ==
  /\ AllowsPointMaintenance
  /\ AdvancePoints(P)
  /\ P \subseteq Point
  /\ PointsSound(P)
  /\ Ids(points) \subseteq Ids(P)
  /\ \A x \in points : ~x.active => x \in P
  /\ Lineage(P) = Lineage(points)
  /\ UNCHANGED <<baseline, eval, remediationVars, manifest>>

-------------------------------------------------------------------------------
(* Lemmas about the operators                                               *)

LEMMA ControlSetType ==
  ASSUME NEW P \in SUBSET Point
  PROVE  /\ ControlSet(P) \in SUBSET Rows
         /\ Ids(ControlSet(P)) \subseteq Ids(P)
         /\ Ids(ControlSet(P)) = Ids(ActivePoints(P))
<1>1. \A x \in P : AsRow(x) \in Rows
  BY DEF Point
<1>2. \A x \in P : AsRow(x).id = x.id
  BY DEF AsRow
<1> QED
  BY <1>1, <1>2 DEF ControlSet, ActivePoints, Ids

LEMMA SampleDigestType ==
  ASSUME NEW b \in Baselines, NEW S \in SUBSET Rows
  PROVE  SampleDigest(b, S) \in Digest
<1>1. Sample(b, S) \subseteq {r.id : r \in S}
  BY RulesAssumption
<1>2. {r.id : r \in S} \subseteq PointIds
  BY RulesAssumption
<1> QED
  BY <1>1, <1>2 DEF SampleDigest, Digest

LEMMA OutliersType ==
  ASSUME NEW b \in Baselines, NEW S \in SUBSET Rows
  PROVE  Outliers(b, S) \in SUBSET PointIds /\ Outliers(b, S) \subseteq Ids(S)
<1>1. Outliers(b, S) \subseteq {r.id : r \in S}
  BY RulesAssumption
<1>2. {r.id : r \in S} \subseteq PointIds
  BY RulesAssumption
<1> QED
  BY <1>1, <1>2 DEF Ids

(* A row that takes up a fresh id and a free pixel keeps the points sound. *)
LEMMA AsPointType ==
  ASSUME NEW r \in Rows, NEW old \in PointIds \cup {NoId}
  PROVE  /\ AsPoint(r, old) \in Point
         /\ AsPoint(r, old).id = r.id
         /\ AsPoint(r, old).pix = r.pix
         /\ AsPoint(r, old).active
         /\ AsPoint(r, old).supersedes = old
<1>1. r \in [id : PointIds, pix : Pixels, map : Maps]
  BY RulesAssumption
<1>2. AsRow(AsPoint(r, old)) = r
  BY <1>1 DEF AsRow, AsPoint
<1> QED
  BY <1>1, <1>2 DEF AsPoint, Point

LEMMA WithoutActiveSound ==
  ASSUME NEW id, points \subseteq Point, PointsSound(points)
  PROVE  /\ WithoutActive(id) \subseteq Point
         /\ PointsSound(WithoutActive(id))
         /\ Ids(WithoutActive(id)) = Ids(points)
         /\ \A x \in WithoutActive(id) : x.active => x \in points /\ x.id # id
         /\ \A x \in points : ~x.active => x \in WithoutActive(id)
         /\ Lineage(WithoutActive(id)) = Lineage(points)
<1> DEFINE out(x) == IF x.id = id THEN [x EXCEPT !.active = FALSE] ELSE x
<1>1. \A x \in points : /\ out(x) \in Point
                        /\ out(x).id = x.id /\ out(x).pix = x.pix
                        /\ out(x).supersedes = x.supersedes
                        /\ out(x).active => out(x) = x /\ x.id # id
                        /\ ~x.active => out(x) = x
  BY DEF Point, AsRow
<1>2. WithoutActive(id) = {out(x) : x \in points}
  BY DEF WithoutActive
<1> HIDE DEF out
<1>3. Ids(WithoutActive(id)) = Ids(points)
  BY <1>1, <1>2 DEF Ids
<1>4. WithoutActive(id) \subseteq Point
  BY <1>1, <1>2
<1>5. ASSUME NEW x \in WithoutActive(id), x.active
      PROVE  x \in points /\ x.id # id
  <2>1. PICK y \in points : x = out(y)
    BY <1>2
  <2> QED
    BY <1>1, <1>5, <2>1
<1>6. PointsSound(WithoutActive(id))
  <2>1. \A x, y \in WithoutActive(id) : x.id = y.id => x = y
    BY <1>1, <1>2 DEF PointsSound
  <2>2. \A x \in WithoutActive(id) : InImage(baseline, x.pix)
    BY <1>1, <1>2 DEF PointsSound
  <2>3. \A x, y \in ActivePoints(WithoutActive(id)) : x.pix = y.pix => x = y
    BY <1>5 DEF PointsSound, ActivePoints
  <2>4. \A x \in WithoutActive(id) :
          x.supersedes \in Ids(WithoutActive(id)) \cup {NoId}
    BY <1>1, <1>2, <1>3 DEF PointsSound
  <2> QED
    BY <2>1, <2>2, <2>3, <2>4 DEF PointsSound
<1>7. \A x \in points : ~x.active => x \in WithoutActive(id)
  BY <1>1, <1>2
<1>8. Lineage(WithoutActive(id)) = Lineage(points)
  BY <1>1, <1>2 DEF Lineage
<1> QED
  BY <1>3, <1>4, <1>5, <1>6, <1>7, <1>8

LEMMA AddedPointSound ==
  ASSUME NEW P \in SUBSET Point, PointsSound(P),
         NEW r \in Rows, NEW old \in Ids(P) \cup {NoId},
         r.id \notin Ids(P), ValidPoint(P, r)
  PROVE  /\ P \cup {AsPoint(r, old)} \subseteq Point
         /\ PointsSound(P \cup {AsPoint(r, old)})
         /\ Ids(P \cup {AsPoint(r, old)}) = Ids(P) \cup {r.id}
         /\ old = NoId =>
              Lineage(P \cup {AsPoint(r, old)}) = Lineage(P)
         /\ old # NoId =>
              Lineage(P \cup {AsPoint(r, old)}) =
                Lineage(P) \cup {[old |-> old, new |-> r.id]}
<1> DEFINE p == AsPoint(r, old)
           Q == P \cup {p}
<1>1. old \in PointIds \cup {NoId}
  BY DEF Ids, Point
<1>2. p \in Point /\ p.id = r.id /\ p.pix = r.pix /\ p.supersedes = old
  BY <1>1, AsPointType
<1> HIDE DEF p
<1>3. Ids(Q) = Ids(P) \cup {r.id}
  BY <1>2 DEF Ids
<1>4. \A x \in P : x.id # r.id
  BY DEF Ids
<1>5. PointsSound(Q)
  <2>1. \A x, y \in Q : x.id = y.id => x = y
    BY <1>2, <1>4 DEF PointsSound
  <2>2. \A x \in Q : InImage(baseline, x.pix)
    BY <1>2 DEF PointsSound, ValidPoint
  <2>3. \A x, y \in ActivePoints(Q) : x.pix = y.pix => x = y
    <3>1. \A x \in ActivePoints(P) : x.pix # r.pix
      BY <1>4, RulesAssumption DEF ValidPoint, ActivePoints
    <3> QED
      BY <1>2, <3>1 DEF PointsSound, ActivePoints
  <2>4. \A x \in Q : x.supersedes \in Ids(Q) \cup {NoId}
    BY <1>2, <1>3 DEF PointsSound
  <2> QED
    BY <2>1, <2>2, <2>3, <2>4 DEF PointsSound
<1>6. old = NoId => Lineage(Q) = Lineage(P)
  BY <1>2 DEF Lineage
<1>7. old # NoId => Lineage(Q) = Lineage(P) \cup {[old |-> old, new |-> r.id]}
  BY <1>2 DEF Lineage
<1> QED
  BY <1>2, <1>3, <1>5, <1>6, <1>7 DEF p

-------------------------------------------------------------------------------
(* The commands that change the points                                      *)

LEMMA AddPointCommand ==
  ASSUME IInv, NEW r \in Rows, AddPoint(r)
  PROVE  \E P : PointCommand(P)
<1> DEFINE P == points \cup {AsPoint(r, NoId)}
<1>1. points \subseteq Point /\ PointsSound(points)
  BY DEF IInv, TypeOK, Integrity, ValidateAggregate, AddPoint,
         AllowsPointMaintenance
<1>2. /\ P \subseteq Point
      /\ PointsSound(P)
      /\ Ids(P) = Ids(points) \cup {r.id}
      /\ Lineage(P) = Lineage(points)
  <2>1. r.id \notin Ids(points) /\ ValidPoint(points, r)
    BY DEF AddPoint
  <2> QED
    BY <1>1, <2>1, AddedPointSound
<1>3. /\ AllowsPointMaintenance
      /\ AdvancePoints(P)
      /\ UNCHANGED <<baseline, eval, remediationVars, manifest>>
  BY DEF AddPoint
<1>4. points \subseteq P
  OBVIOUS
<1> HIDE DEF P
<1>5. PointCommand(P)
  BY <1>2, <1>3, <1>4 DEF PointCommand
<1> QED
  BY <1>5

LEMMA ImportBatchCommand ==
  ASSUME IInv, NEW S \in Batches, ImportBatch(S)
  PROVE  \E P : PointCommand(P)
<1> DEFINE N == {AsPoint(r, NoId) : r \in S}
           P == points \cup N
<1>1. points \subseteq Point /\ PointsSound(points)
  BY DEF IInv, TypeOK, Integrity, ValidateAggregate, ImportBatch,
         AllowsPointRevision, AllowsPointMaintenance
<1>2. S \subseteq Rows
  BY JobAssumption
<1>3. \A r \in S : LET x == AsPoint(r, NoId)
                   IN /\ x \in Point
                      /\ x.id = r.id /\ x.pix = r.pix /\ x.supersedes = NoId
  BY <1>2, AsPointType
<1>4. \A x \in N : \E r \in S :
        x = AsPoint(r, NoId) /\ x.id = r.id /\ x.pix = r.pix
        /\ x.supersedes = NoId
  BY <1>3
<1>5. P \subseteq Point
  BY <1>1, <1>3
<1>6. \A x \in points, y \in N : x.id # y.id
  BY <1>4 DEF ImportBatch, Ids
<1>7. \A x, y \in N : x.id = y.id \/ x.pix = y.pix => x = y
  <2>1. \A r, q \in S : r.id = q.id \/ r.pix = q.pix => r = q
    BY DEF ImportBatch
  <2> QED
    BY <1>4, <2>1
<1>8. \A x \in ActivePoints(points), y \in N : x.pix # y.pix
  BY <1>4, <1>6 DEF ImportBatch, ValidRow, ActivePoints
<1>9. Ids(points) \subseteq Ids(P)
  BY DEF Ids
<1>10. PointsSound(P)
  <2>1. \A x, y \in P : x.id = y.id => x = y
    BY <1>1, <1>6, <1>7 DEF PointsSound
  <2>2. \A x \in P : InImage(baseline, x.pix)
    BY <1>1, <1>4 DEF PointsSound, ImportBatch, ValidRow
  <2>3. \A x, y \in ActivePoints(P) : x.pix = y.pix => x = y
    BY <1>1, <1>7, <1>8 DEF PointsSound, ActivePoints
  <2>4. \A x \in P : x.supersedes \in Ids(P) \cup {NoId}
    BY <1>1, <1>4, <1>9 DEF PointsSound
  <2> QED
    BY <2>1, <2>2, <2>3, <2>4 DEF PointsSound
<1>11. Lineage(P) = Lineage(points)
  BY <1>4 DEF Lineage
<1>12. PointCommand(P)
  BY <1>5, <1>9, <1>10, <1>11
  DEF ImportBatch, AllowsPointRevision, PointCommand
<1> QED
  BY <1>12

LEMMA UpdatePointCommand ==
  ASSUME IInv, NEW r \in Rows, UpdatePoint(r)
  PROVE  \E P : PointCommand(P)
<1>1. points \subseteq Point /\ PointsSound(points)
  BY DEF IInv, TypeOK, Integrity, ValidateAggregate, UpdatePoint,
         AllowsPointRevision, AllowsPointMaintenance
<1>2. PICK x \in ActivePoints(points) :
        /\ x.id = r.id
        /\ AdvancePoints((points \ {x}) \cup {AsPoint(r, x.supersedes)})
  BY DEF UpdatePoint
<1> DEFINE p == AsPoint(r, x.supersedes)
           P == (points \ {x}) \cup {p}
<1>3. x \in points
  BY <1>2 DEF ActivePoints
<1>4. p \in Point /\ p.id = r.id /\ p.pix = r.pix /\ p.supersedes = x.supersedes
  BY <1>1, <1>3, AsPointType DEF Point
<1> HIDE DEF p
<1>5. P \subseteq Point
  BY <1>1, <1>4
<1>6. Ids(P) = Ids(points)
  BY <1>2, <1>3, <1>4 DEF Ids
<1>7. \A y \in points \ {x} : y.id # r.id
  BY <1>1, <1>2, <1>3 DEF PointsSound
<1>8. PointsSound(P)
  <2>1. \A y, z \in P : y.id = z.id => y = z
    BY <1>1, <1>4, <1>7 DEF PointsSound
  <2>2. \A y \in P : InImage(baseline, y.pix)
    BY <1>1, <1>4 DEF PointsSound, UpdatePoint, ValidPoint
  <2>3. \A y \in ActivePoints(points) \ {x} : y.pix # p.pix
    BY <1>4, <1>7, RulesAssumption DEF UpdatePoint, ValidPoint, ActivePoints
  <2>4. \A y, z \in ActivePoints(P) : y.pix = z.pix => y = z
    BY <1>1, <2>3 DEF PointsSound, ActivePoints
  <2>5. \A y \in P : y.supersedes \in Ids(P) \cup {NoId}
    BY <1>1, <1>3, <1>4, <1>6 DEF PointsSound
  <2> QED
    BY <2>1, <2>2, <2>4, <2>5 DEF PointsSound
<1>9. \A y \in points : ~y.active => y \in P
  BY <1>2 DEF ActivePoints
<1>10. Lineage(P) = Lineage(points)
  BY <1>2, <1>3, <1>4 DEF Lineage
<1>11. PointCommand(P)
  BY <1>2, <1>5, <1>6, <1>8, <1>9, <1>10
  DEF UpdatePoint, AllowsPointRevision, PointCommand, p
<1> QED
  BY <1>11

LEMMA DeactivatePointCommand ==
  ASSUME IInv, NEW id \in PointIds, DeactivatePoint(id)
  PROVE  \E P : PointCommand(P)
<1>1. points \subseteq Point /\ PointsSound(points)
  BY DEF IInv, TypeOK, Integrity, ValidateAggregate, DeactivatePoint,
         AllowsPointRevision, AllowsPointMaintenance
<1>2. PointCommand(WithoutActive(id))
  BY <1>1, WithoutActiveSound
  DEF DeactivatePoint, AllowsPointRevision, PointCommand
<1> QED
  BY <1>2

LEMMA ReplacedSound ==
  ASSUME IInv, NEW it \in items, NEW r \in Rows, ReplacePoint(it, r)
  PROVE  /\ Replaced(it.point, r) \subseteq Point
         /\ PointsSound(Replaced(it.point, r))
         /\ Ids(Replaced(it.point, r)) = Ids(points) \cup {r.id}
         /\ it.point \in Ids(points)
         /\ r.id \notin Ids(points)
         /\ \A x \in points : ~x.active => x \in Replaced(it.point, r)
         /\ it.point \notin Ids(ActivePoints(Replaced(it.point, r)))
         /\ Lineage(Replaced(it.point, r)) =
              Lineage(points) \cup {[old |-> it.point, new |-> r.id]}
<1>1. points \subseteq Point /\ PointsSound(points)
  BY DEF IInv, TypeOK, Integrity, ValidateAggregate, ReplacePoint, Addressed
<1> DEFINE W == WithoutActive(it.point)
<1>2. /\ W \subseteq Point
      /\ PointsSound(W)
      /\ Ids(W) = Ids(points)
      /\ \A x \in W : x.active => x.id # it.point
      /\ \A x \in points : ~x.active => x \in W
      /\ Lineage(W) = Lineage(points)
  BY <1>1, WithoutActiveSound
<1>3. /\ it.point \in Ids(points)
      /\ r.id \notin Ids(points)
      /\ ValidPoint(W, r)
  BY DEF ReplacePoint, Addressed, WouldPass, Ids, ActivePoints
<1> HIDE DEF W
<1>4. it.point # NoId
  BY <1>1, <1>3, JobAssumption DEF Ids, Point
<1> DEFINE Q == W \cup {AsPoint(r, it.point)}
<1>5. /\ Q \subseteq Point
      /\ PointsSound(Q)
      /\ Ids(Q) = Ids(W) \cup {r.id}
      /\ Lineage(Q) = Lineage(W) \cup {[old |-> it.point, new |-> r.id]}
  <2> DEFINE old == it.point
  <2>1. old \in Ids(W) \cup {NoId} /\ r.id \notin Ids(W) /\ old # NoId
    BY <1>2, <1>3, <1>4
  <2> HIDE DEF old
  <2>2. /\ W \cup {AsPoint(r, old)} \subseteq Point
        /\ PointsSound(W \cup {AsPoint(r, old)})
        /\ Ids(W \cup {AsPoint(r, old)}) = Ids(W) \cup {r.id}
    BY <1>2, <1>3, <2>1, AddedPointSound
  <2>3. Lineage(W \cup {AsPoint(r, old)}) =
          Lineage(W) \cup {[old |-> old, new |-> r.id]}
    BY <1>2, <1>3, <2>1, AddedPointSound
  <2> QED
    BY <2>2, <2>3 DEF old
<1>6. AsPoint(r, it.point).id # it.point
  BY <1>3 DEF AsPoint
<1>7. it.point \notin Ids(ActivePoints(Q))
  BY <1>2, <1>6 DEF Ids, ActivePoints
<1> QED
  BY <1>2, <1>3, <1>5, <1>7 DEF Replaced, W

LEMMA NextCases ==
  ASSUME IInv, Next
  PROVE  \/ \E b \in Baselines : CreateJob(b)
         \/ \E b \in Baselines : ReviseBaseline(b)
         \/ Freeze
         \/ \E P : PointCommand(P)
         \/ Evaluate
         \/ \E it \in items, r \in Rows : ReplacePoint(it, r)
         \/ SubmitReview
         \/ \E a \in Actors : Approve(a)
         \/ \E a \in Actors, failed \in SUBSET PointIds : Reject(a, failed)
         \/ Release
         \/ Restart
<1>1. ASSUME NEW r \in Rows, AddPoint(r) PROVE \E P : PointCommand(P)
  BY <1>1, AddPointCommand
<1>2. ASSUME NEW r \in Rows, UpdatePoint(r) PROVE \E P : PointCommand(P)
  BY <1>2, UpdatePointCommand
<1>3. ASSUME NEW S \in Batches, ImportBatch(S) PROVE \E P : PointCommand(P)
  BY <1>3, ImportBatchCommand
<1>4. ASSUME NEW id \in PointIds, DeactivatePoint(id)
      PROVE  \E P : PointCommand(P)
  BY <1>4, DeactivatePointCommand
<1> QED
  BY <1>1, <1>2, <1>3, <1>4 DEF Next, Command

-------------------------------------------------------------------------------
(* Types                                                                    *)

LEMMA EvaluateType ==
  ASSUME IInv, Evaluate
  PROVE  /\ eval' \in Evaluation
         /\ eval'.set = ControlSet(points)
         /\ eval'.id = current'
         /\ eval'.decision = "pass" <=> Passes(baseline, ControlSet(points))
         /\ eval'.outliers = Outliers(baseline, ControlSet(points))
         /\ items' = ItemsAfter(eval')
         /\ baseline \in Baselines
         /\ ControlSet(points) \in SUBSET Rows
<1>1. baseline \in Baselines
  BY DEF IInv, Integrity, ValidateAggregate, Evaluate
<1>2. ControlSet(points) \in SUBSET Rows
  BY ControlSetType DEF IInv, TypeOK
<1>3. Outliers(baseline, ControlSet(points)) \in SUBSET PointIds
  BY <1>1, <1>2, OutliersType
<1>4. NextEvaluation \in Nat \ {0}
  BY DEF NextEvaluation, IInv, TypeOK, Evaluation
<1> HIDE DEF NextEvaluation
<1>5. eval' = [id |-> NextEvaluation, set |-> ControlSet(points),
               decision |-> IF Passes(baseline, ControlSet(points))
                            THEN "pass" ELSE "remediate",
               outliers |-> Outliers(baseline, ControlSet(points))]
  BY DEF Evaluate
<1>6. current' = NextEvaluation /\ items' = ItemsAfter(eval')
  BY <1>5 DEF Evaluate
<1> QED
  BY <1>1, <1>2, <1>3, <1>4, <1>5, <1>6 DEF Evaluation

(* The item that an evaluation raises. *)
RaisedItem(id, ev) ==
  [point |-> id, eval |-> ev.id, source |-> "residual",
   status |-> "open", replacement |-> NoId]

LEMMA ItemsAfterParts ==
  ASSUME NEW ev
  PROVE  ItemsAfter(ev) =
           {ItemAfter(it, ev) : it \in items} \cup
           {RaisedItem(id, ev) : id \in
              {x \in ev.outliers : \A it \in items : ItemIsOpen(it) => it.point # x}}
BY DEF ItemsAfter, Raised, RaisedItem

LEMMA ItemAfterFields ==
  ASSUME NEW it \in Item, NEW ev
  PROVE  /\ ItemAfter(it, ev) \in Item
         /\ ItemAfter(it, ev).point = it.point
         /\ ItemAfter(it, ev).eval = it.eval
         /\ ItemAfter(it, ev).source = it.source
         /\ ItemAfter(it, ev).replacement = it.replacement
BY DEF ItemAfter, Remedied, Item

LEMMA ItemsAfterType ==
  ASSUME NEW ev \in Evaluation, items \subseteq Item
  PROVE  ItemsAfter(ev) \subseteq Item
<1>1. \A it \in items : ItemAfter(it, ev) \in Item
  BY ItemAfterFields
<1>2. \A id \in ev.outliers : RaisedItem(id, ev) \in Item
  BY DEF RaisedItem, Item, Evaluation
<1> QED
  BY <1>1, <1>2, ItemsAfterParts

LEMMA VerdictType ==
  ASSUME IInv, NEW a \in Actors, NEW decision \in {"approve", "reject"},
         NEW failed \in SUBSET PointIds, Verdict(a, decision, failed)
  PROVE  /\ review' \in Review
         /\ review' # None
         /\ review'.reviewer = a /\ a # Operator
         /\ review'.decision = decision
         /\ review'.failed = failed
         /\ review'.digest = SampleDigest(baseline, ControlSet(points))
         /\ sample = SampleDigest(baseline, ControlSet(points))
         /\ state = "pending_review"
<1>1. /\ baseline \in Baselines
      /\ ControlSet(points) \in SUBSET Rows
  BY ControlSetType
  DEF IInv, TypeOK, Integrity, ValidateAggregate, Verdict
<1>2. SampleDigest(baseline, ControlSet(points)) \in Digest
  BY <1>1, SampleDigestType
<1>3. review' \in Review
  BY <1>2 DEF Verdict, Review
<1> QED
  BY <1>3, JobAssumption DEF Verdict

LEMMA TypeStep ==
  ASSUME IInv, [Next]_vars
  PROVE  TypeOK'
<1> USE DEF NextRevision
<1>0. /\ TypeOK
      /\ state # "none" => baseline \in Baselines
      /\ ControlSet(points) \in SUBSET Rows
  BY ControlSetType DEF IInv, TypeOK, Integrity, ValidateAggregate
<1>1. ASSUME NEW b \in Baselines, CreateJob(b) PROVE TypeOK'
  BY <1>0, <1>1 DEF TypeOK, CreateJob, States, remediationVars
<1>2. ASSUME NEW b \in Baselines, ReviseBaseline(b) PROVE TypeOK'
  BY <1>0, <1>2 DEF TypeOK, ReviseBaseline, remediationVars
<1>3. CASE Freeze
  BY <1>0, <1>3 DEF TypeOK, Freeze, States, remediationVars
<1>4. ASSUME NEW P, PointCommand(P) PROVE TypeOK'
  BY <1>0, <1>4 DEF TypeOK, PointCommand, AdvancePoints, StateOf, States,
                    remediationVars
<1>5. CASE Evaluate
  <2>1. eval' \in Evaluation /\ eval'.id = current' /\ items' \subseteq Item
    BY <1>0, <1>5, EvaluateType, ItemsAfterType DEF TypeOK
  <2> QED
    BY <1>0, <1>5, <2>1 DEF TypeOK, Evaluate, States, Evaluation
<1>6. ASSUME NEW it \in items, NEW r \in Rows, ReplacePoint(it, r)
      PROVE  TypeOK'
  <2>1. points' \subseteq Point
    BY <1>6, ReplacedSound DEF ReplacePoint, Addressed
  <2>2. r.id \in PointIds /\ it \in Item
    BY <1>0, RulesAssumption DEF TypeOK
  <2>3. items' \subseteq Item
    BY <1>0, <1>6, <2>2 DEF TypeOK, ReplacePoint, Addressed, Item
  <2>4. remediations' \subseteq Remediation
    BY <1>0, <1>6, <2>2 DEF TypeOK, ReplacePoint, Addressed, Item, Remediation
  <2>5. instructions' \subseteq Instruction
    BY <1>0, <1>6 DEF TypeOK, ReplacePoint, Addressed, Instruction
  <2> QED
    BY <1>0, <1>6, <2>1, <2>3, <2>4, <2>5 DEF TypeOK, ReplacePoint, Addressed
<1>7. CASE SubmitReview
  <2>1. sample' \in Digest
    BY <1>0, <1>7, SampleDigestType DEF SubmitReview
  <2> QED
    BY <1>0, <1>7, <2>1 DEF TypeOK, SubmitReview, States, remediationVars
<1>8. ASSUME NEW a \in Actors, NEW decision \in {"approve", "reject"},
             NEW failed \in SUBSET PointIds, Verdict(a, decision, failed)
      PROVE  review' \in Review /\ revision' \in Nat
  BY <1>0, <1>8, VerdictType DEF Verdict, TypeOK
<1>9. ASSUME NEW a \in Actors, Approve(a) PROVE TypeOK'
  BY <1>0, <1>8, <1>9 DEF TypeOK, Approve, States, remediationVars
<1>10. ASSUME NEW a \in Actors, NEW failed \in SUBSET PointIds,
              Reject(a, failed)
       PROVE  TypeOK'
  <2>1. instructions' \subseteq Instruction
    BY <1>0, <1>10 DEF TypeOK, Reject, Instruction
  <2>2. items' \subseteq Item
    BY <1>0, <1>10 DEF TypeOK, Reject, Item
  <2>3. review' \in Review /\ revision' \in Nat
    BY <1>8, <1>10 DEF Reject
  <2> QED
    BY <1>0, <1>10, <2>1, <2>2, <2>3 DEF TypeOK, Reject, States
<1>11. CASE Release
  <2>1. manifest' \in Manifest
    BY <1>0, <1>11 DEF TypeOK, Release, CurrentPass, Manifest
  <2> QED
    BY <1>0, <1>11, <2>1 DEF TypeOK, Release, States, remediationVars
<1>12. CASE Restart
  BY <1>0, <1>12 DEF TypeOK, Restart, Evaluation, remediationVars
<1>13. CASE UNCHANGED vars
  BY <1>0, <1>13 DEF TypeOK, vars, jobVars, remediationVars
<1> QED
  BY <1>1, <1>2, <1>3, <1>4, <1>5, <1>6, <1>7, <1>9, <1>10, <1>11, <1>12,
     <1>13, NextCases

-------------------------------------------------------------------------------
(* The other parts of the inductive invariant, one lemma each               *)

(* How the job stands in a state in which commands on its points go on. *)
LEMMA EvaluationIdPositive ==
  ASSUME IInv, eval # None
  PROVE  eval \in Evaluation /\ eval.id \in Nat \ {0} /\ eval.set \in SUBSET Rows
BY DEF IInv, TypeOK, Evaluation

LEMMA NothingYetStep ==
  ASSUME IInv, [Next]_vars
  PROVE  NothingYet'
<1>1. \A P : PointCommand(P) => state' # "none"
  BY DEF PointCommand, AdvancePoints, StateOf
<1>2. CASE Next
  BY <1>1, <1>2, NextCases
  DEF IInv, NothingYet, EvaluationReproducible, CreateJob, ReviseBaseline,
      Freeze, Evaluate, ReplacePoint, Addressed, SubmitReview, Approve, Reject, Verdict,
      Release, Restart
<1>3. CASE UNCHANGED vars
  BY <1>3 DEF IInv, NothingYet, vars, jobVars, remediationVars
<1> QED
  BY <1>2, <1>3

LEMMA EvaluationStep ==
  ASSUME IInv, [Next]_vars
  PROVE  EvaluationReproducible'
<1> USE DEF EvaluationReproducible
<1>0. EvaluationReproducible
  BY DEF IInv
<1>1. ASSUME NEW b \in Baselines, CreateJob(b) PROVE EvaluationReproducible'
  BY <1>0, <1>1 DEF CreateJob
<1>2. ASSUME NEW b \in Baselines, ReviseBaseline(b)
      PROVE  EvaluationReproducible'
  BY <1>0, <1>2 DEF ReviseBaseline
<1>3. CASE Freeze
  BY <1>0, <1>3 DEF Freeze
<1>4. ASSUME NEW P, PointCommand(P) PROVE EvaluationReproducible'
  BY <1>0, <1>4 DEF PointCommand, AdvancePoints, StateOf
<1>5. CASE Evaluate
  <2>1. /\ baseline' = baseline
        /\ Ready(baseline, ControlSet(points))
        /\ Finite(baseline, ControlSet(points))
        /\ state' \notin {"none", "draft"}
    BY <1>5 DEF Evaluate, Evaluable
  <2> QED
    BY <1>5, <2>1, EvaluateType
<1>6. ASSUME NEW it \in items, NEW r \in Rows, ReplacePoint(it, r)
      PROVE  EvaluationReproducible'
  BY <1>0, <1>6 DEF ReplacePoint, Addressed
<1>7. CASE SubmitReview
  BY <1>0, <1>7 DEF SubmitReview
<1>8. ASSUME NEW a \in Actors, Approve(a) PROVE EvaluationReproducible'
  BY <1>0, <1>8 DEF Approve
<1>9. ASSUME NEW a, NEW failed, Reject(a, failed)
      PROVE  EvaluationReproducible'
  BY <1>0, <1>9 DEF Reject
<1>10. CASE Release
  BY <1>0, <1>10 DEF Release
<1>11. CASE Restart
  BY <1>0, <1>11 DEF Restart
<1>12. CASE UNCHANGED vars
  BY <1>0, <1>12 DEF vars, jobVars
<1> QED
  BY <1>1, <1>2, <1>3, <1>4, <1>5, <1>6, <1>7, <1>8, <1>9, <1>10, <1>11,
     <1>12, NextCases

LEMMA SubmittedStep ==
  ASSUME IInv, [Next]_vars
  PROVE  SubmittedEvidence'
<1>0. SubmittedEvidence
  BY DEF IInv
<1>1. ASSUME NEW b \in Baselines, CreateJob(b) PROVE SubmittedEvidence'
  BY <1>1 DEF CreateJob, SubmittedEvidence
<1>2. ASSUME NEW b \in Baselines, ReviseBaseline(b) PROVE SubmittedEvidence'
  BY <1>2 DEF ReviseBaseline, SubmittedEvidence
<1>3. CASE Freeze
  BY <1>3 DEF Freeze, SubmittedEvidence
<1>4. ASSUME NEW P, PointCommand(P) PROVE SubmittedEvidence'
  BY <1>4 DEF PointCommand, AdvancePoints, StateOf, SubmittedEvidence
<1>5. CASE Evaluate
  BY <1>5 DEF Evaluate, SubmittedEvidence
<1>6. ASSUME NEW it \in items, NEW r \in Rows, ReplacePoint(it, r)
      PROVE  SubmittedEvidence'
  BY <1>6 DEF ReplacePoint, Addressed, SubmittedEvidence
<1>7. CASE SubmitReview
  <2>1. /\ Ready(baseline, ControlSet(points))
        /\ Finite(baseline, ControlSet(points))
        /\ Passes(baseline, ControlSet(points))
    BY <1>7 DEF SubmitReview, CurrentPass, IInv, EvaluationReproducible
  <2> QED
    BY <1>7, <2>1
    DEF SubmitReview, SubmittedEvidence, CurrentPass, remediationVars
<1>8. ASSUME NEW a \in Actors, Approve(a) PROVE SubmittedEvidence'
  BY <1>0, <1>8
  DEF Approve, Verdict, SubmittedEvidence, CurrentPass, remediationVars
<1>9. ASSUME NEW a, NEW failed, Reject(a, failed) PROVE SubmittedEvidence'
  BY <1>9 DEF Reject, SubmittedEvidence
<1>10. CASE Release
  BY <1>0, <1>10
  DEF Release, SubmittedEvidence, CurrentPass, remediationVars
<1>11. CASE Restart
  BY <1>0, <1>11, EvaluationIdPositive
  DEF Restart, SubmittedEvidence, CurrentPass
<1>12. CASE UNCHANGED vars
  BY <1>0, <1>12
  DEF vars, jobVars, remediationVars, SubmittedEvidence, CurrentPass
<1> QED
  BY <1>1, <1>2, <1>3, <1>4, <1>5, <1>6, <1>7, <1>8, <1>9, <1>10, <1>11,
     <1>12, NextCases

LEMMA VerdictStep ==
  ASSUME IInv, [Next]_vars
  PROVE  VerdictTracksSubmission'
<1> USE DEF VerdictTracksSubmission
<1>0. /\ VerdictTracksSubmission
      /\ NothingYet
      /\ items \subseteq Item
      /\ review # None => review.decision \in {"approve", "reject"}
  BY DEF IInv, TypeOK, Review
<1>1. ASSUME NEW b \in Baselines, CreateJob(b)
      PROVE  VerdictTracksSubmission'
  BY <1>0, <1>1 DEF CreateJob, NothingYet
<1>2. ASSUME NEW b \in Baselines, ReviseBaseline(b)
      PROVE  VerdictTracksSubmission'
  BY <1>0, <1>2 DEF ReviseBaseline, remediationVars
<1>3. CASE Freeze
  BY <1>0, <1>3 DEF Freeze, remediationVars
<1>4. ASSUME NEW P, PointCommand(P) PROVE VerdictTracksSubmission'
  BY <1>4 DEF PointCommand, AdvancePoints, StateOf
<1>5. CASE Evaluate
  <2>1. /\ state \in {"solvable", "needs_fix"}
        /\ state' \in {"solvable", "needs_fix"}
        /\ UNCHANGED review
    BY <1>5 DEF Evaluate
  <2>2. items' = ItemsAfter(eval') /\ eval' \in Evaluation
    BY <1>5, EvaluateType
  <2>3. NoId \notin Ids(eval'.set)
    BY <2>2, RulesAssumption, JobAssumption DEF Evaluation, Ids
  <2>4. ASSUME NEW it \in items, ItemIsOpen(it), it.replacement = NoId
        PROVE  \E jt \in items' :
                 /\ jt.point = it.point
                 /\ ItemIsOpen(jt)
                 /\ jt.replacement = NoId
    <3>1. ItemAfter(it, eval') \in items'
      BY <2>2, ItemsAfterParts
    <3>2. ItemIsOpen(ItemAfter(it, eval'))
      BY <1>0, <2>3, <2>4 DEF ItemAfter, Remedied, ItemIsOpen, Item
    <3> QED
      BY <1>0, <2>4, <3>1, <3>2, ItemAfterFields
  <2> QED
    BY <1>0, <2>1, <2>4
<1>6. ASSUME NEW it \in items, NEW r \in Rows, ReplacePoint(it, r)
      PROVE  VerdictTracksSubmission'
  BY <1>6 DEF ReplacePoint, Addressed
<1>7. CASE SubmitReview
  <2>1. review = None
    <3>1. SUFFICES ASSUME review # None PROVE FALSE
      OBVIOUS
    <3>2. review.decision = "reject"
      BY <1>0, <1>7, <3>1 DEF SubmitReview
    <3>3. PICK id \in review.failed : TRUE
      BY <1>0, <3>1, <3>2
    <3>4. \E it \in items : ItemIsOpen(it)
      BY <1>0, <3>1, <3>2, <3>3
    <3> QED
      BY <1>7, <3>4 DEF SubmitReview
  <2> QED
    BY <1>7, <2>1 DEF SubmitReview
<1>8. ASSUME NEW a \in Actors, Approve(a) PROVE VerdictTracksSubmission'
  <2>1. /\ review' # None /\ review'.reviewer = a /\ a # Operator
        /\ review'.decision = "approve" /\ review'.failed = {}
    BY <1>8, VerdictType DEF Approve
  <2> QED
    BY <1>8, <2>1 DEF Approve
<1>9. ASSUME NEW a \in Actors, NEW failed \in SUBSET PointIds,
             Reject(a, failed)
      PROVE  VerdictTracksSubmission'
  <2>1. /\ review' # None /\ review'.reviewer = a /\ a # Operator
        /\ review'.decision = "reject" /\ review'.failed = failed
        /\ failed # {}
    BY <1>9, VerdictType DEF Reject
  <2>2. ASSUME NEW id \in failed
        PROVE  \E it \in items' : /\ it.point = id
                                 /\ ItemIsOpen(it)
                                 /\ it.replacement = NoId
    <3> DEFINE jt == [point |-> id, eval |-> current, source |-> "review",
                      status |-> "open", replacement |-> NoId]
    <3>1. jt \in items'
      BY <1>9 DEF Reject
    <3> QED
      BY <3>1 DEF ItemIsOpen
  <2>3. state' = "needs_fix"
    BY <1>9 DEF Reject
  <2> QED
    BY <2>1, <2>2, <2>3
<1>10. CASE Release
  BY <1>0, <1>10 DEF Release, remediationVars
<1>11. CASE Restart
  BY <1>0, <1>11 DEF Restart, remediationVars
<1>12. CASE UNCHANGED vars
  BY <1>0, <1>12 DEF vars, jobVars, remediationVars
<1> QED
  BY <1>1, <1>2, <1>3, <1>4, <1>5, <1>6, <1>7, <1>8, <1>9, <1>10, <1>11,
     <1>12, NextCases

LEMMA PublishedStep ==
  ASSUME IInv, [Next]_vars
  PROVE  PublishedEvidence'
<1>0. PublishedEvidence
  BY DEF IInv
<1>1. \A P : ~PointCommand(P) \/ state' # "published"
  BY DEF PointCommand, AdvancePoints, StateOf
<1>2. CASE Release
  <2>1. state = "pending_release" /\ state' = "published"
    BY <1>2 DEF Release
  <2>2. /\ manifest' = [baseline |-> baseline, set |-> ControlSet(points),
                        eval |-> eval, review |-> review]
        /\ UNCHANGED <<baseline, points, eval, review>>
        /\ review.decision = "approve" /\ review.digest = sample
    BY <1>2 DEF Release
  <2>3. /\ review.reviewer # Operator /\ review.failed = {}
        /\ sample = SampleDigest(baseline, ControlSet(points))
    BY <1>2, <2>1, <2>2
    DEF Release, IInv, VerdictTracksSubmission, SubmittedEvidence
  <2> QED
    BY <2>2, <2>3 DEF PublishedEvidence, VerifyManifest
<1>3. CASE Restart
  BY <1>0, <1>3 DEF Restart, PublishedEvidence, VerifyManifest
<1>4. CASE UNCHANGED vars
  BY <1>0, <1>4 DEF vars, jobVars, PublishedEvidence, VerifyManifest
<1>5. CASE Next /\ ~Release /\ ~Restart
  BY <1>1, <1>5, NextCases
  DEF PublishedEvidence, CreateJob, ReviseBaseline, Freeze, Evaluate,
      ReplacePoint, Addressed, SubmitReview, Approve, Reject, Verdict
<1> QED
  BY <1>2, <1>3, <1>4, <1>5

LEMMA IntegrityStep ==
  ASSUME IInv, [Next]_vars
  PROVE  Integrity'
<1> USE DEF NextRevision
<1>0. /\ state # "none" => ValidateAggregate
      /\ TypeOK
      /\ NothingYet
      /\ VerdictTracksSubmission
      /\ EvaluationReproducible
  BY DEF IInv, Integrity
<1>1. ASSUME NEW b \in Baselines, CreateJob(b) PROVE ValidateAggregate'
  BY <1>0, <1>1
  DEF CreateJob, NothingYet, EvaluationReproducible, TypeOK,
      ValidateAggregate, PointsSound, ActivePoints, remediationVars
<1>2. ASSUME NEW b \in Baselines, ReviseBaseline(b) PROVE ValidateAggregate'
  BY <1>0, <1>2
  DEF ReviseBaseline, EvaluationReproducible, TypeOK, ValidateAggregate,
      PointsSound, ActivePoints, remediationVars
<1>3. CASE Freeze
  BY <1>0, <1>3
  DEF Freeze, Integrity, TypeOK, ValidateAggregate, PointsSound, remediationVars
<1>4. ASSUME NEW P, PointCommand(P) PROVE ValidateAggregate'
  <2>1. /\ state # "none" /\ state # "published"
        /\ state' \in {"solvable", "frozen"}
        /\ points' = P /\ PointsSound(P) /\ Ids(points) \subseteq Ids(P)
        /\ state' = "solvable" => Distribution(baseline, ControlSet(P))
        /\ current' = 0 /\ review' = None /\ revision' = revision + 1
        /\ UNCHANGED <<baseline, eval, remediations, manifest>>
    BY <1>4 DEF PointCommand, AllowsPointMaintenance, AdvancePoints, StateOf,
                remediationVars
  <2>2. PointsSound(P)'
    BY <2>1 DEF PointsSound
  <2> QED
    BY <1>0, <2>1, <2>2 DEF ValidateAggregate, TypeOK, PointsSound
<1>5. CASE Evaluate
  <2>1. /\ state \in {"solvable", "needs_fix"}
        /\ state' \in {"solvable", "needs_fix"}
        /\ Distribution(baseline, ControlSet(points))
        /\ revision' = revision + 1
        /\ UNCHANGED <<baseline, points, remediations, review, manifest>>
    BY <1>5 DEF Evaluate, Evaluable, Ready
  <2>2. /\ eval'.id = current'
        /\ eval' # None
        /\ Ids(eval'.set) \subseteq Ids(points)
        /\ Finite(baseline, eval'.set)
    <3>1. Finite(baseline, ControlSet(points))
      BY <1>5 DEF Evaluate, Evaluable
    <3> QED
      BY <1>0, <1>5, <3>1, EvaluateType, ControlSetType, JobAssumption
      DEF TypeOK
  <2> QED
    BY <1>0, <2>1, <2>2 DEF Integrity, ValidateAggregate, TypeOK, PointsSound
<1>6. ASSUME NEW it \in items, NEW r \in Rows, ReplacePoint(it, r)
      PROVE  ValidateAggregate'
  <2> DEFINE P == Replaced(it.point, r)
  <2>1. /\ PointsSound(P)
        /\ Ids(P) = Ids(points) \cup {r.id}
        /\ it.point \in Ids(points)
    BY <1>6, ReplacedSound
  <2>2. /\ state = "needs_fix" /\ points' = P
        /\ current' = 0 /\ review' = None /\ revision' = revision + 1
        /\ remediations' =
             remediations \cup {[old |-> it.point, new |-> r.id]}
        /\ UNCHANGED <<state, baseline, eval, manifest>>
    BY <1>6 DEF ReplacePoint, Addressed
  <2> HIDE DEF P
  <2>3. PointsSound(points)'
    BY <2>1, <2>2 DEF PointsSound
  <2>4. \A m \in remediations' : {m.old, m.new} \subseteq Ids(P)
    BY <1>0, <2>1, <2>2 DEF ValidateAggregate
  <2> QED
    BY <1>0, <2>1, <2>2, <2>3, <2>4 DEF ValidateAggregate, TypeOK, PointsSound
<1>7. CASE SubmitReview
  BY <1>0, <1>7
  DEF SubmitReview, Integrity, TypeOK, ValidateAggregate, PointsSound, remediationVars
<1>8. ASSUME NEW a \in Actors, Approve(a) PROVE ValidateAggregate'
  <2>1. review'.reviewer # Operator
    BY <1>8, VerdictType DEF Approve
  <2> QED
    BY <1>0, <1>8, <2>1
    DEF Approve, Verdict, TypeOK, ValidateAggregate, PointsSound,
        remediationVars
<1>9. ASSUME NEW a \in Actors, NEW failed \in SUBSET PointIds,
             Reject(a, failed)
      PROVE  ValidateAggregate'
  <2>1. review'.reviewer # Operator
    BY <1>9, VerdictType DEF Reject
  <2> QED
    BY <1>0, <1>9, <2>1
    DEF Reject, Verdict, TypeOK, ValidateAggregate, PointsSound
<1>10. CASE Release
  <2>1. manifest' # None
    <3>1. manifest' \in Manifest
      BY <1>0, <1>10, ControlSetType
      DEF TypeOK, Release, CurrentPass, Manifest, ValidateAggregate
    <3> QED
      BY <3>1, JobAssumption
  <2> QED
    BY <1>0, <1>10, <2>1
    DEF Release, Integrity, TypeOK, ValidateAggregate, PointsSound, remediationVars
<1>11. CASE Restart
  BY <1>0, <1>11
  DEF Restart, Integrity, ValidateAggregate, PointsSound, remediationVars,
      EvaluationReproducible
<1>12. CASE UNCHANGED vars
  BY <1>12, <1>0
  DEF Integrity, vars, jobVars, remediationVars, ValidateAggregate,
      PointsSound
<1> QED
  BY <1>1, <1>2, <1>3, <1>4, <1>5, <1>6, <1>7, <1>8, <1>9, <1>10, <1>11,
     <1>12, NextCases DEF Integrity

-------------------------------------------------------------------------------
(* Theorems                                                                 *)

LEMMA InitHolds == Init => IInv
BY JobAssumption
DEF Init, IInv, TypeOK, NothingYet, Integrity, EvaluationReproducible,
    VerdictTracksSubmission, SubmittedEvidence, PublishedEvidence, States

(* Every reachable state of the job, on a server that may restart at any    *)
(* time, satisfies the inductive invariant.                                 *)
THEOREM InductiveInvariant == Spec => []IInv
<1>1. Init => IInv
  BY InitHolds
<1>2. IInv /\ [Next]_vars => IInv'
  BY TypeStep, NothingYetStep, IntegrityStep, EvaluationStep, VerdictStep,
     SubmittedStep, PublishedStep DEF IInv
<1> QED
  BY <1>1, <1>2, PTL DEF Spec

(* The fields of the job and its records keep their types.                 *)
THEOREM TypeCorrect == Spec => []TypeOK
BY InductiveInvariant, PTL DEF IInv

(* store.validate refuses no result of an accepted command and no file     *)
(* that a command wrote: the server can always start again.                *)
THEOREM IntegrityHolds == Spec => []Integrity
BY InductiveInvariant, PTL DEF IInv

(* A stored evaluation is the verdict of the rules on its points, under    *)
(* the frozen baseline.                                                    *)
THEOREM EvaluationsReproducible == Spec => []EvaluationReproducible
BY InductiveInvariant, PTL DEF IInv

(* The points of a submitted job pass the rules and are the ones that were *)
(* evaluated and sampled, until it is published or sent back.              *)
THEOREM SubmittedOnEvidence == Spec => []SubmittedEvidence
BY InductiveInvariant, PTL DEF IInv

(* No verdict outlives the submission it is about, and none is missing.    *)
THEOREM VerdictsTrackSubmissions == Spec => []VerdictTracksSubmission
BY InductiveInvariant, PTL DEF IInv

(* What a published manifest says of its job stays true, and it holds an   *)
(* independent approval of the control set it publishes.                   *)
THEOREM PublishedOnEvidence == Spec => []PublishedEvidence
BY InductiveInvariant, PTL DEF IInv

(* A published job is read-only: its command has no guard that holds, and  *)
(* a restart finds its evaluation current.                                 *)
LEMMA PublishedStays ==
  ASSUME IInv, Next, state = "published"
  PROVE  UNCHANGED vars
<1>1. CASE Restart
  BY <1>1, EvaluationIdPositive
  DEF Restart, IInv, SubmittedEvidence, CurrentPass
<1>2. \A P : ~PointCommand(P)
  BY DEF PointCommand, AllowsPointMaintenance
<1> QED
  BY <1>1, <1>2, NextCases
  DEF CreateJob, ReviseBaseline, Freeze, Evaluate, ReplacePoint, Addressed,
      SubmitReview, Approve, Reject, Verdict, Release

-------------------------------------------------------------------------------
(* The job implements the gate                                              *)

LEMMA PromiseStep ==
  ASSUME IInv, IInv', [Next]_vars
  PROVE  [Promise!Next]_Promise!vars
<1> USE DEF GatePhase, GateContent, GateApprover, Promise!vars
<1>1. CASE /\ state \notin {"pending_review", "pending_release", "published"}
           /\ state' \notin {"pending_review", "pending_release", "published"}
  BY <1>1
<1>2. CASE SubmitReview
  <2>1. /\ state = "solvable" /\ state' = "pending_review"
        /\ baseline' = baseline /\ points' = points
    BY <1>2 DEF SubmitReview
  <2>2. /\ baseline \in Baselines
        /\ ControlSet(points) \in SUBSET Rows
        /\ Ready(baseline, ControlSet(points))
        /\ Finite(baseline, ControlSet(points))
        /\ Passes(baseline, ControlSet(points))
    BY <1>2, ControlSetType
    DEF SubmitReview, CurrentPass, IInv, TypeOK, Integrity,
        ValidateAggregate, EvaluationReproducible
  <2>3. ControlSet(points)' = ControlSet(points)
    BY <2>1 DEF ControlSet, ActivePoints
  <2>4. Promise!Submit
    BY <2>1, <2>2, <2>3 DEF Promise!Submit, Content
  <2> QED
    BY <2>4 DEF Promise!Next
<1>3. ASSUME NEW a \in Actors, Approve(a)
      PROVE  [Promise!Next]_Promise!vars
  <2>1. /\ state = "pending_review" /\ state' = "pending_release"
        /\ review'.reviewer = a /\ a # Operator
        /\ baseline' = baseline /\ points' = points
    BY <1>3, VerdictType DEF Approve
  <2>2. ControlSet(points)' = ControlSet(points)
    BY <2>1 DEF ControlSet, ActivePoints
  <2>3. Promise!Approve
    BY <2>1, <2>2 DEF Promise!Approve
  <2> QED
    BY <2>3 DEF Promise!Next
<1>4. ASSUME NEW a \in Actors, NEW failed \in SUBSET PointIds,
             Reject(a, failed)
      PROVE  [Promise!Next]_Promise!vars
  <2>1. state = "pending_review" /\ state' = "needs_fix"
    BY <1>4, VerdictType DEF Reject
  <2>2. Promise!Return
    BY <2>1 DEF Promise!Return
  <2> QED
    BY <2>2 DEF Promise!Next
<1>5. CASE Release
  <2>1. /\ state = "pending_release" /\ state' = "published"
        /\ manifest' = [baseline |-> baseline, set |-> ControlSet(points),
                        eval |-> eval, review |-> review]
    BY <1>5 DEF Release
  <2>2. Promise!Publish
    BY <2>1 DEF Promise!Publish
  <2> QED
    BY <2>2 DEF Promise!Next
<1>6. CASE Restart
  <2>1. UNCHANGED <<state, baseline, points, review, manifest>>
    BY <1>6 DEF Restart
  <2> QED
    BY <2>1 DEF ControlSet, ActivePoints
<1>7. CASE UNCHANGED vars
  <2>1. UNCHANGED <<state, baseline, points, review, manifest>>
    BY <1>7 DEF vars, jobVars
  <2> QED
    BY <2>1 DEF ControlSet, ActivePoints
<1>8. CASE \/ \E b \in Baselines : CreateJob(b)
           \/ \E b \in Baselines : ReviseBaseline(b)
           \/ Freeze
           \/ \E P : PointCommand(P)
           \/ Evaluate
           \/ \E it \in items, r \in Rows : ReplacePoint(it, r)
  BY <1>1, <1>8
  DEF CreateJob, ReviseBaseline, Freeze, PointCommand, AdvancePoints, StateOf,
      AllowsPointMaintenance, Evaluate, ReplacePoint, Addressed
<1> QED
  BY <1>2, <1>3, <1>4, <1>5, <1>6, <1>7, <1>8, NextCases

(* Only an acceptable control set is submitted, an independent reviewer    *)
(* approves it as it was submitted, and what was approved is published.    *)
THEOREM PromiseKept == Spec => KeepsPromise
<1>1. Init => Promise!Init
  BY DEF Init, Promise!Init, GatePhase, GateContent, GateApprover
<1>2. IInv /\ IInv' /\ [Next]_vars => [Promise!Next]_Promise!vars
  BY PromiseStep
<1> QED
  BY <1>1, <1>2, InductiveInvariant, PTL DEF Spec, KeepsPromise, Promise!Spec

-------------------------------------------------------------------------------
(***************************************************************************)
(* The records of remediation.  The items and instructions agree with each *)
(* other and with the points; every part needs the others, and the whole   *)
(* needs that the points are sound and that a job is submitted only with   *)
(* its items closed.                                                       *)
(***************************************************************************)
Records ==
  /\ ReplacementLineage
  /\ OneItemPerPoint
  /\ InstructionTracksItem

(* The part of ReplacementLineage that is about the items. *)
ItemLineage(it) ==
  /\ it.replacement # NoId =>
       /\ [old |-> it.point, new |-> it.replacement] \in remediations
       /\ it.point \notin Ids(ActivePoints(points))
  /\ it.status = "closed" => it.replacement # NoId

LEMMA ClosedItemsInactive ==
  ASSUME IInv, Records, NEW it \in items, ~ItemIsOpen(it)
  PROVE  it.point \notin Ids(ActivePoints(points))
BY DEF Records, ReplacementLineage, ItemIsOpen, IInv, TypeOK, Item

(* A point with an item that has a replacement stays out of use.           *)
LEMMA ReplacedStaysInactive ==
  ASSUME IInv, Records, NEW it \in items, it.replacement # NoId,
         NEW P, PointsSound(P), \A x \in points : ~x.active => x \in P
  PROVE  it.point \notin Ids(ActivePoints(P))
<1>1. it.point \in Ids(points)
  <2>1. [old |-> it.point, new |-> it.replacement] \in remediations
    BY DEF Records, ReplacementLineage
  <2>2. \A m \in remediations : m.old \in Ids(points)
    BY <2>1 DEF IInv, NothingYet, Integrity, ValidateAggregate
  <2> QED
    BY <2>1, <2>2
<1>2. it.point \notin Ids(ActivePoints(points))
  BY DEF Records, ReplacementLineage
<1>3. PICK x \in points : x.id = it.point /\ ~x.active
  BY <1>1, <1>2 DEF Ids, ActivePoints
<1>4. x \in P
  BY <1>3
<1> QED
  BY <1>3, <1>4 DEF PointsSound, Ids, ActivePoints

LEMMA PointCommandRecords ==
  ASSUME IInv, Records, NEW P, PointCommand(P)
  PROVE  Records'
<1>1. /\ points' = P /\ Lineage(P) = Lineage(points) /\ PointsSound(P)
      /\ \A x \in points : ~x.active => x \in P
      /\ UNCHANGED <<items, remediations, instructions>>
  BY DEF PointCommand, AdvancePoints, StateOf, remediationVars
<1>2. \A it \in items : it.replacement # NoId =>
        it.point \notin Ids(ActivePoints(P))
  BY <1>1, ReplacedStaysInactive
<1>3. ReplacementLineage'
  BY <1>1, <1>2 DEF Records, ReplacementLineage, Lineage, ActivePoints, Ids
<1>4. OneItemPerPoint' /\ InstructionTracksItem'
  BY <1>1 DEF Records, OneItemPerPoint, InstructionTracksItem
<1> QED
  BY <1>3, <1>4 DEF Records

LEMMA EvaluateRecords ==
  ASSUME IInv, Records, Evaluate
  PROVE  Records'
<1> DEFINE ev == eval'
           raised == {x \in ev.outliers :
                        \A it \in items : ItemIsOpen(it) => it.point # x}
<1>1. /\ UNCHANGED <<points, remediations, instructions>>
      /\ items \subseteq Item
  BY DEF Evaluate, IInv, TypeOK
<1>2. /\ ev \in Evaluation
      /\ ev.outliers \subseteq Ids(ActivePoints(points))
      /\ Ids(ev.set) = Ids(ActivePoints(points))
      /\ items' = ItemsAfter(ev)
  <2>1. points \in SUBSET Point
    BY DEF IInv, TypeOK
  <2>2. Ids(ControlSet(points)) = Ids(ActivePoints(points))
    BY <2>1, ControlSetType
  <2>3. Outliers(baseline, ControlSet(points)) \subseteq Ids(ControlSet(points))
    BY EvaluateType, OutliersType
  <2> QED
    BY <2>2, <2>3, EvaluateType
<1> HIDE DEF ev
<1>3. items' = {ItemAfter(it, ev) : it \in items} \cup
               {RaisedItem(id, ev) : id \in raised}
  BY <1>2, ItemsAfterParts
<1>4. \A it \in items : /\ ItemAfter(it, ev).point = it.point
                        /\ ItemAfter(it, ev).eval = it.eval
                        /\ ItemAfter(it, ev).source = it.source
                        /\ ItemAfter(it, ev).replacement = it.replacement
  BY <1>1, ItemAfterFields
<1>5. NoId \notin Ids(ev.set)
  BY <1>2, RulesAssumption, JobAssumption DEF Evaluation, Ids
<1>6. \A it \in items : ItemAfter(it, ev).status = "closed" =>
                          ItemAfter(it, ev).replacement # NoId
  BY <1>1, <1>4, <1>5
  DEF ItemAfter, Remedied, ItemIsOpen, Item, Records, ReplacementLineage
<1>7. \A id \in raised : /\ RaisedItem(id, ev).point = id
                         /\ RaisedItem(id, ev).status = "open"
                         /\ RaisedItem(id, ev).replacement = NoId
  BY DEF RaisedItem
<1>8. \A id \in raised, it \in items : it.point # id
  <2> SUFFICES ASSUME NEW id \in raised, NEW it \in items PROVE it.point # id
    OBVIOUS
  <2>1. CASE ItemIsOpen(it)
    BY <2>1
  <2>2. CASE ~ItemIsOpen(it)
    BY <1>2, <2>2, ClosedItemsInactive
  <2> QED
    BY <2>1, <2>2
<1> HIDE DEF raised
<1>9. ReplacementLineage'
  <2>1. ASSUME NEW it \in items'
        PROVE  ItemLineage(it)
    <3>1. CASE \E jt \in items : it = ItemAfter(jt, ev)
      BY <1>4, <1>6, <3>1 DEF ItemLineage, Records, ReplacementLineage
    <3>2. CASE \E id \in raised : it = RaisedItem(id, ev)
      BY <1>7, <3>2 DEF ItemLineage
    <3> QED
      BY <1>3, <2>1, <3>1, <3>2
  <2> QED
    BY <1>1, <2>1
    DEF ItemLineage, Records, ReplacementLineage, Lineage, ActivePoints
<1>10. OneItemPerPoint'
  <2> SUFFICES ASSUME NEW it \in items', NEW jt \in items', it.point = jt.point
               PROVE  it = jt
    BY DEF OneItemPerPoint
  <2>1. ASSUME NEW x \in items', NEW y \in items', x.point = y.point,
               NEW k \in items, x = ItemAfter(k, ev)
        PROVE  x = y
    <3>1. y.point = k.point
      BY <1>4, <2>1
    <3>2. PICK l \in items : y = ItemAfter(l, ev)
      BY <1>3, <1>7, <1>8, <3>1
    <3>3. k.point = l.point
      BY <1>4, <3>1, <3>2
    <3>4. k = l
      BY <3>3 DEF Records, OneItemPerPoint
    <3> QED
      BY <2>1, <3>2, <3>4
  <2>2. CASE \E k \in items : it = ItemAfter(k, ev)
    BY <2>1, <2>2
  <2>3. CASE \E k \in items : jt = ItemAfter(k, ev)
    BY <2>1, <2>3
  <2>4. CASE /\ \E id \in raised : it = RaisedItem(id, ev)
             /\ \E id \in raised : jt = RaisedItem(id, ev)
    BY <1>7, <2>4
  <2> QED
    BY <1>3, <2>2, <2>3, <2>4
<1>11. InstructionTracksItem'
  <2> SUFFICES ASSUME NEW n \in instructions
               PROVE  \E it \in items' :
                        /\ it.source = "review" /\ it.point = n.point
                        /\ it.eval = n.eval
                        /\ n.status = "open" <=> it.replacement = NoId
    BY <1>1 DEF InstructionTracksItem
  <2>1. PICK it \in items : /\ it.source = "review" /\ it.point = n.point
                            /\ it.eval = n.eval
                            /\ n.status = "open" <=> it.replacement = NoId
    BY DEF Records, InstructionTracksItem
  <2>2. ItemAfter(it, ev) \in items'
    BY <1>3
  <2> QED
    BY <1>4, <2>1, <2>2
<1> QED
  BY <1>9, <1>10, <1>11 DEF Records

LEMMA ReplacePointRecords ==
  ASSUME IInv, Records, NEW it \in items, NEW r \in Rows, ReplacePoint(it, r)
  PROVE  Records'
<1> DEFINE new == [it EXCEPT !.replacement = r.id]
           P == Replaced(it.point, r)
           pair == [old |-> it.point, new |-> r.id]
<1>1. /\ points' = P
      /\ remediations' = remediations \cup {pair}
      /\ items' = (items \ {it}) \cup {new}
      /\ instructions' = {IF n.point = it.point
                          THEN [n EXCEPT !.status = "addressed"]
                          ELSE n : n \in instructions}
      /\ ItemIsOpen(it)
  BY DEF ReplacePoint, Addressed
<1>2. /\ PointsSound(P)
      /\ \A x \in points : ~x.active => x \in P
      /\ it.point \notin Ids(ActivePoints(P))
      /\ Lineage(P) = Lineage(points) \cup {pair}
  BY ReplacedSound
<1>3. r.id \in PointIds /\ r.id # NoId /\ it \in Item
  BY RulesAssumption, JobAssumption DEF IInv, TypeOK
<1>4. /\ new.point = it.point /\ new.eval = it.eval
      /\ new.source = it.source /\ new.status = it.status
      /\ new.replacement = r.id
  BY <1>3 DEF Item
<1> HIDE DEF new, P
<1>5. ReplacementLineage'
  <2>1. remediations' = Lineage(P)
    BY <1>1, <1>2 DEF Records, ReplacementLineage
  <2>2. Lineage(points)' = Lineage(P) /\ ActivePoints(points)' = ActivePoints(P)
    BY <1>1 DEF Lineage, ActivePoints
  <2>3. ASSUME NEW jt \in items'
        PROVE  /\ jt.replacement # NoId =>
                    /\ [old |-> jt.point, new |-> jt.replacement]
                         \in remediations'
                    /\ jt.point \notin Ids(ActivePoints(P))
               /\ jt.status = "closed" => jt.replacement # NoId
    <3>1. CASE jt = new
      BY <1>1, <1>2, <1>3, <1>4, <3>1
    <3>2. CASE jt \in items
      <4>1. jt.replacement # NoId => jt.point \notin Ids(ActivePoints(P))
        BY <1>2, <3>2, ReplacedStaysInactive
      <4> QED
        BY <1>1, <3>2, <4>1 DEF Records, ReplacementLineage
    <3> QED
      BY <1>1, <2>3, <3>1, <3>2
  <2> QED
    BY <2>1, <2>2, <2>3 DEF ReplacementLineage, Ids
<1>6. OneItemPerPoint'
  BY <1>1, <1>4 DEF Records, OneItemPerPoint
<1>7. InstructionTracksItem'
  <2> SUFFICES ASSUME NEW m \in instructions'
               PROVE  \E jt \in items' :
                        /\ jt.source = "review" /\ jt.point = m.point
                        /\ jt.eval = m.eval
                        /\ m.status = "open" <=> jt.replacement = NoId
    BY DEF InstructionTracksItem
  <2>1. PICK n \in instructions :
          m = IF n.point = it.point THEN [n EXCEPT !.status = "addressed"]
              ELSE n
    BY <1>1
  <2>2. PICK jt \in items : /\ jt.source = "review" /\ jt.point = n.point
                            /\ jt.eval = n.eval
                            /\ n.status = "open" <=> jt.replacement = NoId
    BY DEF Records, InstructionTracksItem
  <2>3. n \in Instruction
    BY DEF IInv, TypeOK
  <2>4. CASE n.point = it.point
    <3>1. jt = it
      BY <2>2, <2>4 DEF Records, OneItemPerPoint
    <3>2. /\ m.point = n.point /\ m.eval = n.eval /\ m.status = "addressed"
      BY <2>1, <2>3, <2>4 DEF Instruction
    <3> QED
      BY <1>1, <1>3, <1>4, <2>2, <3>1, <3>2
  <2>5. CASE n.point # it.point
    BY <1>1, <2>1, <2>2, <2>5
  <2> QED
    BY <2>4, <2>5
<1> QED
  BY <1>5, <1>6, <1>7 DEF Records

LEMMA RejectRecords ==
  ASSUME IInv, Records, NEW a \in Actors, NEW failed \in SUBSET PointIds,
         Reject(a, failed)
  PROVE  Records'
<1> DEFINE item(id) == [point |-> id, eval |-> current, source |-> "review",
                        status |-> "open", replacement |-> NoId]
           told(id) == [point |-> id, eval |-> current, status |-> "open"]
<1>1. /\ UNCHANGED <<points, remediations>>
      /\ items' = items \cup {item(id) : id \in failed}
      /\ instructions' = instructions \cup {told(id) : id \in failed}
  BY DEF Reject
<1>2. /\ \A it \in items : ~ItemIsOpen(it)
      /\ failed \subseteq Ids(ActivePoints(points))
  <2>1. /\ state = "pending_review"
        /\ failed \subseteq Sample(baseline, ControlSet(points))
    BY DEF Reject, Verdict, SampleDigest
  <2>2. /\ points \in SUBSET Point
        /\ baseline \in Baselines
    BY <2>1 DEF IInv, TypeOK, Integrity, ValidateAggregate
  <2>3. /\ ControlSet(points) \in SUBSET Rows
        /\ Ids(ControlSet(points)) = Ids(ActivePoints(points))
    BY <2>2, ControlSetType
  <2>4. Sample(baseline, ControlSet(points)) \subseteq
          {r.id : r \in ControlSet(points)}
    BY <2>2, <2>3, RulesAssumption
  <2> QED
    BY <2>1, <2>3, <2>4 DEF Ids, IInv, SubmittedEvidence
<1>3. \A it \in items, id \in failed : it.point # id
  BY <1>2, ClosedItemsInactive
<1>4. \A id \in failed :
        /\ item(id).point = id /\ item(id).eval = current
        /\ item(id).source = "review" /\ item(id).status = "open"
        /\ item(id).replacement = NoId
        /\ told(id).point = id /\ told(id).eval = current
        /\ told(id).status = "open"
  OBVIOUS
<1> HIDE DEF item, told
<1>5. ReplacementLineage'
  BY <1>1, <1>4 DEF Records, ReplacementLineage, Lineage, ActivePoints, Ids
<1>6. OneItemPerPoint'
  BY <1>1, <1>3, <1>4 DEF Records, OneItemPerPoint
<1>7. InstructionTracksItem'
  BY <1>1, <1>4 DEF Records, InstructionTracksItem
<1> QED
  BY <1>5, <1>6, <1>7 DEF Records

LEMMA RecordsStep ==
  ASSUME IInv, Records, [Next]_vars
  PROVE  Records'
<1>1. ASSUME UNCHANGED <<points, items, remediations, instructions>>
      PROVE  Records'
  BY <1>1 DEF Records, ReplacementLineage, OneItemPerPoint,
              InstructionTracksItem, Lineage, ActivePoints
<1>2. CASE \/ \E b \in Baselines : CreateJob(b)
           \/ \E b \in Baselines : ReviseBaseline(b)
           \/ Freeze
           \/ SubmitReview
           \/ \E a \in Actors : Approve(a)
           \/ Release
           \/ Restart
           \/ UNCHANGED vars
  BY <1>1, <1>2
  DEF CreateJob, ReviseBaseline, Freeze, SubmitReview, Approve, Release,
      Restart, vars, remediationVars
<1> QED
  BY <1>2, NextCases, PointCommandRecords, EvaluateRecords,
     ReplacePointRecords, RejectRecords

(* Items, instructions, remediation records and points tell one story: one *)
(* item per point, closed only with a replacement that is on record and    *)
(* that supersedes the point, and instructions open as long as their item  *)
(* has none.                                                               *)
THEOREM RecordsAgree ==
  Spec => [](ReplacementLineage /\ OneItemPerPoint /\ InstructionTracksItem)
<1>1. Init => Records
  BY DEF Init, Records, ReplacementLineage, OneItemPerPoint,
         InstructionTracksItem, Lineage
<1>2. IInv /\ Records /\ [Next]_vars => Records'
  BY RecordsStep
<1> QED
  BY <1>1, <1>2, InductiveInvariant, PTL DEF Spec, Records

(* OneItemPerPoint: no failed evaluation or returned sample raises a second *)
(* item for a point.                                                        *)
THEOREM ItemsAreUnique == Spec => []OneItemPerPoint
  BY RecordsAgree, PTL

(* InstructionTracksItem: an instruction of a review is addressed exactly   *)
(* when the item of its point has a replacement.                            *)
THEOREM InstructionsTrackItems == Spec => []InstructionTracksItem
  BY RecordsAgree, PTL

(* What a step keeps of the points, the records, the items and the         *)
(* instructions.                                                           *)
Kept ==
  /\ Ids(points) \subseteq Ids(points')
  /\ \A x \in points : ~x.active => x \in points'
  /\ remediations \subseteq remediations'
  /\ \A it \in items : ~ItemIsOpen(it) => it \in items'
  /\ \A n \in instructions : n.status = "addressed" => n \in instructions'

LEMMA RetainedStep ==
  ASSUME IInv, Next
  PROVE  Kept
<1> USE DEF Kept
<1>1. ASSUME NEW P, PointCommand(P) PROVE Kept
  BY <1>1 DEF PointCommand, AdvancePoints, StateOf, remediationVars
<1>2. CASE Evaluate
  <2>1. items' = ItemsAfter(eval')
    BY <1>2, EvaluateType
  <2>2. \A it \in items : ~ItemIsOpen(it) => it \in items'
    BY <2>1, ItemsAfterParts DEF ItemAfter, Remedied
  <2> QED
    BY <1>2, <2>2 DEF Evaluate
<1>3. ASSUME NEW it \in items, NEW r \in Rows, ReplacePoint(it, r) PROVE Kept
  <2>1. /\ Ids(points') = Ids(points) \cup {r.id}
        /\ \A x \in points : ~x.active => x \in points'
    BY <1>3, ReplacedSound DEF ReplacePoint, Addressed
  <2>2. \A jt \in items : ~ItemIsOpen(jt) => jt \in items'
    BY <1>3 DEF ReplacePoint, Addressed
  <2>3. \A n \in instructions : n.status = "addressed" => n \in instructions'
    <3> SUFFICES ASSUME NEW n \in instructions, n.status = "addressed"
                 PROVE  n \in instructions'
      OBVIOUS
    <3>1. [n EXCEPT !.status = "addressed"] = n
      BY DEF IInv, TypeOK, Instruction
    <3> QED
      BY <1>3, <3>1 DEF ReplacePoint, Addressed
  <2> QED
    BY <1>3, <2>1, <2>2, <2>3 DEF ReplacePoint, Addressed
<1>4. ASSUME NEW a \in Actors, NEW failed \in SUBSET PointIds,
             Reject(a, failed)
      PROVE  Kept
  BY <1>4 DEF Reject
<1>5. CASE \/ \E b \in Baselines : CreateJob(b)
           \/ \E b \in Baselines : ReviseBaseline(b)
           \/ Freeze
           \/ SubmitReview
           \/ \E a \in Actors : Approve(a)
           \/ Release
           \/ Restart
  BY <1>5
  DEF CreateJob, ReviseBaseline, Freeze, SubmitReview, Approve, Release,
      Restart, remediationVars
<1> QED
  BY <1>1, <1>2, <1>3, <1>4, <1>5, NextCases

(* No step loses or revives evidence: points, replacement records, closed  *)
(* items and addressed instructions; of a published job nothing changes.   *)
THEOREM EvidenceIsRetained == Spec => EvidenceRetained
<1>1. IInv /\ [Next]_vars => [Kept /\ (state = "published" => UNCHANGED vars)]_vars
  BY RetainedStep, PublishedStays
<1> QED
  BY <1>1, InductiveInvariant, PTL DEF Spec, EvidenceRetained, Kept

-------------------------------------------------------------------------------
(* The job follows the lifecycle                                            *)

LEMMA LifecycleStep ==
  ASSUME IInv, [Next]_vars
  PROVE  [Life!Next]_Life!vars
<1> USE DEF NextRevision, Life!vars, Life!Moves, Life!Maintained
<1>1. ASSUME NEW to, <<state, to>> \in Life!Moves, state' = to,
             revision' = revision + 1
      PROVE  Life!Next
  BY <1>1 DEF Life!Next, Life!Move
<1>2. ASSUME NEW P, PointCommand(P) PROVE Life!Next
  BY <1>1, <1>2 DEF PointCommand, AdvancePoints, StateOf, AllowsPointMaintenance
<1>3. CASE Evaluate
  BY <1>1, <1>3 DEF Evaluate
<1>4. ASSUME NEW it \in items, NEW r \in Rows, ReplacePoint(it, r)
      PROVE  Life!Next
  BY <1>1, <1>4 DEF ReplacePoint, Addressed
<1>5. CASE \/ \E b \in Baselines : CreateJob(b)
           \/ \E b \in Baselines : ReviseBaseline(b)
           \/ Freeze
           \/ SubmitReview
           \/ \E a \in Actors : Approve(a)
           \/ \E a \in Actors, failed \in SUBSET PointIds : Reject(a, failed)
           \/ Release
  BY <1>1, <1>5
  DEF CreateJob, ReviseBaseline, Freeze, SubmitReview, Approve, Reject,
      Verdict, Release
<1>6. CASE Restart
  BY <1>6 DEF Restart
<1>7. CASE UNCHANGED vars
  BY <1>7 DEF vars, jobVars
<1> QED
  BY <1>2, <1>3, <1>4, <1>5, <1>6, <1>7, NextCases

(* Every command makes one move of the lifecycle, and restarts make none.  *)
THEOREM LifecycleFollowed == Spec => FollowsLifecycle
<1>1. Init => Life!Init
  BY DEF Init, Life!Init
<1>2. IInv /\ [Next]_vars => [Life!Next]_Life!vars
  BY LifecycleStep
<1> QED
  BY <1>1, <1>2, InductiveInvariant, PTL DEF Spec, FollowsLifecycle, Life!Spec

-------------------------------------------------------------------------------
(* The server that never stops                                              *)

LEMMA CurrentFreshStep ==
  ASSUME IInv, CurrentFresh, [Command]_vars
  PROVE  CurrentFresh'
<1>1. ASSUME UNCHANGED <<current, eval, points>> PROVE CurrentFresh'
  BY <1>1 DEF CurrentFresh, ControlSet, ActivePoints
<1>2. ASSUME current' = 0 PROVE CurrentFresh'
  BY <1>2 DEF CurrentFresh
<1>3. CASE Evaluate
  <2>1. eval'.set = ControlSet(points) /\ points' = points
    BY <1>3, EvaluateType DEF Evaluate
  <2> QED
    BY <2>1 DEF CurrentFresh, ControlSet, ActivePoints
<1>4. CASE Command /\ ~Evaluate
  <2>1. \/ current' = 0
        \/ UNCHANGED <<current, eval, points>>
    BY <1>4
    DEF Command, CreateJob, ReviseBaseline, Freeze, AddPoint, UpdatePoint,
        ImportBatch, DeactivatePoint, AdvancePoints, StateOf, ReplacePoint, Addressed,
        SubmitReview, Approve, Reject, Release
  <2> QED
    BY <1>1, <1>2, <2>1
<1>5. CASE UNCHANGED vars
  BY <1>1, <1>5 DEF vars, jobVars
<1> QED
  BY <1>3, <1>4, <1>5

(* Without restarts, an evaluation that is current is one of the points as *)
(* they are.                                                               *)
THEOREM CurrentIsFresh == SpecNoRestart => []CurrentFresh
<1>1. Init => IInv /\ CurrentFresh
  BY InitHolds DEF Init, CurrentFresh
<1>2. IInv /\ CurrentFresh /\ [Command]_vars => (IInv /\ CurrentFresh)'
  BY CurrentFreshStep, TypeStep, NothingYetStep, IntegrityStep, EvaluationStep,
     VerdictStep, SubmittedStep, PublishedStep DEF IInv, Next
<1> QED
  BY <1>1, <1>2, PTL DEF SpecNoRestart
===============================================================================
