--------------------------- MODULE RemediationProofs ---------------------------
(***************************************************************************)
(* Theorems about the remediation of a registration job: what keeps a job  *)
(* in needs_fix, what a failed evaluation leaves behind, and how an open   *)
(* item loses the points by which it could be closed.                      *)
(***************************************************************************)
EXTENDS RegistrationProofs

ActiveIds == Ids(ActivePoints(points))

(* Commands that change neither the points nor the items.                  *)
Aside ==
  \/ \E b \in Baselines : CreateJob(b)
  \/ \E b \in Baselines : ReviseBaseline(b)
  \/ Freeze
  \/ SubmitReview
  \/ \E a \in Actors : Approve(a)
  \/ Release
  \/ Restart

LEMMA AsideKeeps ==
  ASSUME Aside
  PROVE  /\ UNCHANGED <<points, items, eval>>
         /\ state' = "needs_fix" => UNCHANGED <<state, baseline, review>>
BY DEF Aside, CreateJob, ReviseBaseline, Freeze, SubmitReview, Approve, Release,
       Restart, remediationVars, MayFreeze

LEMMA InvariantStep == IInv /\ [Next]_vars => IInv'
BY TypeStep, NothingYetStep, IntegrityStep, EvaluationStep, VerdictStep,
   SubmittedStep, PublishedStep DEF IInv

-------------------------------------------------------------------------------
(* Why a job needs a fix                                                    *)

LEMMA CauseStep ==
  ASSUME IInv, NeedsFixHasCause, [Next]_vars
  PROVE  NeedsFixHasCause'
<1>1. ASSUME UNCHANGED <<points, eval>>,
             state' = "needs_fix" => UNCHANGED <<state, baseline, review>>
      PROVE  NeedsFixHasCause'
  BY <1>1 DEF NeedsFixHasCause, ControlSet, ActivePoints
<1>2. ASSUME NEW P, PointCommand(P) PROVE NeedsFixHasCause'
  BY <1>2 DEF PointCommand, AdvancePoints, StateOf, NeedsFixHasCause
<1>3. CASE Evaluate
  <2>1. /\ eval'.set = ControlSet(points)
        /\ points' = points
        /\ state' = "needs_fix" => eval'.decision = "remediate"
    BY <1>3, EvaluateType DEF Evaluate, Evaluation
  <2> QED
    BY <2>1 DEF NeedsFixHasCause, ControlSet, ActivePoints
<1>4. ASSUME NEW it \in items, NEW r \in Rows, ReplacePoint(it, r)
      PROVE  NeedsFixHasCause'
  <2> DEFINE P == Replaced(it.point, r)
  <2>1. /\ points' = P /\ UNCHANGED <<eval, baseline>>
        /\ Ready(baseline, ControlSet(P)) /\ Passes(baseline, ControlSet(P))
        /\ eval # None
    BY <1>4 DEF ReplacePoint, Addressed, WouldPass
  <2>2. ControlSet(points)' = ControlSet(P)
    BY <2>1 DEF ControlSet, ActivePoints
  <2>3. r.id \in Ids(ControlSet(P))
    <3>1. AsPoint(r, it.point) \in ActivePoints(P)
      BY DEF Replaced, ActivePoints, AsPoint
    <3>2. AsRow(AsPoint(r, it.point)).id = r.id
      BY DEF AsRow, AsPoint
    <3> QED
      BY <3>1, <3>2 DEF ControlSet, Ids
  <2>4. r.id \notin Ids(points) /\ state # "none"
    BY <1>4, ReplacedSound DEF ReplacePoint
  <2>5. Ids(eval.set) \subseteq Ids(points)
    BY <2>1, <2>4 DEF IInv, Integrity, ValidateAggregate
  <2> HIDE DEF P
  <2>6. eval.set # ControlSet(P)
    BY <2>3, <2>4, <2>5
  <2> QED
    BY <2>1, <2>2, <2>6 DEF NeedsFixHasCause
<1>5. ASSUME NEW a \in Actors, NEW failed \in SUBSET PointIds, Reject(a, failed)
      PROVE  NeedsFixHasCause'
  <2>1. /\ state = "pending_review"
        /\ review' # None /\ review'.decision = "reject"
        /\ UNCHANGED <<points, eval>>
    BY <1>5, VerdictType DEF Reject
  <2>2. eval.set = ControlSet(points)
    BY <2>1 DEF IInv, SubmittedEvidence, CurrentPass
  <2> QED
    BY <2>1, <2>2 DEF NeedsFixHasCause, ControlSet, ActivePoints
<1>6. CASE Aside
  BY <1>1, <1>6, AsideKeeps
<1>7. CASE UNCHANGED vars
  BY <1>1, <1>7 DEF vars, jobVars
<1> QED
  BY <1>2, <1>3, <1>4, <1>5, <1>6, <1>7, NextCases DEF Aside

(* NeedsFixHasCause: the points of a job in needs_fix failed the last       *)
(* evaluation or the review, or replacements have made them pass.           *)
THEOREM FixesHaveCauses == Spec => []NeedsFixHasCause
<1>1. Init => NeedsFixHasCause
  BY DEF Init, NeedsFixHasCause
<1> QED
  BY <1>1, CauseStep, InductiveInvariant, PTL DEF Spec

-------------------------------------------------------------------------------
(* What a failed evaluation leaves behind                                   *)

(* Every outlier of the last evaluation has an open item, whatever happened *)
(* to its point since.                                                      *)
OutliersHaveItems ==
  eval # None =>
    \A id \in eval.outliers : \E it \in items : it.point = id /\ ItemIsOpen(it)

LEMMA OutliersStep ==
  ASSUME IInv, OutliersHaveItems, [Next]_vars
  PROVE  OutliersHaveItems'
<1>1. ASSUME eval' = eval, items \subseteq items' PROVE OutliersHaveItems'
  BY <1>1 DEF OutliersHaveItems, ItemIsOpen
<1>2. CASE Evaluate
  <2> SUFFICES ASSUME NEW id \in eval'.outliers
               PROVE  \E it \in items' : it.point = id /\ ItemIsOpen(it)
    BY DEF OutliersHaveItems, ItemIsOpen
  <2>1. /\ items' = {ItemAfter(it, eval') : it \in items} \cup
             {RaisedItem(x, eval') : x \in
                {y \in eval'.outliers : \A it \in items : ItemIsOpen(it) => it.point # y}}
        /\ items \subseteq Item
    BY <1>2, EvaluateType, ItemsAfterParts DEF IInv, TypeOK
  <2>2. CASE \A it \in items : ItemIsOpen(it) => it.point # id
    <3>1. RaisedItem(id, eval') \in items'
      BY <2>1, <2>2
    <3>2. RaisedItem(id, eval').point = id /\ ItemIsOpen(RaisedItem(id, eval'))
      BY DEF RaisedItem, ItemIsOpen
    <3> QED
      BY <3>1, <3>2
  <2>3. ASSUME NEW it \in items, ItemIsOpen(it), it.point = id
        PROVE  \E jt \in items' : jt.point = id /\ ItemIsOpen(jt)
    <3>1. ItemAfter(it, eval') \in items'
      BY <2>1
    <3>2. ItemAfter(it, eval') = [it EXCEPT !.status = "reopened"]
      BY <2>3 DEF ItemAfter
    <3>3. ItemIsOpen(ItemAfter(it, eval')) /\ ItemAfter(it, eval').point = id
      BY <2>1, <2>3, <3>2 DEF ItemIsOpen, Item
    <3> QED
      BY <3>1, <3>3
  <2> QED
    BY <2>2, <2>3
<1>3. ASSUME NEW it \in items, NEW r \in Rows, ReplacePoint(it, r)
      PROVE  OutliersHaveItems'
  <2> DEFINE new == [it EXCEPT !.replacement = r.id]
  <2>1. items' = (items \ {it}) \cup {new} /\ eval' = eval
    BY <1>3 DEF ReplacePoint
  <2>2. new.point = it.point /\ new.status = it.status
    BY DEF IInv, TypeOK, Item
  <2> HIDE DEF new
  <2> QED
    BY <2>1, <2>2 DEF OutliersHaveItems, ItemIsOpen
<1>4. ASSUME NEW P, PointCommand(P) PROVE OutliersHaveItems'
  BY <1>1, <1>4 DEF PointCommand, remediationVars
<1>5. ASSUME NEW a \in Actors, NEW failed \in SUBSET PointIds, Reject(a, failed)
      PROVE  OutliersHaveItems'
  BY <1>1, <1>5 DEF Reject
<1>6. CASE Aside
  BY <1>1, <1>6, AsideKeeps
<1>7. CASE UNCHANGED vars
  BY <1>1, <1>7 DEF vars, remediationVars
<1> QED
  BY <1>2, <1>3, <1>4, <1>5, <1>6, <1>7, NextCases DEF Aside

(* An outlier of the last evaluation is never out of sight: its item is    *)
(* open until an evaluation of which it is no outlier, through deactivated *)
(* points, replacements, rejections and restarts.                          *)
THEOREM OutliersKeepItems == Spec => []OutliersHaveItems
<1>1. Init => OutliersHaveItems
  BY DEF Init, OutliersHaveItems
<1> QED
  BY <1>1, OutliersStep, InductiveInvariant, PTL DEF Spec

-------------------------------------------------------------------------------
(* How an open item loses its points                                        *)

Served(it) == {it.point, it.replacement} \cap ActiveIds # {}

(* The points that the items are about exist.                              *)
Anchored == \A it \in items : it.point \in Ids(points)

LEMMA ActiveIdsFacts ==
  ASSUME IInv
  PROVE  ActiveIds \subseteq Ids(points) /\ Ids(points) \subseteq PointIds /\ NoId \notin Ids(points)
BY JobAssumption DEF ActiveIds, ActivePoints, Ids, IInv, TypeOK, Point

(* An evaluation finds outliers, and a reviewer failed points, among the   *)
(* points in use.                                                          *)
LEMMA ProblemsAreActive ==
  ASSUME IInv
  PROVE  /\ Evaluate => eval'.outliers \subseteq ActiveIds /\ Ids(eval'.set) = ActiveIds
         /\ \A a \in Actors, failed \in SUBSET PointIds :
              Reject(a, failed) => failed \subseteq ActiveIds
<1>1. points \in SUBSET Point
  BY DEF IInv, TypeOK
<1>2. Ids(ControlSet(points)) = ActiveIds /\ ControlSet(points) \in SUBSET Rows
  BY <1>1, ControlSetType DEF ActiveIds
<1>3. ASSUME Evaluate
      PROVE  eval'.outliers \subseteq ActiveIds /\ Ids(eval'.set) = ActiveIds
  <2>1. /\ eval'.outliers = Outliers(baseline, ControlSet(points))
        /\ eval'.set = ControlSet(points) /\ baseline \in Baselines
    BY <1>3, EvaluateType
  <2> QED
    BY <1>2, <2>1, OutliersType
<1>4. ASSUME NEW a \in Actors, NEW failed \in SUBSET PointIds, Reject(a, failed)
      PROVE  failed \subseteq ActiveIds
  <2>1. failed \subseteq Sample(baseline, ControlSet(points)) /\ state = "pending_review"
    BY <1>4 DEF Reject, Verdict, SampleDigest, MayReview
  <2>2. baseline \in Baselines
    BY <2>1 DEF IInv, Integrity, ValidateAggregate
  <2>3. Sample(baseline, ControlSet(points)) \subseteq {r.id : r \in ControlSet(points)}
    BY <1>2, <2>2, RulesAssumption
  <2> QED
    BY <1>2, <2>1, <2>3 DEF Ids
<1> QED
  BY <1>3, <1>4

(* A point that is out of use stays so.                                    *)
LEMMA StaysOut ==
  ASSUME IInv, Next, NEW id \in Ids(points) \ ActiveIds
  PROVE  id \notin ActiveIds'
<1>1. PICK x \in points : x.id = id /\ ~x.active
  BY DEF ActiveIds, Ids, ActivePoints
<1>2. x \in points'
  BY <1>1, RetainedStep DEF Kept
<1>3. \A y \in points' : y.id = x.id => y = x
  <2>1. IInv'
    BY InvariantStep
  <2>2. points' = {} \/ PointsSound(points)'
    BY <2>1 DEF IInv, NothingYet, Integrity, ValidateAggregate
  <2> QED
    BY <1>2, <2>2 DEF PointsSound
<1> QED
  BY <1>1, <1>3 DEF ActiveIds, Ids, ActivePoints

(* A point in use stays so, unless it is deactivated or replaced.           *)
LEMMA StaysActive ==
  ASSUME IInv, Next, NEW id \in ActiveIds
  PROVE  \/ id \in ActiveIds'
         \/ DeactivatePoint(id)
         \/ \E jt \in items, r \in Rows : jt.point = id /\ ReplacePoint(jt, r)
<1>0. PICK x \in points : x.id = id /\ x.active
  BY DEF ActiveIds, Ids, ActivePoints
<1>1. ASSUME \E y \in points' : y.id = id /\ y.active PROVE id \in ActiveIds'
  BY <1>1 DEF ActiveIds, Ids, ActivePoints
<1>2. ASSUME points \subseteq points' PROVE id \in ActiveIds'
  BY <1>0, <1>1, <1>2
<1>3. ASSUME NEW r \in Rows, AddPoint(r) PROVE id \in ActiveIds'
  BY <1>2, <1>3 DEF AddPoint, AdvancePoints
<1>4. ASSUME NEW S \in Batches, ImportBatch(S) PROVE id \in ActiveIds'
  BY <1>2, <1>4 DEF ImportBatch, AdvancePoints
<1>5. ASSUME NEW r \in Rows, UpdatePoint(r) PROVE id \in ActiveIds'
  <2>1. PICK y \in ActivePoints(points) :
          y.id = r.id /\ points' = (points \ {y}) \cup {AsPoint(r, y.supersedes)}
    BY <1>5 DEF UpdatePoint, AdvancePoints
  <2>2. AsPoint(r, y.supersedes).id = r.id /\ AsPoint(r, y.supersedes).active
    BY DEF AsPoint
  <2> QED
    BY <1>0, <1>1, <2>1, <2>2
<1>6. ASSUME NEW other \in PointIds, DeactivatePoint(other), other # id
      PROVE  id \in ActiveIds'
  BY <1>0, <1>1, <1>6 DEF DeactivatePoint, AdvancePoints, WithoutActive
<1>7. ASSUME NEW jt \in items, NEW r \in Rows, ReplacePoint(jt, r), jt.point # id
      PROVE  id \in ActiveIds'
  <2>1. x \in WithoutActive(jt.point)
    BY <1>0, <1>7 DEF WithoutActive
  <2>2. x \in points'
    BY <1>7, <2>1 DEF ReplacePoint, Replaced
  <2> QED
    BY <1>0, <1>1, <2>2
<1>8. CASE Evaluate
  BY <1>2, <1>8 DEF Evaluate
<1>9. ASSUME NEW a \in Actors, NEW failed \in SUBSET PointIds, Reject(a, failed)
      PROVE  id \in ActiveIds'
  BY <1>2, <1>9 DEF Reject
<1>10. CASE Aside
  BY <1>2, <1>10, AsideKeeps
<1> QED
  BY <1>3, <1>4, <1>5, <1>6, <1>7, <1>8, <1>9, <1>10 DEF Next, Command, Aside

(* Where an item comes from: it was there with the same points, it is new   *)
(* and its point in use, or its point was replaced.                         *)
LEMMA ItemOrigins ==
  ASSUME IInv, Next, NEW it \in items'
  PROVE  \/ \E k \in items : /\ it.point = k.point /\ it.replacement = k.replacement
                             /\ ItemIsOpen(it) => ItemIsOpen(k)
         \/ it.point \in ActiveIds /\ points' = points
         \/ \E k \in items, r \in Rows :
              ReplacePoint(k, r) /\ it.point = k.point /\ it.replacement = r.id
<1>1. ASSUME items' = items
      PROVE  \E k \in items : /\ it.point = k.point /\ it.replacement = k.replacement
                              /\ ItemIsOpen(it) => ItemIsOpen(k)
  BY <1>1
<1>2. ASSUME NEW P, PointCommand(P) PROVE items' = items
  BY <1>2 DEF PointCommand, remediationVars
<1>3. CASE Evaluate
  <2>1. /\ items' = {ItemAfter(k, eval') : k \in items} \cup
             {RaisedItem(x, eval') : x \in
                {y \in eval'.outliers : \A k \in items : ItemIsOpen(k) => k.point # y}}
        /\ items \subseteq Item
        /\ points' = points
    BY <1>3, EvaluateType, ItemsAfterParts DEF IInv, TypeOK, Evaluate
  <2>2. ASSUME NEW k \in items, it = ItemAfter(k, eval')
        PROVE  /\ it.point = k.point /\ it.replacement = k.replacement
               /\ ItemIsOpen(it) => ItemIsOpen(k)
    <3>1. it.point = k.point /\ it.replacement = k.replacement
      BY <2>1, <2>2, ItemAfterFields
    <3>2. ~ItemIsOpen(k) => it = k
      BY <2>2 DEF ItemAfter
    <3> QED
      BY <3>1, <3>2
  <2>3. ASSUME NEW x \in eval'.outliers, it = RaisedItem(x, eval')
        PROVE  it.point \in ActiveIds
    BY <1>3, <2>3, ProblemsAreActive DEF RaisedItem
  <2> QED
    BY <2>1, <2>2, <2>3
<1>4. ASSUME NEW k \in items, NEW r \in Rows, ReplacePoint(k, r)
      PROVE  \/ it \in items
             \/ it.point = k.point /\ it.replacement = r.id
  <2>1. it \in items \/ it = [k EXCEPT !.replacement = r.id]
    BY <1>4 DEF ReplacePoint
  <2> QED
    BY <2>1 DEF IInv, TypeOK, Item
<1>5. ASSUME NEW a \in Actors, NEW failed \in SUBSET PointIds, Reject(a, failed)
      PROVE  it \in items \/ (it.point \in ActiveIds /\ points' = points)
  <2>1. it \in items \/ \E x \in failed : it.point = x
    BY <1>5 DEF Reject
  <2> QED
    BY <1>5, <2>1, ProblemsAreActive DEF Reject
<1>6. CASE Aside
  BY <1>1, <1>6, AsideKeeps
<1> QED
  BY <1>1, <1>2, <1>3, <1>4, <1>5, <1>6, NextCases DEF Aside

LEMMA AnchoredStep ==
  ASSUME IInv, Anchored, [Next]_vars
  PROVE  Anchored'
<1>1. CASE Next
  <2> SUFFICES ASSUME NEW it \in items' PROVE it.point \in Ids(points)'
    BY DEF Anchored, Ids
  <2>1. it.point \in Ids(points)
    BY <1>1, ItemOrigins, ActiveIdsFacts DEF Anchored
  <2> QED
    BY <1>1, <2>1, RetainedStep DEF Kept, Ids
<1>2. CASE UNCHANGED vars
  BY <1>2 DEF vars, remediationVars, Anchored
<1> QED
  BY <1>1, <1>2

(* A replacement is a point too, and the point it replaced is out of use.   *)
LEMMA ReplacedFacts ==
  ASSUME IInv, Records, NEW it \in items, it.replacement # NoId
  PROVE  /\ it.point \notin ActiveIds
         /\ it.point \in Ids(points) /\ it.replacement \in Ids(points)
<1>1. [old |-> it.point, new |-> it.replacement] \in remediations
  BY DEF Records, ReplacementLineage
<1>2. \A m \in remediations : {m.old, m.new} \subseteq Ids(points)
  BY <1>1 DEF IInv, NothingYet, Integrity, ValidateAggregate
<1> QED
  BY <1>1, <1>2 DEF Records, ReplacementLineage, ActiveIds

(* No step serves an item again whose points are out of use.                *)
LEMMA StrandedStays ==
  ASSUME IInv, Records, Anchored, Next, ~OpenItemRemediable
  PROVE  ~OpenItemRemediable'
<1>1. PICK it \in items : ItemIsOpen(it) /\ ~Served(it)
  BY DEF OpenItemRemediable, Served, ActiveIds
<1>2. it.point \notin ActiveIds' /\ it.replacement \notin ActiveIds'
  <2>1. it.point \notin ActiveIds'
    BY <1>1, StaysOut DEF Served, Anchored
  <2>2. CASE it.replacement # NoId
    BY <1>1, <2>1, <2>2, ReplacedFacts, StaysOut DEF Served
  <2>3. CASE it.replacement = NoId
    <3>1. IInv'
      BY InvariantStep
    <3>2. NoId \notin ActiveIds'
      BY <3>1, JobAssumption DEF ActiveIds, ActivePoints, Ids, IInv, TypeOK, Point
    <3> QED
      BY <2>1, <2>3, <3>2
  <2> QED
    BY <2>2, <2>3
<1>3. it \in items'
  <2>1. CASE Evaluate
    <3>1. ItemAfter(it, eval') \in items'
      BY <2>1, EvaluateType, ItemsAfterParts
    <3>2. it.point \notin eval'.outliers /\ it.replacement \notin Ids(eval'.set)
      BY <1>1, <2>1, ProblemsAreActive DEF Served
    <3>3. ItemAfter(it, eval') = it
      BY <1>1, <3>2 DEF ItemAfter, Remedied
    <3> QED
      BY <3>1, <3>3
  <2>2. ASSUME NEW jt \in items, NEW r \in Rows, ReplacePoint(jt, r) PROVE it \in items'
    <3>1. jt.point \in ActiveIds
      BY <2>2 DEF ReplacePoint, WouldPass, ActiveIds
    <3>2. it # jt
      BY <1>1, <3>1 DEF Served
    <3> QED
      BY <2>2, <3>2 DEF ReplacePoint
  <2>3. ASSUME NEW P, PointCommand(P) PROVE it \in items'
    BY <2>3 DEF PointCommand, remediationVars
  <2>4. ASSUME NEW a \in Actors, NEW failed \in SUBSET PointIds, Reject(a, failed)
        PROVE  it \in items'
    BY <2>4 DEF Reject
  <2>5. CASE Aside
    BY <2>5, AsideKeeps
  <2> QED
    BY <2>1, <2>2, <2>3, <2>4, <2>5, NextCases DEF Aside
<1> QED
  BY <1>1, <1>2, <1>3 DEF OpenItemRemediable, ActiveIds, ItemIsOpen

(* The two ways in which an open item loses its points do strand it.        *)
LEMMA StrandsStrand ==
  ASSUME IInv, Records, Anchored, Next, Strands
  PROVE  ~OpenItemRemediable'
<1>1. PICK it \in items :
        /\ ItemIsOpen(it)
        /\ \/ \E id \in {it.point, it.replacement} : DeactivatePoint(id)
           \/ \E jt \in items, r \in Rows :
                jt.point = it.replacement /\ ReplacePoint(jt, r)
  BY DEF Strands
<1>2. NoId \notin ActiveIds'
  <2>1. IInv'
    BY InvariantStep
  <2> QED
    BY <2>1, JobAssumption DEF ActiveIds, ActivePoints, Ids, IInv, TypeOK, Point
<1>3. ASSUME it \in items', it.point \notin ActiveIds', it.replacement \notin ActiveIds'
      PROVE  ~OpenItemRemediable'
  BY <1>1, <1>3 DEF OpenItemRemediable, ActiveIds, ItemIsOpen
<1>4. ASSUME NEW id \in {it.point, it.replacement}, DeactivatePoint(id)
      PROVE  ~OpenItemRemediable'
  <2>1. /\ id \in ActiveIds /\ id # NoId
        /\ it \in items'
    BY <1>4, ActiveIdsFacts DEF DeactivatePoint, MayDeactivate, ActiveIds, remediationVars
  <2>2. id \notin ActiveIds'
    <3>1. points' = WithoutActive(id) /\ points \subseteq Point
      BY <1>4 DEF DeactivatePoint, AdvancePoints, IInv, TypeOK
    <3>2. \A x \in WithoutActive(id) : x.active => x.id # id
      BY <3>1 DEF WithoutActive, Point
    <3> QED
      BY <3>1, <3>2 DEF ActiveIds, ActivePoints, Ids
  <2>3. CASE it.replacement = NoId
    BY <1>2, <1>3, <1>4, <2>1, <2>2, <2>3
  <2>4. CASE it.replacement # NoId
    <3>1. it.point \in Ids(points) \ ActiveIds
      BY <2>4, ReplacedFacts
    <3>2. it.point \notin ActiveIds' /\ id = it.replacement
      BY <1>4, <2>1, <3>1, StaysOut
    <3> QED
      BY <1>3, <2>1, <2>2, <3>2
  <2> QED
    BY <2>3, <2>4
<1>5. ASSUME NEW jt \in items, NEW r \in Rows,
             jt.point = it.replacement, ReplacePoint(jt, r)
      PROVE  ~OpenItemRemediable'
  <2>1. jt.point \in ActiveIds /\ it.replacement # NoId
    BY <1>5, ActiveIdsFacts DEF ReplacePoint, WouldPass, ActiveIds
  <2>2. it.point \in Ids(points) \ ActiveIds
    BY <2>1, ReplacedFacts
  <2>3. it.point \notin ActiveIds' /\ it # jt
    BY <2>1, <2>2, StaysOut
  <2>4. it.replacement \notin ActiveIds'
    BY <1>5, ReplacedSound DEF ReplacePoint, ActiveIds
  <2>5. it \in items'
    BY <1>5, <2>3 DEF ReplacePoint
  <2> QED
    BY <1>3, <2>3, <2>4, <2>5
<1> QED
  BY <1>1, <1>4, <1>5

(* And there is no third.                                                   *)
LEMMA OnlyStrandsStrand ==
  ASSUME IInv, Records, Next, OpenItemRemediable, ~Strands
  PROVE  OpenItemRemediable'
<1> SUFFICES ASSUME NEW it \in items', ItemIsOpen(it)
             PROVE  it.point \in ActiveIds' \/ it.replacement \in ActiveIds'
  BY DEF OpenItemRemediable, ActiveIds, ItemIsOpen
<1>1. ASSUME NEW k \in items, NEW r \in Rows, ReplacePoint(k, r), it.replacement = r.id
      PROVE  it.replacement \in ActiveIds'
  <2>1. AsPoint(r, k.point) \in points'
    BY <1>1 DEF ReplacePoint, Replaced
  <2>2. AsPoint(r, k.point).id = r.id /\ AsPoint(r, k.point).active
    BY DEF AsPoint
  <2> QED
    BY <1>1, <2>1, <2>2 DEF ActiveIds, ActivePoints, Ids
<1>2. ASSUME it.point \in ActiveIds, points' = points PROVE it.point \in ActiveIds'
  BY <1>2 DEF ActiveIds, ActivePoints
<1>3. ASSUME NEW k \in items, it.point = k.point, it.replacement = k.replacement,
             ItemIsOpen(k)
      PROVE  it.point \in ActiveIds' \/ it.replacement \in ActiveIds'
  <2>1. PICK id \in {k.point, k.replacement} : id \in ActiveIds
    BY <1>3 DEF OpenItemRemediable, ActiveIds
  <2>2. ~DeactivatePoint(id)
    BY <1>3 DEF Strands
  <2>3. ASSUME NEW jt \in items, NEW r \in Rows, jt.point = id, ReplacePoint(jt, r)
        PROVE  it.replacement \in ActiveIds'
    <3>1. id = k.point
      BY <1>3, <2>3 DEF Strands
    <3>2. [jt EXCEPT !.replacement = r.id] \in items'
      BY <2>3 DEF ReplacePoint
    <3>3. /\ [jt EXCEPT !.replacement = r.id].point = it.point
          /\ [jt EXCEPT !.replacement = r.id].replacement = r.id
      BY <1>3, <2>3, <3>1 DEF IInv, TypeOK, Item
    <3>4. OneItemPerPoint'
      BY RecordsStep DEF Records
    <3>5. it.replacement = r.id
      BY <3>2, <3>3, <3>4 DEF OneItemPerPoint
    <3> QED
      BY <1>1, <2>3, <3>5
  <2> QED
    BY <1>3, <2>1, <2>2, <2>3, StaysActive
<1> QED
  BY <1>1, <1>2, <1>3, ItemOrigins

LEMMA AlwaysAnchored == Spec => [](IInv /\ Records /\ Anchored)
<1>1. Init => Anchored
  BY DEF Init, Anchored
<1> QED
  BY <1>1, AnchoredStep, InductiveInvariant, RecordsAgree, PTL DEF Spec, Records

(* StrandedForGood: an open item loses its points by deactivation or by     *)
(* replacement on account of another item, never otherwise, and for good.   *)
THEOREM ItemsStrandForGood == Spec => StrandedForGood
<1>1. IInv /\ Records /\ Anchored /\ [Next]_vars =>
        [OpenItemRemediable' <=> OpenItemRemediable /\ ~Strands]_vars
  BY StrandedStays, StrandsStrand, OnlyStrandsStrand
<1> QED
  BY <1>1, AlwaysAnchored, PTL DEF Spec, StrandedForGood

(* So a job with a stranded item is never submitted,                       *)
(* approved or published again, whatever is done to it.                     *)
THEOREM StrandedIsNeverPublished ==
  Spec => [](~OpenItemRemediable =>
               [](state \notin {"pending_review", "pending_release", "published"}))
<1>1. IInv /\ ~OpenItemRemediable =>
        state \notin {"pending_review", "pending_release", "published"}
  BY DEF IInv, SubmittedEvidence, OpenItemRemediable
<1>2. [OpenItemRemediable' <=> OpenItemRemediable /\ ~Strands]_vars =>
        (~OpenItemRemediable => ~OpenItemRemediable')
  BY DEF vars, jobVars, remediationVars, OpenItemRemediable, ActivePoints
<1> QED
  BY <1>1, <1>2, InductiveInvariant, ItemsStrandForGood, PTL DEF StrandedForGood
===============================================================================
