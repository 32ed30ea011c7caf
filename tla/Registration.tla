----------------------------- MODULE Registration -----------------------------
(***************************************************************************)
(* One registration job of internal/app with everything the store keeps    *)
(* under its id: the job record, its control points, the last evaluation,  *)
(* the remediation items, the return instructions, the review and the      *)
(* release manifest.                                                       *)
(*                                                                         *)
(* Every operation of app.Service runs inside store.Update, under one      *)
(* mutex, on a copy that is written to disk before it replaces the data in *)
(* memory; each is therefore one action.  An action is a command that is   *)
(* accepted: its expected revision is the current one, and its actor is    *)
(* the job's operator where ValidateOperator asks for it.  A command that  *)
(* is refused changes nothing.  The digests that PreviewBatch and          *)
(* PreviewReplacement hand out are functions of the command and of the     *)
(* revision, so a client that asks for a preview at the current revision   *)
(* has the right one.                                                      *)
(*                                                                         *)
(* store.validate is a guard of one action only, Evaluate, which it keeps  *)
(* from storing a fit that overflowed.  The invariant Integrity says that  *)
(* it refuses no other result of an accepted command.                      *)
(***************************************************************************)
EXTENDS PointRules

CONSTANTS
  Actors,      \* people who send commands
  Operator,    \* the operator the job is created for
  Batches,     \* the row sets of batch commands
  MaxRevision, \* bound of the model: no command is sent at this revision
  NoId,        \* the empty point id ""
  None         \* no such record in the store, or no such digest in the job

VARIABLES
  state,        \* Job.State, or "none" before the job is created
  revision,     \* Job.Revision
  baseline,     \* the fields BaselineDigest covers
  current,      \* Job.CurrentEvaluationID, 0 when it is empty
  sample,       \* Job.ReviewSampleDigest, None when it is empty
  points,       \* Points: records, never deleted
  eval,         \* Evals: the last evaluation, or None
  items,        \* RemediationItems
  remediations, \* Remediations: one record per replacement
  instructions, \* ReturnInstructions
  review,       \* Reviews: the last verdict on the points as they are, or None
  manifest      \* Manifests: the release manifest, or None

jobVars == <<state, revision, baseline, current, sample>>
remediationVars == <<items, remediations, instructions>>
vars == <<jobVars, points, eval, remediationVars, review, manifest>>

-------------------------------------------------------------------------------
(* Records                                                                  *)

States == {"none", "draft", "frozen", "solvable", "needs_fix",
           "pending_review", "pending_release", "published"}

AsRow(x) == [id |-> x.id, pix |-> x.pix, map |-> x.map]

Point == {x \in [id : PointIds, pix : Pixels, map : Maps, active : BOOLEAN,
                 supersedes : PointIds \cup {NoId}] : AsRow(x) \in Rows}

(***************************************************************************)
(* Evaluations are numbered in the order of EvalHistory, whose last entry  *)
(* is eval; the code derives their ids from the request ids.               *)
(***************************************************************************)
Evaluation == [id : Nat \ {0}, set : SUBSET Rows,
               decision : {"pass", "remediate"}, outliers : SUBSET PointIds]

(***************************************************************************)
(* A remediation item is raised for a point by an evaluation (RuleSource   *)
(* point_residual) or by a reviewer (review_...).  Items are a set: the    *)
(* number of the evaluation they belong to tells two items of one point    *)
(* apart.                                                                  *)
(***************************************************************************)
Item == [point : PointIds, eval : Nat, source : {"residual", "review"},
         status : {"open", "reopened", "closed"},
         replacement : PointIds \cup {NoId}]

Remediation == [old : PointIds, new : PointIds]

Instruction == [point : PointIds, eval : Nat, status : {"open", "addressed"}]

Digest == [set : SUBSET Rows, ids : SUBSET PointIds]

Review == [reviewer : Actors, decision : {"approve", "reject"},
           digest : Digest, failed : SUBSET PointIds]

Manifest == [baseline : Baselines, set : SUBSET Rows,
             eval : Evaluation, review : Review]

ASSUME JobAssumption ==
  /\ Operator \in Actors
  /\ Batches \subseteq SUBSET Rows
  /\ MaxRevision \in Nat
  /\ NoId \notin PointIds
  /\ None \notin Baselines
  /\ None \notin Evaluation
  /\ None \notin Digest
  /\ None \notin Review
  /\ None \notin Manifest

-------------------------------------------------------------------------------
(* What the handlers compute from the points                                *)

Ids(S) == {x.id : x \in S}

AsPoint(r, old) == [id |-> r.id, pix |-> r.pix, map |-> r.map,
                    active |-> TRUE, supersedes |-> old]

ActivePoints(P) == {x \in P : x.active}

(* What ControlSetDigest is a digest of. *)
ControlSet(P) == {AsRow(x) : x \in ActivePoints(P)}

(* The rules of ValidatePoint, for a point placed in P as row r. *)
ValidPoint(P, r) ==
  /\ Evidenced(r.map)
  /\ InImage(baseline, r.pix)
  /\ \A x \in P : x.active /\ x.id # r.id => ~SamePixel(x.pix, r.pix)

(***************************************************************************)
(* The rules of a batch row, which looks for its own pixel, as printed,    *)
(* among the active ones, and takes a note of white space for evidence.    *)
(***************************************************************************)
ValidRow(P, r) ==
  /\ InImage(baseline, r.pix)
  /\ \A x \in P : x.active => x.pix # r.pix

(* Mistake: the old point is deleted, as if nothing referred to it. *)
DeletedActive(id) == points \ {x \in points : x.id = id /\ x.active}

(* The points after the active point id has been taken out of use. *)
WithoutActive(id) ==
  {IF x.id = id THEN [x EXCEPT !.active = FALSE] ELSE x : x \in points}

ItemIsOpen(it) == it.status # "closed"

(* Mistake: an approved job may still be corrected. *)
MaintainedWhenApproved ==
  state \notin {"none", "draft", "pending_review", "published"}

(* Mistake: a published job may still be corrected. *)
MaintainedWhenPublished ==
  state \notin {"none", "draft", "pending_review", "pending_release"}

AllowsPointMaintenance == state \in {"frozen", "solvable", "needs_fix"}

(* Mistake: points may be imported before the baseline is frozen. *)
RevisedWhileDraft == AllowsPointMaintenance \/ state = "draft"

AllowsPointRevision == AllowsPointMaintenance /\ state # "needs_fix"

(* Revision++; the model sends no command at revision MaxRevision. *)
NextRevision == revision < MaxRevision /\ revision' = revision + 1

(* Mistake: the state is computed before the change is made. *)
StateOfOld(P) ==
  IF Distribution(baseline, ControlSet(points)) THEN "solvable" ELSE "frozen"

(* A job with the points P can be solved, or cannot yet. *)
StateOf(P) ==
  IF Distribution(baseline, ControlSet(P)) THEN "solvable" ELSE "frozen"

(* Mistake: invalidateEvaluation is not called. *)
AdvanceKeepingCurrent(P) ==
  /\ points' = P
  /\ NextRevision
  /\ state' = StateOf(P)
  /\ UNCHANGED <<current, sample, review>>

(***************************************************************************)
(* The tail that every change of the point set shares: the evaluation, the *)
(* sample digest and the review no longer hold for the points P, and the   *)
(* state follows from their distribution.                                  *)
(***************************************************************************)
AdvancePoints(P) ==
  /\ points' = P
  /\ current' = 0
  /\ sample' = None
  /\ review' = None
  /\ NextRevision
  /\ state' = StateOf(P)

-------------------------------------------------------------------------------
(* The job before its points                                                *)

Init ==
  /\ state = "none"
  /\ revision = 0
  /\ baseline = None
  /\ current = 0
  /\ sample = None
  /\ points = {}
  /\ eval = None
  /\ items = {}
  /\ remediations = {}
  /\ instructions = {}
  /\ review = None
  /\ manifest = None

CreateJob(b) ==
  /\ state = "none"
  /\ state' = "draft"
  /\ NextRevision
  /\ baseline' = b
  /\ UNCHANGED <<current, sample, points, eval, remediationVars, review,
                 manifest>>

(* Mistake: a frozen baseline may still be revised. *)
ReviseUnsolved(b) ==
  /\ state \in {"draft", "frozen"}
  /\ baseline' = b
  /\ NextRevision
  /\ UNCHANGED <<state, current, sample, points, eval, remediationVars,
                 review, manifest>>

ReviseBaseline(b) ==
  /\ state = "draft"
  /\ baseline' = b
  /\ NextRevision
  /\ UNCHANGED <<state, current, sample, points, eval, remediationVars,
                 review, manifest>>

MayFreeze == state = "draft"

Freeze ==
  /\ MayFreeze
  /\ state' = "frozen"
  /\ NextRevision
  /\ UNCHANGED <<baseline, current, sample, points, eval, remediationVars,
                 review, manifest>>

-------------------------------------------------------------------------------
(* Commands that change the points                                          *)

(* The only one of them, with ReplacePoint, that needs_fix allows. *)
AddPoint(r) ==
  /\ AllowsPointMaintenance
  /\ r.id \notin Ids(points)
  /\ ValidPoint(points, r)
  /\ AdvancePoints(points \cup {AsPoint(r, NoId)})
  /\ UNCHANGED <<baseline, eval, remediationVars, manifest>>

(***************************************************************************)
(* buildBatchPreview finds no error in the rows of S, and they are all     *)
(* added in one step.                                                      *)
(***************************************************************************)
ImportBatch(S) ==
  /\ AllowsPointRevision
  /\ Cardinality(S) \in 1..500
  /\ \A r \in S :
       /\ r.id \notin Ids(points)
       /\ ValidRow(points, r)
  /\ \A r, q \in S : r # q => r.id # q.id /\ r.pix # q.pix
  /\ AdvancePoints(points \cup {AsPoint(r, NoId) : r \in S})
  /\ UNCHANGED <<baseline, eval, remediationVars, manifest>>

(* Mistake: the record is made from the command, without its history. *)
UpdateWithoutHistory(r) ==
  /\ AllowsPointRevision
  /\ ValidPoint(points, r)
  /\ r.id \in Ids(ActivePoints(points))
  /\ AdvancePoints({x \in points : x.id # r.id} \cup {AsPoint(r, NoId)})
  /\ UNCHANGED <<baseline, eval, remediationVars, manifest>>

UpdatePoint(r) ==
  /\ AllowsPointRevision
  /\ ValidPoint(points, r)
  /\ \E x \in ActivePoints(points) :
       /\ x.id = r.id
       /\ AdvancePoints((points \ {x}) \cup {AsPoint(r, x.supersedes)})
  /\ UNCHANGED <<baseline, eval, remediationVars, manifest>>

MayDeactivate(id) == AllowsPointRevision /\ id \in Ids(ActivePoints(points))

DeactivatePoint(id) ==
  /\ MayDeactivate(id)
  /\ AdvancePoints(WithoutActive(id))
  /\ UNCHANGED <<baseline, eval, remediationVars, manifest>>

-------------------------------------------------------------------------------
(* Evaluation and remediation                                               *)

(* Mistake: evaluations are numbered from the length of the history. *)
EvaluationsBefore == IF eval = None THEN 0 ELSE eval.id + 1

NextEvaluation == IF eval = None THEN 1 ELSE eval.id + 1

(* Mistake: an item is raised for every outlier. *)
RaisedForAll(ev) == ev.outliers

(* The ids of the outliers without an open item. *)
Raised(ev) ==
  {id \in ev.outliers : \A it \in items : ItemIsOpen(it) => it.point # id}

(* Mistake: an item is remedied once its own point is within its limit. *)
WithinLimit(it, ev) == it.point \notin ev.outliers

(* The replacement of it was evaluated and is within its limit. *)
Remedied(it, ev) ==
  it.replacement \in Ids(ev.set) /\ it.replacement \notin ev.outliers

(* An outlier reopens its item, which is closed only once it is remedied. *)
ItemAfter(it, ev) ==
  IF ~ItemIsOpen(it) THEN it
  ELSE IF it.point \in ev.outliers THEN [it EXCEPT !.status = "reopened"]
  ELSE IF Remedied(it, ev) THEN [it EXCEPT !.status = "closed"]
  ELSE it

(* updateRemediationItems, for the evaluation ev. *)
ItemsAfter(ev) ==
  {ItemAfter(it, ev) : it \in items} \cup
  {[point |-> id, eval |-> ev.id, source |-> "residual",
    status |-> "open", replacement |-> NoId] : id \in Raised(ev)}

MayEvaluate ==
  state \in {"solvable", "needs_fix"} /\ Evaluable(baseline, ControlSet(points))

Evaluate ==
  LET S == ControlSet(points)
      passed == Passes(baseline, S)
      ev == [id |-> NextEvaluation, set |-> S,
             decision |-> IF passed THEN "pass" ELSE "remediate",
             outliers |-> Outliers(baseline, S)]
  IN /\ MayEvaluate
     /\ state' = IF passed THEN "solvable" ELSE "needs_fix"
     /\ NextRevision
     /\ eval' = ev
     /\ current' = ev.id
     /\ items' = ItemsAfter(ev)
     /\ UNCHANGED <<baseline, sample, points, remediations, instructions,
                    review, manifest>>

(***************************************************************************)
(* The points with active point old out of use and r in its place.         *)
(***************************************************************************)
Replaced(old, r) == WithoutActive(old) \cup {AsPoint(r, old)}

(* Mistake: a replacement need only be within its own limit. *)
WouldBeWithinLimit(old, r) ==
  /\ eval # None
  /\ current = eval.id
  /\ old \in Ids(ActivePoints(points))
  /\ r.id \notin Ids(points)
  /\ ValidPoint(WithoutActive(old), r)
  /\ Ready(baseline, ControlSet(Replaced(old, r)))
  /\ r.id \notin Outliers(baseline, ControlSet(Replaced(old, r)))

(***************************************************************************)
(* buildReplacementPreview returns a preview that would pass.  Its numbers *)
(* are not stored, and nothing asks whether they are finite.               *)
(***************************************************************************)
WouldPass(old, r) ==
  /\ eval # None
  /\ current = eval.id
  /\ old \in Ids(ActivePoints(points))
  /\ r.id \notin Ids(points)
  /\ ValidPoint(WithoutActive(old), r)
  /\ Ready(baseline, ControlSet(Replaced(old, r)))
  /\ Passes(baseline, ControlSet(Replaced(old, r)))

(* Mistake: the instructions of a review are forgotten. *)
Forgotten(old) == instructions

(* The instructions once point old is replaced. *)
Addressed(old) ==
  {IF n.point = old THEN [n EXCEPT !.status = "addressed"] ELSE n :
     n \in instructions}

(***************************************************************************)
(* The state stays needs_fix until the next evaluation.                    *)
(***************************************************************************)
ReplacePoint(it, r) ==
  LET old == it.point
  IN /\ state = "needs_fix"
     /\ ItemIsOpen(it)
     /\ WouldPass(old, r)
     /\ points' = Replaced(old, r)
     /\ current' = 0
     /\ sample' = None
     /\ review' = None
     /\ NextRevision
     /\ remediations' = remediations \cup {[old |-> old, new |-> r.id]}
     /\ items' = (items \ {it}) \cup {[it EXCEPT !.replacement = r.id]}
     /\ instructions' = Addressed(old)
     /\ UNCHANGED <<state, baseline, eval, manifest>>

-------------------------------------------------------------------------------
(* Review and release                                                       *)

(* Mistake: the reference is trusted, and the digest is not compared. *)
ReferencedPass ==
  /\ eval # None
  /\ eval.decision = "pass"
  /\ current = eval.id

(* A passing evaluation of the points as they are. *)
CurrentPass ==
  /\ eval # None
  /\ eval.decision = "pass"
  /\ current = eval.id
  /\ eval.set = ControlSet(points)

MaySubmitReview ==
  /\ CurrentPass
  /\ \A it \in items : ~ItemIsOpen(it)
  /\ state = "solvable"

SubmitReview ==
  /\ MaySubmitReview
  /\ state' = "pending_review"
  /\ NextRevision
  /\ sample' = SampleDigest(baseline, ControlSet(points))
  /\ UNCHANGED <<baseline, current, points, eval, remediationVars, review,
                 manifest>>

(* The reviewer is shown the sample that was drawn when the job was submitted. *)
MayReview(reviewer) ==
  /\ state = "pending_review"
  /\ reviewer # Operator
  /\ sample = SampleDigest(baseline, ControlSet(points))

(* Mistake: the operator may review. *)
AnyoneVerdict(reviewer, decision, failed) ==
  LET shown == SampleDigest(baseline, ControlSet(points))
  IN /\ sample = shown
     /\ failed \subseteq shown.ids
     /\ state = "pending_review"
     /\ NextRevision
     /\ review' = [reviewer |-> reviewer, decision |-> decision,
                   digest |-> shown, failed |-> failed]

(***************************************************************************)
(* A verdict on the sample drawn from the points as they are, in which the *)
(* conclusions cover exactly the sample and those of failed did not pass.  *)
(***************************************************************************)
Verdict(reviewer, decision, failed) ==
  LET shown == SampleDigest(baseline, ControlSet(points))
  IN /\ MayReview(reviewer)
     /\ failed \subseteq shown.ids
     /\ NextRevision
     /\ review' = [reviewer |-> reviewer, decision |-> decision,
                   digest |-> shown, failed |-> failed]

Approve(reviewer) ==
  /\ Verdict(reviewer, "approve", {})
  /\ state' = "pending_release"
  /\ UNCHANGED <<baseline, current, sample, points, eval, remediationVars,
                 manifest>>

(***************************************************************************)
(* Every failed point gets an instruction and a remediation item.          *)
(***************************************************************************)
Reject(reviewer, failed) ==
  /\ failed # {}
  /\ Verdict(reviewer, "reject", failed)
  /\ state' = "needs_fix"
  /\ instructions' = instructions \cup
       {[point |-> id, eval |-> current, status |-> "open"] : id \in failed}
  /\ items' = items \cup
       {[point |-> id, eval |-> current, source |-> "review",
         status |-> "open", replacement |-> NoId] : id \in failed}
  /\ UNCHANGED <<baseline, current, sample, points, eval, remediations,
                 manifest>>

MayRelease ==
  /\ manifest = None
  /\ review # None
  /\ review.decision = "approve"
  /\ review.digest = sample
  /\ CurrentPass
  /\ state = "pending_release"

Release ==
  /\ MayRelease
  /\ state' = "published"
  /\ NextRevision
  /\ manifest' = [baseline |-> baseline, set |-> ControlSet(points),
                  eval |-> eval, review |-> review]
  /\ UNCHANGED <<baseline, current, sample, points, eval, remediationVars,
                 review>>

-------------------------------------------------------------------------------
(***************************************************************************)
(* The server stops and store.Open reads the file back: a job with an      *)
(* evaluation but no current one is taken to be a record of an older       *)
(* version, and the evaluation becomes current.                            *)
(***************************************************************************)
Restart ==
  /\ eval # None
  /\ current = 0
  /\ state \notin {"draft", "frozen"}
  /\ current' = eval.id
  /\ UNCHANGED <<state, revision, baseline, sample, points, eval,
                 remediationVars, review, manifest>>

Command ==
  \/ \E b \in Baselines : CreateJob(b) \/ ReviseBaseline(b)
  \/ Freeze
  \/ \E r \in Rows : AddPoint(r) \/ UpdatePoint(r)
  \/ \E S \in Batches : ImportBatch(S)
  \/ \E id \in PointIds : DeactivatePoint(id)
  \/ Evaluate
  \/ \E it \in items, r \in Rows : ReplacePoint(it, r)
  \/ SubmitReview
  \/ \E a \in Actors : Approve(a)
  \/ \E a \in Actors, failed \in SUBSET PointIds : Reject(a, failed)
  \/ Release

Next == Command \/ Restart

Spec == Init /\ [][Next]_vars

(* The job on a server that never stops. *)
SpecNoRestart == Init /\ [][Command]_vars

-------------------------------------------------------------------------------
(* What the store checks, and what a release is verified by                 *)

PointsSound(P) ==
  /\ \A x, y \in P : x.id = y.id => x = y
  /\ \A x \in P : InImage(baseline, x.pix)
  /\ \A x, y \in ActivePoints(P) : x.pix = y.pix => x = y
  /\ \A x \in P : x.supersedes \in Ids(P) \cup {NoId}

(***************************************************************************)
(* ValidateAggregate and the rest of store.validate, of this job.          *)
(***************************************************************************)
ValidateAggregate ==
  /\ revision # 0
  /\ baseline \in Baselines
  /\ PointsSound(points)
  /\ state = "draft" => points = {}
  /\ state = "solvable" => Distribution(baseline, ControlSet(points))
  /\ eval # None => /\ Ids(eval.set) \subseteq Ids(points)
                    /\ Finite(baseline, eval.set)
  /\ review # None => review.reviewer # Operator
  /\ \A m \in remediations : {m.old, m.new} \subseteq Ids(points)
  /\ state = "published" <=> manifest # None
  /\ current # 0 => eval # None /\ eval.id = current

(***************************************************************************)
(* The components of VerifyManifestReport that concern this job alone: the *)
(* manifest is compared with what the store holds when it is verified.     *)
(***************************************************************************)
VerifyManifest ==
  /\ manifest.baseline = baseline
  /\ manifest.set = ControlSet(points)
  /\ manifest.eval = eval
  /\ manifest.review = review

-------------------------------------------------------------------------------
(* Invariants                                                               *)

(* The fields hold values of their types; numbers of evaluations are positive. *)
TypeOK ==
  /\ state \in States
  /\ revision \in Nat
  /\ baseline \in Baselines \cup {None}
  /\ current \in Nat
  /\ sample \in Digest \cup {None}
  /\ points \subseteq Point
  /\ eval \in Evaluation \cup {None}
  /\ items \subseteq Item
  /\ remediations \subseteq Remediation
  /\ instructions \subseteq Instruction
  /\ review \in Review \cup {None}
  /\ manifest \in Manifest \cup {None}

(* No accepted command, and no restart, leaves the job in a condition that *)
(* store.validate refuses: it would fail the command, or keep the server   *)
(* from starting.                                                          *)
Integrity == state # "none" => ValidateAggregate

(* From submission to publication the job stands on the evidence it was    *)
(* submitted with: the points as they are were evaluated with finite       *)
(* results, pass the rules of the frozen baseline, are the ones the sample *)
(* was drawn from, and no remediation item is open.  SubmitReview checks   *)
(* this once, before other commands, restarts and rejected reviews happen. *)
SubmittedEvidence ==
  state \in {"pending_review", "pending_release", "published"} =>
    /\ CurrentPass
    /\ Ready(baseline, ControlSet(points))
    /\ Finite(baseline, ControlSet(points))
    /\ Passes(baseline, ControlSet(points))
    /\ sample = SampleDigest(baseline, ControlSet(points))
    /\ \A it \in items : ~ItemIsOpen(it)

(* Baseline, control set, evaluation and review in a published manifest    *)
(* agree with the store for ever, and the review in it is an approval, by  *)
(* someone other than the operator, of the control set that was published, *)
(* with no failed sample.  Whether the manifest verifies depends on the    *)
(* audit chain as well, which is the subject of Audit.                     *)
PublishedEvidence ==
  state = "published" =>
    /\ VerifyManifest
    /\ manifest.review.decision = "approve"
    /\ manifest.review.reviewer # Operator
    /\ manifest.review.failed = {}
    /\ manifest.review.digest = SampleDigest(manifest.baseline, manifest.set)

(* The verdict of the last evaluation is the one that the rules give for    *)
(* the points it was made of under the baseline as it is now, however long *)
(* ago it was made: the baseline does not move under an evaluation.        *)
EvaluationReproducible ==
  eval # None =>
    /\ state \notin {"none", "draft"}
    /\ Ready(baseline, eval.set)
    /\ Finite(baseline, eval.set)
    /\ eval.decision = "pass" <=> Passes(baseline, eval.set)
    /\ eval.outliers = Outliers(baseline, eval.set)

(* A verdict never outlives the submission it is about: a job that waits   *)
(* for its review carries no earlier review, and a rejected job keeps an   *)
(* untouched open item for every failed point as long as the rejection is  *)
(* stored, through any evaluation in between.  Only an independent         *)
(* reviewer gives one, and approves only a sample with no failed point.    *)
VerdictTracksSubmission ==
  /\ review # None =>
       /\ review.reviewer # Operator
       /\ review.decision = "approve" <=> review.failed = {}
  /\ state = "pending_review" => review = None
  /\ state \in {"pending_release", "published"} <=>
       review # None /\ review.decision = "approve"
  /\ review # None /\ review.decision = "reject" =>
       \A id \in review.failed : \E it \in items :
         it.point = id /\ ItemIsOpen(it) /\ it.replacement = NoId

(* A point has one remediation item in its life, whoever raised it, which  *)
(* is what lets stableItemID name an item after its job and point alone.   *)
OneItemPerPoint == \A it, jt \in items : it.point = jt.point => it = jt

(* The replacements that the points tell of. *)
Lineage(P) == {[old |-> x.supersedes, new |-> x.id] :
                 x \in {y \in P : y.supersedes # NoId}}

(* The records of a replacement agree: an item with a replacement has a    *)
(* remediation record and two points, the old one out of use and the new   *)
(* one superseding it; an item is closed only with a replacement; and the  *)
(* records are those that the points themselves tell, through any later    *)
(* revision of the replacement.                                            *)
ReplacementLineage ==
  /\ remediations = Lineage(points)
  /\ \A it \in items :
       /\ it.replacement # NoId =>
            /\ [old |-> it.point, new |-> it.replacement] \in remediations
            /\ it.point \notin Ids(ActivePoints(points))
       /\ it.status = "closed" => it.replacement # NoId

(* A job that needs a fix has a reason, or is as good as fixed: its points *)
(* are those that failed the last evaluation or were returned by the       *)
(* review, or points were replaced since, and what is in use now would     *)
(* pass, through any number of replacements and restarts in between.       *)
NeedsFixHasCause ==
  state = "needs_fix" =>
    IF eval.set = ControlSet(points)
    THEN \/ eval.decision = "remediate"
         \/ review # None /\ review.decision = "reject"
    ELSE /\ Ready(baseline, ControlSet(points))
         /\ Passes(baseline, ControlSet(points))

(* A return instruction stays open exactly as long as the remediation item *)
(* raised with it has no replacement.                                      *)
InstructionTracksItem ==
  \A n \in instructions : \E it \in items :
    /\ it.source = "review"
    /\ it.point = n.point
    /\ it.eval = n.eval
    /\ n.status = "open" <=> it.replacement = NoId

-------------------------------------------------------------------------------
(* Action properties                                                        *)

(* Evidence is only added to: no step loses a point, brings one back into  *)
(* use or alters one that is out of use, drops a remediation record, or    *)
(* touches an item that is closed or an instruction that was addressed;    *)
(* of a published job nothing changes at all.                              *)
EvidenceRetained ==
  [][/\ Ids(points) \subseteq Ids(points')
     /\ \A x \in points : ~x.active => x \in points'
     /\ remediations \subseteq remediations'
     /\ \A it \in items : ~ItemIsOpen(it) => it \in items'
     /\ \A n \in instructions : n.status = "addressed" => n \in instructions'
     /\ state = "published" => UNCHANGED vars
    ]_vars

(* An item that is open can still be remediated: its point is in use, or   *)
(* is replaced by one that is.                                             *)
OpenItemRemediable ==
  \A it \in items : ItemIsOpen(it) =>
    {it.point, it.replacement} \cap Ids(ActivePoints(points)) # {}

(* The point by which an open item could be remediated is taken out of     *)
(* use, or is replaced on account of another item.                         *)
Strands ==
  \E it \in items :
    /\ ItemIsOpen(it)
    /\ \/ \E id \in {it.point, it.replacement} : DeactivatePoint(id)
       \/ \E jt \in items, r \in Rows :
            jt.point = it.replacement /\ ReplacePoint(jt, r)

(* Open items lose their points in these two ways and in no other: not to  *)
(* an import or a revision, an evaluation, a rejection or a restart.  And  *)
(* they lose them for good: no later command makes up for it.              *)
StrandedForGood ==
  [][OpenItemRemediable' <=> OpenItemRemediable /\ ~Strands]_vars

-------------------------------------------------------------------------------
(* The lifecycle                                                            *)

Life == INSTANCE Lifecycle

(* Whatever a command does to the evidence, it makes one legal move and    *)
(* advances the revision by exactly one; a restart makes none.  The audit  *)
(* log rests on this: it has one event for each revision of a job.         *)
FollowsLifecycle == Life!Spec

-------------------------------------------------------------------------------
(* The promise of the gate                                                  *)

Content == [baseline : Baselines, set : SUBSET Rows]

GatePhase ==
  CASE state = "pending_review"  -> "review"
    [] state = "pending_release" -> "approved"
    [] state = "published"       -> "published"
    [] OTHER                     -> "work"

(* What was submitted, and in the end what the manifest says of it. *)
GateContent ==
  CASE state \in {"pending_review", "pending_release"} ->
         [baseline |-> baseline, set |-> ControlSet(points)]
    [] state = "published" ->
         [baseline |-> manifest.baseline, set |-> manifest.set]
    [] OTHER -> None

GateApprover ==
  CASE state = "pending_release" -> review.reviewer
    [] state = "published"       -> manifest.review.reviewer
    [] OTHER                     -> None

Promise == INSTANCE Gate WITH
  Acceptable <- {c \in Content : /\ Ready(c.baseline, c.set)
                                 /\ Finite(c.baseline, c.set)
                                 /\ Passes(c.baseline, c.set)},
  Reviewers <- Actors \ {Operator},
  Nothing <- None,
  phase <- GatePhase,
  content <- GateContent,
  approver <- GateApprover

(* The job implements the gate: whatever the order of commands, restarts   *)
(* and rejections, only an acceptable control set is submitted, it stays   *)
(* the same until an independent reviewer approves it or sends it back,    *)
(* and what the manifest publishes is what was approved.                   *)
KeepsPromise == Promise!Spec

-------------------------------------------------------------------------------
(* What the documents say and the code does not do                          *)

(* The current evaluation is one of the points as they are; holds of a     *)
(* server that never stops.                                                *)
CurrentFresh == current # 0 => eval.set = ControlSet(points)

(* A job whose evaluation failed has a problem point that can be replaced. *)
FailureRaisesItem ==
  eval # None /\ eval.decision = "remediate" /\ state = "needs_fix" =>
    \E it \in items : ItemIsOpen(it)
===============================================================================
