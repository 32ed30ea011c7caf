--------------------------- MODULE ProjectionProofs ---------------------------
(***************************************************************************)
(* Theorems about Projection: on a server that never stops, the page       *)
(* offers what the commands accept.                                        *)
(***************************************************************************)
EXTENDS Projection, RegistrationProofs

(* What an approved job was approved on is the sample it was submitted     *)
(* with.                                                                   *)
ApprovedIsSampled == state = "pending_release" => review.digest = sample

LEMMA ApprovedIsSampledStep ==
  ASSUME IInv, ApprovedIsSampled, [Command]_vars
  PROVE  ApprovedIsSampled'
<1>1. ASSUME UNCHANGED <<state, review, sample>> PROVE ApprovedIsSampled'
  BY <1>1 DEF ApprovedIsSampled
<1>2. ASSUME state' # "pending_release" PROVE ApprovedIsSampled'
  BY <1>2 DEF ApprovedIsSampled
<1>3. ASSUME NEW a \in Actors, Approve(a) PROVE ApprovedIsSampled'
  <2>1. review'.digest = SampleDigest(baseline, ControlSet(points))
    BY <1>3 DEF Approve, Verdict, MayReview
  <2>2. sample = SampleDigest(baseline, ControlSet(points)) /\ sample' = sample
    BY <1>3 DEF Approve, Verdict, MayReview
  <2> QED
    BY <2>1, <2>2 DEF ApprovedIsSampled
<1>4. CASE Command /\ ~(\E a \in Actors : Approve(a))
  <2>1. state' # "pending_release"
    BY <1>4
    DEF Command, CreateJob, ReviseBaseline, Freeze, AddPoint, UpdatePoint,
        ImportBatch, DeactivatePoint, AdvancePoints, StateOf, Evaluate,
        ReplacePoint, SubmitReview, Reject, Release, remediationVars
  <2> QED
    BY <1>2, <2>1
<1>5. CASE UNCHANGED vars
  BY <1>1, <1>5 DEF vars, jobVars
<1> QED
  BY <1>3, <1>4, <1>5

LEMMA ApprovedSample == SpecNoRestart => []ApprovedIsSampled
<1>1. Init => IInv /\ ApprovedIsSampled
  BY InitHolds DEF Init, ApprovedIsSampled
<1>2. IInv /\ ApprovedIsSampled /\ [Command]_vars => (IInv /\ ApprovedIsSampled)'
  BY ApprovedIsSampledStep, TypeStep, NothingYetStep, IntegrityStep, EvaluationStep,
     VerdictStep, SubmittedStep, PublishedStep DEF IInv, Next
<1> QED
  BY <1>1, <1>2, PTL DEF SpecNoRestart

LEMMA NoRestartInvariant == SpecNoRestart => []IInv
<1>1. SpecNoRestart => Spec
  <2>1. [Command]_vars => [Next]_vars
    BY DEF Next
  <2> QED
    BY <2>1, PTL DEF SpecNoRestart, Spec
<1> QED
  BY <1>1, InductiveInvariant, PTL

(* A current evaluation that passes is one of the points as they are.      *)
LEMMA ViewedIsCurrent ==
  ASSUME IInv, CurrentFresh
  PROVE  Viewed /\ eval.decision = "pass" <=> CurrentPass
<1>1. eval # None => eval.id # 0
  BY DEF IInv, TypeOK, Evaluation
<1> QED
  BY <1>1 DEF Viewed, CurrentPass, CurrentFresh

LEMMA OffersAreKept ==
  ASSUME IInv, CurrentFresh, ApprovedIsSampled
  PROVE  OffersMatchCommands
<1> SUFFICES ASSUME state # "none" PROVE OffersMatchCommands
  BY DEF OffersMatchCommands
<1> DEFINE S == ControlSet(points)
           offer == AvailableActions(S)
<1>1. offer.freeze <=> MayFreeze
  BY DEF AvailableActions, MayFreeze
<1>2. offer.evaluate /\ Finite(baseline, S) <=> MayEvaluate
  BY DEF AvailableActions, Evaluable, MayEvaluate
<1>3. offer.revisePoint /\ S # {} <=> \E id \in PointIds : MayDeactivate(id)
  <2>1. offer.revisePoint <=> AllowsPointRevision
    BY DEF AvailableActions, AllowsPointRevision, AllowsPointMaintenance
  <2>2. points \in SUBSET Point
    BY DEF IInv, TypeOK
  <2>3. S \in SUBSET Rows /\ Ids(S) = Ids(ActivePoints(points))
    BY <2>2, ControlSetType
  <2>4. S # {} <=> \E id \in PointIds : id \in Ids(S)
    <3>1. \A r \in S : r.id \in PointIds
      BY <2>3, RulesAssumption
    <3> HIDE DEF S
    <3> QED
      BY <3>1 DEF Ids
  <2> HIDE DEF S, offer
  <2> QED
    BY <2>1, <2>3, <2>4 DEF MayDeactivate
<1>4. offer.submitReview <=> MaySubmitReview
  BY ViewedIsCurrent DEF AvailableActions, SubmitReviewOffered, MaySubmitReview
<1>5. ASSUME NEW a \in Actors \ {Operator}
      PROVE  offer.review <=> MayReview(a)
  <2>1. state = "pending_review" => sample = SampleDigest(baseline, S)
    BY DEF IInv, SubmittedEvidence
  <2> QED
    BY <2>1 DEF AvailableActions, MayReview
<1>6. offer.release <=> MayRelease
  <2>1. state = "pending_release" => manifest = None
    BY DEF IInv, Integrity, ValidateAggregate
  <2>2. state = "pending_release" => review # None /\ review.decision = "approve"
    BY DEF IInv, VerdictTracksSubmission
  <2>3. state = "pending_release" => CurrentPass
    BY DEF IInv, SubmittedEvidence
  <2> QED
    BY <2>1, <2>2, <2>3 DEF AvailableActions, ApprovedIsSampled, MayRelease
<1>7. offer.verifyManifest => VerifyManifest
  BY DEF AvailableActions, IInv, PublishedEvidence
<1> QED
  BY <1>1, <1>2, <1>3, <1>4, <1>5, <1>6, <1>7, Zenon DEF OffersMatchCommands

(* OffersMatchCommands: without restarts, a button is shown exactly when   *)
(* its command is accepted, although the two are computed differently.     *)
THEOREM OffersAreAccepted == SpecNoRestart => []OffersMatchCommands
  BY NoRestartInvariant, CurrentIsFresh, ApprovedSample, OffersAreKept, PTL
===============================================================================
