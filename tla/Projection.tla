------------------------------ MODULE Projection ------------------------------
(***************************************************************************)
(* What a page is told it may do: the workflow projection that Get puts    *)
(* into the view of a job (app/projection.go, app/query.go).  It is        *)
(* computed from the same snapshot as the rest of the view but by rules of *)
(* its own, which the commands do not share.                               *)
(***************************************************************************)
EXTENDS Registration

(* The evaluation in the view: the stored one, while it is current. *)
Viewed == eval # None /\ eval.id = current

(* Mistake: the remediation items are not looked at. *)
SubmitOffered(S) ==
  state = "solvable" /\ Viewed /\ eval.decision = "pass"

(* Review may be asked for. *)
SubmitReviewOffered(S) ==
  /\ state = "solvable"
  /\ Viewed
  /\ eval.decision = "pass"
  /\ \A it \in items : ~ItemIsOpen(it)

(***************************************************************************)
(* AvailableActions of projectWorkflow, with S the control set.            *)
(***************************************************************************)
AvailableActions(S) ==
  [freeze         |-> state = "draft",
   reviseBaseline |-> state = "draft",
   addPoint       |-> state \in {"frozen", "solvable"},
   batchImport    |-> state \in {"frozen", "solvable"},
   revisePoint    |-> state \in {"frozen", "solvable"},
   remediate      |-> state = "needs_fix",
   evaluate       |-> state \in {"solvable", "needs_fix"} /\ Ready(baseline, S),
   submitReview   |-> SubmitReviewOffered(S),
   review         |-> state = "pending_review",
   release        |-> state = "pending_release",
   verifyManifest |-> state = "published" /\ manifest # None]

-------------------------------------------------------------------------------
(* The page and the commands agree, on a server that never stops: a button *)
(* that needs no further input is shown exactly when its command is        *)
(* accepted, and a manifest that can be verified agrees with its job (of   *)
(* the audit chain, see Audit).  The one exception is an evaluation that   *)
(* overflows, which is refused without being announced.  The two sides are *)
(* computed from different fields (the projection compares references, the *)
(* commands compare digests).                                              *)
OffersMatchCommands ==
  state # "none" =>
    LET S == ControlSet(points)
        offer == AvailableActions(S)
    IN /\ offer.freeze <=> MayFreeze
       /\ offer.evaluate /\ Finite(baseline, S) <=> MayEvaluate
       /\ offer.revisePoint /\ S # {} <=> \E id \in PointIds : MayDeactivate(id)
       /\ offer.submitReview <=> MaySubmitReview
       /\ \A a \in Actors \ {Operator} : offer.review <=> MayReview(a)
       /\ offer.release <=> MayRelease
       /\ offer.verifyManifest => VerifyManifest
===============================================================================
