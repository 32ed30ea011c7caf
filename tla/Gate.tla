--------------------------------- MODULE Gate ---------------------------------
(***************************************************************************)
(* What the registration gate promises to whoever reads a publication: a   *)
(* control set gets out of the workshop only if it is acceptable; it is    *)
(* then looked at, as it was submitted, by somebody independent; and what  *)
(* is published is what was approved, for good.                            *)
(***************************************************************************)
CONSTANTS
  Acceptable, \* what passes the quality rules
  Reviewers,  \* people who may approve: not the operator
  Nothing

VARIABLES
  phase,    \* where the control set is
  content,  \* what was submitted
  approver  \* who approved it

vars == <<phase, content, approver>>

Init ==
  /\ phase = "work"
  /\ content = Nothing
  /\ approver = Nothing

Submit ==
  /\ phase = "work"
  /\ phase' = "review"
  /\ content' \in Acceptable
  /\ UNCHANGED approver

Return ==
  /\ phase = "review"
  /\ phase' = "work"
  /\ content' = Nothing
  /\ UNCHANGED approver

Approve ==
  /\ phase = "review"
  /\ phase' = "approved"
  /\ approver' \in Reviewers
  /\ UNCHANGED content

Publish ==
  /\ phase = "approved"
  /\ phase' = "published"
  /\ UNCHANGED <<content, approver>>

Next ==
  \/ Submit
  \/ Return
  \/ Approve
  \/ Publish

Spec == Init /\ [][Next]_vars
===============================================================================
