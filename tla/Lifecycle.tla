------------------------------- MODULE Lifecycle -------------------------------
(***************************************************************************)
(* The states of a job and how commands move it between them, without the  *)
(* reasons for which they do: an accepted command makes one move and       *)
(* advances the revision by one.                                           *)
(***************************************************************************)
EXTENDS Naturals

VARIABLES
  state,    \* Job.State, or "none" before the job is created
  revision  \* Job.Revision

vars == <<state, revision>>

Maintained == {"frozen", "solvable"}

Moves ==
  {<<"none", "draft">>,                         \* CreateJob
   <<"draft", "draft">>, <<"draft", "frozen">>, \* ReviseBaseline, Freeze
   <<"solvable", "needs_fix">>,                 \* Evaluate
   <<"needs_fix", "needs_fix">>,                \* Evaluate, ReplacePoint
   <<"solvable", "pending_review">>,            \* SubmitReview
   <<"pending_review", "pending_release">>,     \* Review
   <<"pending_review", "needs_fix">>,
   <<"pending_release", "published">>}          \* Release
  \* Evaluate and the commands that change points
  \cup ((Maintained \cup {"needs_fix"}) \X Maintained)

Init == state = "none" /\ revision = 0

Move(to) ==
  /\ <<state, to>> \in Moves
  /\ state' = to
  /\ revision' = revision + 1

Next == \E m \in Moves : Move(m[2])

Spec == Init /\ [][Next]_vars
===============================================================================
