-------------------------------- MODULE MCAudit --------------------------------
(***************************************************************************)
(* Audit with two jobs that go straight to publication or are left when    *)
(* their reviewer rejects them, in a log that both publications fit in.    *)
(* The id of one job and the notes to a rejection hold a bar, so that      *)
(* different events have one text: job "j" with detail "command|note" and  *)
(* job "j|command" with detail "note".                                     *)
(***************************************************************************)
EXTENDS Audit

Straight == {<<"none", "draft">>, <<"draft", "frozen">>,
             <<"frozen", "solvable">>, <<"solvable", "pending_review">>,
             <<"pending_review", "pending_release">>,
             <<"pending_release", "published">>}

Rejecting == Straight \cup {<<"pending_review", "needs_fix">>}

Barred == [t \in {"j|command", "command|note"} |->
             IF t = "j|command" THEN <<"j", "command">> ELSE <<"command", "note">>]

MCWords ==
  [t \in States \cup Types \cup {"j", "note"} \cup DOMAIN Barred |->
     IF t \in DOMAIN Barred THEN Barred[t] ELSE <<t>>]

Notes(s) == {IF s = "needs_fix" THEN "command|note" ELSE "note"}
===============================================================================
