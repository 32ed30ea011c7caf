--------------------------------- MODULE Page ---------------------------------
(***************************************************************************)
(* One web page (web/assets/app.js) and the server it talks to.  The page  *)
(* shows one job, current; every request is asynchronous, its answer is    *)
(* handled whenever it comes, and no handler asks whether the page still   *)
(* shows what it showed when the request was sent.  The handlers of the    *)
(* server (web/jobs.go, web/points.go) answer from the job as it is when   *)
(* the request arrives; other pages send commands too.                     *)
(*                                                                         *)
(* Of a job only its revision, whether its baseline is frozen, and the     *)
(* batches imported into it are kept.  Commands that a page sends with     *)
(* what it shows in the same event (Evaluate, Review, Release, ...) cannot *)
(* be overtaken on the page and are those of another page here.            *)
(***************************************************************************)
EXTENDS Naturals, FiniteSets

CONSTANTS
  Jobs,
  Batches,      \* what the rows of the batch dialog may be
  Faulty(_, _), \* Faulty(j, b): batch b has an error in job j in any case
  MaxRevision,  \* bound of the model: no job gets beyond this revision
  MaxInFlight,  \* bound of the model: requests and answers on their way
  None

VARIABLES
  server,  \* the jobs
  current, \* the job as the page shows it, or None
  dialog,  \* the open dialog, or None; dialogs are modal
  batch,   \* the rows of the batch dialog and what the page knows of them
  sent,    \* requests on their way
  answers  \* answers on their way

vars == <<server, current, dialog, batch, sent, answers>>

Job == [rev : 1..MaxRevision, state : {"draft", "open"}, has : SUBSET Batches]

(* The state in which the server accepts a command. *)
Needs(kind) == IF kind \in {"baseline", "freeze"} THEN "draft" ELSE "open"

View(j) == [job |-> j, rev |-> server[j].rev, state |-> server[j].state]

EmptyBatch == [rows |-> None, digest |-> None, armed |-> FALSE, seen |-> None]

Init ==
  /\ server \in [Jobs -> {s \in Job : s.rev = 1 /\ s.has = {}}]
  /\ current = None
  /\ dialog = None
  /\ batch = EmptyBatch
  /\ sent = {}
  /\ answers = {}

Send(m) ==
  /\ Cardinality(sent \cup answers) < MaxInFlight
  /\ sent' = sent \cup {m}

-------------------------------------------------------------------------------
(* What the user does                                                       *)

ClickJob(j) ==
  /\ dialog = None
  /\ Send([kind |-> "load", job |-> j])
  /\ UNCHANGED <<server, current, dialog, batch, answers>>

(* A form for the job as it is shown: of its baseline, or of a point. *)
OpenForm(kind) ==
  /\ dialog = None
  /\ current # None
  /\ current.state = Needs(kind)
  /\ dialog' = [kind |-> kind, of |-> [job |-> current.job, rev |-> current.rev],
                overtaken |-> FALSE]
  /\ UNCHANGED <<server, current, batch, sent, answers>>

(***************************************************************************)
(* The command goes to the job that is shown now, for its revision.        *)
(***************************************************************************)
SubmitForm ==
  /\ dialog # None
  /\ dialog.kind \in {"baseline", "point"}
  /\ Send([kind |-> dialog.kind, job |-> current.job, rev |-> current.rev,
           of |-> dialog.of, overtaken |-> dialog.overtaken])
  /\ UNCHANGED <<server, current, dialog, batch, answers>>

(* The confirmation view of the baseline is fetched before it is frozen. *)
AskFreeze ==
  /\ dialog = None
  /\ current # None
  /\ current.state = "draft"
  /\ Send([kind |-> "confirmation", job |-> current.job])
  /\ UNCHANGED <<server, current, dialog, batch, answers>>

OpenBatch ==
  /\ dialog = None
  /\ current # None
  /\ current.state = "open"
  /\ dialog' = [kind |-> "batch", of |-> [job |-> current.job, rev |-> current.rev],
                overtaken |-> FALSE]
  /\ batch' = EmptyBatch
  /\ UNCHANGED <<server, current, sent, answers>>

DialogIsBatch == dialog # None /\ dialog.kind = "batch"

EditRows(b) ==
  /\ DialogIsBatch
  /\ batch.rows # b
  /\ batch' = [batch EXCEPT !.rows = b, !.digest = None, !.armed = FALSE]
  /\ UNCHANGED <<server, current, dialog, sent, answers>>

Preflight ==
  /\ DialogIsBatch
  /\ batch.rows # None
  /\ Send([kind |-> "preflight", job |-> current.job, rev |-> current.rev,
           rows |-> batch.rows])
  /\ UNCHANGED <<server, current, dialog, batch, answers>>

(* The button is enabled while the batch is armed. *)
ConfirmBatch ==
  /\ DialogIsBatch
  /\ batch.armed
  /\ Send([kind |-> "import", job |-> current.job, rev |-> current.rev,
           rows |-> batch.rows, digest |-> batch.digest, seen |-> batch.seen])
  /\ UNCHANGED <<server, current, dialog, batch, answers>>

CloseDialog ==
  /\ dialog # None
  /\ dialog' = None
  /\ UNCHANGED <<server, current, batch, sent, answers>>

-------------------------------------------------------------------------------
(* What the server does                                                     *)

(* Another page changes the job, or freezes its baseline. *)
OtherPage(j) ==
  /\ server[j].rev < MaxRevision
  /\ \E s \in {server[j].state, "open"} :
       server' = [server EXCEPT ![j].rev = @ + 1, ![j].state = s]
  /\ UNCHANGED <<current, dialog, batch, sent, answers>>

AnswerWith(m, a) ==
  /\ sent' = sent \ {m}
  /\ answers' = answers \cup {a}

ServeLoad(m) ==
  /\ m.kind = "load"
  /\ AnswerWith(m, [kind |-> "load", view |-> View(m.job)])
  /\ UNCHANGED <<server, current, dialog, batch>>

ServeConfirmation(m) ==
  /\ m.kind = "confirmation"
  /\ AnswerWith(m, [kind |-> "confirmation", job |-> m.job,
                    rev |-> server[m.job].rev])
  /\ UNCHANGED <<server, current, dialog, batch>>

(* Mistake: the expected revision is not compared. *)
CurrentState(m) == server[m.job].state = Needs(m.kind)

(* checkRevision and the check of the state. *)
Current(m) ==
  /\ server[m.job].rev = m.rev
  /\ server[m.job].state = Needs(m.kind)

RowsInOrder(j, b) == b \notin server[j].has /\ ~Faulty(j, b)

(* Mistake: the digest covers the job and its revision only. *)
DigestWithoutRows(j, b) == [job |-> j, rev |-> server[j].rev]

(* The preview digest covers the rows and their errors too. *)
PreviewDigest(j, b) ==
  [job |-> j, rev |-> server[j].rev, rows |-> b, ok |-> RowsInOrder(j, b)]

ServePreflight(m) ==
  /\ m.kind = "preflight"
  /\ Current(m)
  /\ AnswerWith(m, [kind |-> "preflight", job |-> m.job, rev |-> m.rev,
                    rows |-> m.rows, ok |-> RowsInOrder(m.job, m.rows),
                    digest |-> PreviewDigest(m.job, m.rows)])
  /\ UNCHANGED <<server, current, dialog, batch>>

(* A form, or the frozen baseline, takes effect. *)
ServeForm(m) ==
  /\ m.kind \in {"baseline", "point", "freeze"}
  /\ Current(m)
  /\ server[m.job].rev < MaxRevision
  /\ server' = [server EXCEPT ![m.job].rev = @ + 1,
                              ![m.job].state =
                                IF m.kind = "freeze" THEN "open" ELSE @]
  /\ AnswerWith(m, [kind |-> m.kind])
  /\ UNCHANGED <<current, dialog, batch>>

(* The rows are in order, and are those of the preview. *)
AsPreviewed(m) ==
  /\ RowsInOrder(m.job, m.rows)
  /\ m.digest = PreviewDigest(m.job, m.rows)

ServeImport(m) ==
  /\ m.kind = "import"
  /\ Current(m)
  /\ AsPreviewed(m)
  /\ server[m.job].rev < MaxRevision
  /\ server' = [server EXCEPT ![m.job].rev = @ + 1,
                              ![m.job].has = @ \cup {m.rows}]
  /\ AnswerWith(m, [kind |-> "batch"])
  /\ UNCHANGED <<current, dialog, batch>>

(***************************************************************************)
(* The request is refused, or it or its answer is lost: the page shows a   *)
(* message and nothing else.                                               *)
(***************************************************************************)
Fail(m) ==
  /\ sent' = sent \ {m}
  /\ answers' = answers \ {m}
  /\ UNCHANGED <<server, current, dialog, batch>>

-------------------------------------------------------------------------------
(* What the page does with an answer                                        *)

(* loadJob: the job is shown, whatever else has happened since. *)
Show(a) ==
  /\ a.kind = "load"
  /\ current' = a.view
  /\ dialog' = IF dialog = None THEN None ELSE [dialog EXCEPT !.overtaken = TRUE]
  /\ answers' = answers \ {a}
  /\ UNCHANGED <<server, batch, sent>>

(***************************************************************************)
(* The user confirms the baseline in the answer; the command goes to the   *)
(* job that is shown, for the revision that was confirmed.                 *)
(***************************************************************************)
ConfirmFreeze(a) ==
  /\ a.kind = "confirmation"
  /\ answers' = answers \ {a}
  /\ sent' = sent \cup
       {[kind |-> "freeze", job |-> current.job, rev |-> a.rev,
         of |-> [job |-> a.job, rev |-> a.rev],
         overtaken |-> current.job # a.job]}
  /\ UNCHANGED <<server, current, dialog, batch>>

ShowPreflight(a) ==
  /\ a.kind = "preflight"
  /\ batch' = [batch EXCEPT !.digest = a.digest, !.armed = a.ok,
                 !.seen = [job |-> a.job, rev |-> a.rev, rows |-> a.rows,
                           ok |-> a.ok]]
  /\ answers' = answers \ {a}
  /\ UNCHANGED <<server, current, dialog, sent>>

(* A command is done: its dialog is closed and the job loaded again. *)
Done(a) ==
  /\ a.kind \in {"baseline", "point", "freeze", "batch"}
  /\ dialog' = IF dialog # None /\ dialog.kind = a.kind THEN None ELSE dialog
  /\ answers' = answers \ {a}
  /\ sent' = sent \cup {[kind |-> "load", job |-> current.job]}
  /\ UNCHANGED <<server, current, batch>>

-------------------------------------------------------------------------------

User ==
  \/ \E j \in Jobs : ClickJob(j)
  \/ \E kind \in {"baseline", "point"} : OpenForm(kind)
  \/ SubmitForm
  \/ AskFreeze
  \/ OpenBatch
  \/ \E b \in Batches : EditRows(b)
  \/ Preflight
  \/ ConfirmBatch
  \/ CloseDialog

Network ==
  \/ \E j \in Jobs : OtherPage(j)
  \/ \E m \in sent :
       \/ ServeLoad(m)
       \/ ServeConfirmation(m)
       \/ ServePreflight(m)
       \/ ServeForm(m)
       \/ ServeImport(m)
  \/ \E m \in sent \cup answers : Fail(m)
  \/ \E a \in answers :
       \/ Show(a)
       \/ ConfirmFreeze(a)
       \/ ShowPreflight(a)
       \/ Done(a)

Next == User \/ Network

Spec == Init /\ [][Next]_vars

-------------------------------------------------------------------------------
(* A batch is accepted only as the user last saw it preflighted: without   *)
(* error, with these rows, in this job at this revision, whatever answers  *)
(* were late, whatever the rows or the shown job became in the meantime    *)
(* and whoever else changed the job.                                       *)
ImportWasPreflighted ==
  \A m \in sent :
    m.kind = "import" /\ Current(m) /\ AsPreviewed(m) =>
      m.seen = [job |-> m.job, rev |-> m.rev, rows |-> m.rows, ok |-> TRUE]

(* A form is accepted only for the job, as it was, that the form was       *)
(* opened for, unless the page was given another view to show while it was *)
(* open: changes by other pages never get in between.                      *)
LandsUnlessOvertaken ==
  \A m \in sent :
    /\ m.kind \in {"baseline", "point", "freeze"}
    /\ Current(m)
    /\ ~m.overtaken
    => /\ m.job = m.of.job
       /\ m.of.rev = server[m.job].rev

(* The baseline that is frozen is the one whose confirmation view the user *)
(* was shown.                                                              *)
ConfirmedIsFrozen ==
  \A m \in sent :
    m.kind = "freeze" /\ Current(m) => m.of = [job |-> m.job, rev |-> m.rev]
===============================================================================
