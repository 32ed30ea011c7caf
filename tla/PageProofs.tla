------------------------------- MODULE PageProofs -------------------------------
(***************************************************************************)
(* Theorems about Page, for every set of jobs and batches and any number   *)
(* of messages on their way.                                               *)
(***************************************************************************)
EXTENDS Page, TLAPS

-------------------------------------------------------------------------------
(* The invariant                                                            *)

Digest(j, n, b, ok) == [job |-> j, rev |-> n, rows |-> b, ok |-> ok]

(* A form that was not overtaken is one of the job as it is shown. *)
DialogOfShown ==
  dialog # None =>
    /\ dialog = [kind |-> dialog.kind, of |-> dialog.of, overtaken |-> dialog.overtaken]
    /\ ~dialog.overtaken => dialog.of = [job |-> current.job, rev |-> current.rev]

(* The digest of a batch that can be confirmed is of the preview seen. *)
ArmedWasSeen ==
  /\ batch = [rows |-> batch.rows, digest |-> batch.digest,
              armed |-> batch.armed, seen |-> batch.seen]
  /\ batch.armed => batch.digest = batch.seen

(* A preview tells what its digest covers. *)
AnswerTells ==
  \A a \in answers : a.kind = "preflight" =>
    a.digest = Digest(a.job, a.rev, a.rows, a.ok)

(* What a command on its way is about. *)
CommandTells ==
  \A m \in sent :
    /\ m.kind = "import" => m.digest = m.seen
    /\ m.kind \in {"baseline", "point", "freeze"} /\ ~m.overtaken =>
         m.of = [job |-> m.job, rev |-> m.rev]

IInv == DialogOfShown /\ ArmedWasSeen /\ AnswerTells /\ CommandTells

-------------------------------------------------------------------------------
(* Steps                                                                    *)

LEMMA IInvInit == Init => IInv
  BY DEF Init, EmptyBatch, IInv, DialogOfShown, ArmedWasSeen, AnswerTells, CommandTells

(* What the user does. *)
LEMMA UserStep == IInv /\ User => IInv'
<1> SUFFICES ASSUME IInv, User PROVE IInv'
  OBVIOUS
<1> USE DEF IInv
<1>1. ASSUME NEW m, Send(m), m.kind \notin {"import", "baseline", "point", "freeze"}
      PROVE  CommandTells'
  BY <1>1 DEF Send, CommandTells
<1>2. ASSUME NEW j \in Jobs, ClickJob(j) PROVE IInv'
  <2>1. CommandTells'
    BY <1>1, <1>2 DEF ClickJob
  <2> QED
    BY <1>2, <2>1 DEF ClickJob, DialogOfShown, ArmedWasSeen, AnswerTells
<1>3. ASSUME NEW kind, OpenForm(kind) PROVE IInv'
  BY <1>3 DEF OpenForm, DialogOfShown, ArmedWasSeen, AnswerTells, CommandTells
<1>4. ASSUME SubmitForm PROVE IInv'
  <2> DEFINE m == [kind |-> dialog.kind, job |-> current.job, rev |-> current.rev,
                   of |-> dialog.of, overtaken |-> dialog.overtaken]
  <2>1. sent' = sent \cup {m} /\ dialog # None /\ m.kind \in {"baseline", "point"}
    BY <1>4 DEF SubmitForm, Send
  <2>2. ~m.overtaken => m.of = [job |-> m.job, rev |-> m.rev]
    BY <2>1 DEF DialogOfShown
  <2> HIDE DEF m
  <2>3. CommandTells'
    BY <2>1, <2>2 DEF CommandTells
  <2> QED
    BY <1>4, <2>3 DEF SubmitForm, DialogOfShown, ArmedWasSeen, AnswerTells
<1>5. ASSUME AskFreeze PROVE IInv'
  <2>1. CommandTells'
    BY <1>1, <1>5 DEF AskFreeze
  <2> QED
    BY <1>5, <2>1 DEF AskFreeze, DialogOfShown, ArmedWasSeen, AnswerTells
<1>6. ASSUME OpenBatch PROVE IInv'
  BY <1>6 DEF OpenBatch, EmptyBatch, DialogOfShown, ArmedWasSeen, AnswerTells, CommandTells
<1>7. ASSUME NEW b \in Batches, EditRows(b) PROVE IInv'
  <2>1. batch' = [rows |-> b, digest |-> None, armed |-> FALSE, seen |-> batch.seen]
    BY <1>7 DEF EditRows, ArmedWasSeen
  <2> QED
    BY <1>7, <2>1 DEF EditRows, DialogOfShown, ArmedWasSeen, AnswerTells, CommandTells
<1>8. ASSUME Preflight PROVE IInv'
  <2>1. CommandTells'
    BY <1>1, <1>8 DEF Preflight
  <2> QED
    BY <1>8, <2>1 DEF Preflight, DialogOfShown, ArmedWasSeen, AnswerTells
<1>9. ASSUME ConfirmBatch PROVE IInv'
  <2> DEFINE m == [kind |-> "import", job |-> current.job, rev |-> current.rev,
                   rows |-> batch.rows, digest |-> batch.digest, seen |-> batch.seen]
  <2>1. sent' = sent \cup {m} /\ batch.armed
    BY <1>9 DEF ConfirmBatch, Send
  <2>2. m.kind = "import" /\ m.digest = m.seen
    BY <2>1 DEF ArmedWasSeen
  <2> HIDE DEF m
  <2>3. CommandTells'
    BY <2>1, <2>2 DEF CommandTells
  <2> QED
    BY <1>9, <2>3 DEF ConfirmBatch, DialogOfShown, ArmedWasSeen, AnswerTells
<1>10. ASSUME CloseDialog PROVE IInv'
  BY <1>10 DEF CloseDialog, DialogOfShown, ArmedWasSeen, AnswerTells, CommandTells
<1> QED
  BY <1>2, <1>3, <1>4, <1>5, <1>6, <1>7, <1>8, <1>9, <1>10 DEF User

(* What the server and the network do. *)
LEMMA ServerStep ==
  ASSUME IInv,
         \/ \E j \in Jobs : OtherPage(j)
         \/ \E m \in sent : \/ ServeLoad(m) \/ ServeConfirmation(m)
                            \/ ServePreflight(m) \/ ServeForm(m) \/ ServeImport(m)
         \/ \E m \in sent \cup answers : Fail(m)
  PROVE  IInv'
<1> USE DEF IInv
<1>1. UNCHANGED <<current, dialog, batch>>
  BY DEF OtherPage, ServeLoad, ServeConfirmation, ServePreflight, ServeForm,
     ServeImport, Fail
<1>2. sent' \subseteq sent
  BY DEF OtherPage, ServeLoad, ServeConfirmation, ServePreflight, ServeForm,
     ServeImport, Fail, AnswerWith
<1>3. AnswerTells'
  <2>1. ASSUME answers' \subseteq answers PROVE AnswerTells'
    BY <2>1 DEF AnswerTells
  <2>2. ASSUME NEW m, NEW a, AnswerWith(m, a), a.kind # "preflight" PROVE AnswerTells'
    BY <2>2 DEF AnswerTells, AnswerWith
  <2>3. ASSUME NEW m \in sent, ServePreflight(m) PROVE AnswerTells'
    BY <2>3 DEF ServePreflight, Current, PreviewDigest, AnswerWith, AnswerTells, Digest
  <2>4. ASSUME NEW m \in sent,
               ServeLoad(m) \/ ServeConfirmation(m) \/ ServeForm(m) \/ ServeImport(m)
        PROVE  AnswerTells'
    BY <2>2, <2>4 DEF ServeLoad, ServeConfirmation, ServeForm, ServeImport
  <2>5. ASSUME (\E j \in Jobs : OtherPage(j)) \/ (\E m \in sent \cup answers : Fail(m))
        PROVE  AnswerTells'
    BY <2>1, <2>5 DEF OtherPage, Fail
  <2> QED
    BY <2>3, <2>4, <2>5
<1> QED
  BY <1>1, <1>2, <1>3 DEF DialogOfShown, ArmedWasSeen, CommandTells

(* What the page does with an answer. *)
LEMMA AnswerStep ==
  ASSUME IInv, NEW a \in answers,
         Show(a) \/ ConfirmFreeze(a) \/ ShowPreflight(a) \/ Done(a)
  PROVE  IInv'
<1> USE DEF IInv
<1>1. AnswerTells'
  BY DEF Show, ConfirmFreeze, ShowPreflight, Done, AnswerTells
<1>2. ASSUME Show(a) PROVE IInv'
  BY <1>1, <1>2 DEF Show, DialogOfShown, ArmedWasSeen, CommandTells
<1>3. ASSUME ConfirmFreeze(a) PROVE IInv'
  <2> DEFINE m == [kind |-> "freeze", job |-> current.job, rev |-> a.rev,
                   of |-> [job |-> a.job, rev |-> a.rev],
                   overtaken |-> current.job # a.job]
  <2>1. sent' = sent \cup {m} /\ m.kind = "freeze"
    BY <1>3 DEF ConfirmFreeze
  <2>2. ~m.overtaken => m.of = [job |-> m.job, rev |-> m.rev]
    OBVIOUS
  <2> HIDE DEF m
  <2>3. CommandTells'
    BY <2>1, <2>2 DEF CommandTells
  <2> QED
    BY <1>1, <1>3, <2>3 DEF ConfirmFreeze, DialogOfShown, ArmedWasSeen
<1>4. ASSUME ShowPreflight(a) PROVE IInv'
  <2>1. a.digest = Digest(a.job, a.rev, a.rows, a.ok)
    BY <1>4 DEF ShowPreflight, AnswerTells
  <2>2. batch' = [rows |-> batch.rows, digest |-> a.digest, armed |-> a.ok,
                  seen |-> Digest(a.job, a.rev, a.rows, a.ok)]
    BY <1>4 DEF ShowPreflight, ArmedWasSeen, Digest
  <2>3. ArmedWasSeen'
    <3>1. batch'.digest = batch'.seen
      BY <2>1, <2>2
    <3>2. batch' = [rows |-> batch'.rows, digest |-> batch'.digest,
                    armed |-> batch'.armed, seen |-> batch'.seen]
      BY <2>2
    <3> QED
      BY <3>1, <3>2 DEF ArmedWasSeen
  <2> QED
    BY <1>1, <1>4, <2>3 DEF ShowPreflight, DialogOfShown, CommandTells
<1>5. ASSUME Done(a) PROVE IInv'
  <2> DEFINE m == [kind |-> "load", job |-> current.job]
  <2>1. sent' = sent \cup {m} /\ m.kind = "load"
    BY <1>5 DEF Done
  <2> HIDE DEF m
  <2>2. CommandTells'
    BY <2>1 DEF CommandTells
  <2> QED
    BY <1>1, <1>5, <2>2 DEF Done, DialogOfShown, ArmedWasSeen
<1> QED
  BY <1>2, <1>3, <1>4, <1>5

LEMMA InductiveInvariant == Spec => []IInv
<1>1. IInv /\ [Next]_vars => IInv'
  <2> SUFFICES ASSUME IInv, [Next]_vars PROVE IInv'
    OBVIOUS
  <2>1. CASE Next
    BY <2>1, UserStep, ServerStep, AnswerStep DEF Next, Network
  <2>2. CASE UNCHANGED vars
    BY <2>2 DEF vars, IInv, DialogOfShown, ArmedWasSeen, AnswerTells, CommandTells
  <2> QED
    BY <2>1, <2>2
<1> QED
  BY <1>1, IInvInit, PTL DEF Spec

-------------------------------------------------------------------------------
(* Theorems                                                                 *)

(* ImportWasPreflighted: a batch is accepted only as the user last saw it  *)
(* preflighted, whichever answers were late.                               *)
THEOREM ImportsWerePreflighted == Spec => []ImportWasPreflighted
<1>1. IInv => ImportWasPreflighted
  <2> SUFFICES ASSUME IInv, NEW m \in sent,
                      m.kind = "import", Current(m), AsPreviewed(m)
               PROVE  m.seen = [job |-> m.job, rev |-> m.rev, rows |-> m.rows, ok |-> TRUE]
    BY DEF ImportWasPreflighted
  <2>1. m.seen = m.digest
    BY DEF IInv, CommandTells
  <2>2. RowsInOrder(m.job, m.rows) = TRUE
    BY DEF AsPreviewed, RowsInOrder
  <2>3. m.digest = [job |-> m.job, rev |-> m.rev, rows |-> m.rows,
                    ok |-> RowsInOrder(m.job, m.rows)]
    BY DEF AsPreviewed, PreviewDigest, Current
  <2> QED
    BY <2>1, <2>2, <2>3
<1> QED
  BY <1>1, InductiveInvariant, PTL

(* LandsUnlessOvertaken: a form is accepted only for what it was opened    *)
(* for, unless another view came while it was open.                        *)
THEOREM FormsLand == Spec => []LandsUnlessOvertaken
<1>1. IInv => LandsUnlessOvertaken
  <2> SUFFICES ASSUME IInv, NEW m \in sent,
                      m.kind \in {"baseline", "point", "freeze"}, Current(m), ~m.overtaken
               PROVE  m.job = m.of.job /\ m.of.rev = server[m.job].rev
    BY DEF LandsUnlessOvertaken
  <2>1. m.of = [job |-> m.job, rev |-> m.rev]
    BY DEF IInv, CommandTells
  <2>2. m.of.job = m.job /\ m.of.rev = m.rev
    BY <2>1
  <2> QED
    BY <2>2 DEF Current
<1> QED
  BY <1>1, InductiveInvariant, PTL
===============================================================================
