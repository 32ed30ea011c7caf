# Registration gate: models, checks and proofs

A verification project for the Go program in `src/`: a server that registers
scanned map sheets by control points, judges the fit, has it reviewed by somebody
independent and publishes a manifest that can be verified later. Everything is
translated from the source; paths below are relative to `src/`.

## 1. Inventory

| Component | State | Operations | Correct when |
|---|---|---|---|
| **Job workflow** `internal/app/{jobs,points,maintenance,batch,evaluation,remediation_preview,review,manifest}.go`, `internal/domain` | Per job: record (state, revision, baseline, current evaluation, sample digest), points (never deleted), evaluations, remediation items, remediation records, return instructions, review, manifest | CreateJob, ReviseBaseline, Freeze, AddPoint, ImportBatch, UpdatePoint, DeactivatePoint, Evaluate, ReplacePoint, SubmitReview, Review (approve, reject), Release | Only a control set that passes is submitted; nobody but an independent reviewer approves it; what is published is what was approved, for good; evidence is never lost; the records agree with one another |
| **Audit log** `internal/store/{store,audit}.go` | One hash chain of events for all jobs; the audit head in each manifest | AddEvent (in every command), AuditHead, VerifyAuditEvidence, the chain check of `validate` | The chain is sound, tells the life of each job, gives tampering away; a published manifest verifies |
| **Write protocol and persistence** `internal/app/service.go`, `internal/store/store.go`, `internal/web/protocol.go` | Lock per job, mutex of the store, data in memory, file, temporary file, remembered request ids | Update (clone, apply, validate, write, rename, install), Snapshot, replay, checkRevision, Open | A request takes effect at most once and on the revision its client saw; what was answered or shown is never lost; nobody blocks |
| **Quality algorithms** `internal/georef` | None | Fit, Diagnose, Assess, Sample | Verdict, outliers and sample are functions of baseline and control set; what is called ready can be fitted; the sample spreads over the set |
| **Batch preview** `internal/app/batch.go` | None | buildBatchPreview, digest | A preview without errors is a batch that can be imported, and only that is imported |
| **Review form** `internal/app/review.go` | None | The checks of Review | What is accepted is one verdict on each sampled point |
| **Workflow projection and queries** `internal/app/{projection,query}.go` | None | AvailableActions, views | What is offered is what is accepted |
| **Routes and handlers** `internal/web` | None | One per operation: decode, call, map errors | Answers tell the outcome |
| **Web page** `internal/web/assets` | The shown job, the open dialog, the rows and the digest of a batch | Loads jobs, sends commands, handles answers in whatever order they come | A command takes effect on the job, as it was, that the user saw |
| **Server process, self-test, container** `cmd/server`, build files | Listener | Start, shutdown, self-test | (start and end of the store) |

**How they interact.** A handler decodes a request and calls one operation of
`app.Service`. The operation takes the lock of its job, then calls `Store.Update`,
which takes the mutex of the store, clones *all* data, runs the operation on the
clone, validates the clone, writes it to a temporary file, renames that over the data
file and only then installs the clone in memory. Every accepted command adds one audit
event and stores its answer under its request id. Queries take a snapshot under the
read lock.

**What is hard.** Interleaved commands of several jobs in one audit chain; repeated
and delayed requests across restarts; failures and kills between the steps of a write;
references that outlive what they refer to (current evaluation, sample digest, review,
remediation items) in long legal command sequences; the repair that `Open` makes; answers
that reach the page late, for a job that it no longer shows; rules that are written down
twice (coverage, offered actions, pixels that are equal) and must agree.
`PROJECT.json` lists each hazard at its line, with the properties about it.

## 2. Modules

| Module | Models | Used by |
|---|---|---|
| `PointRules` | Point, distribution and quality rules; floating-point results as constant operators | `Registration` |
| `Registration` | One job with all its records; one action per operation, and `Restart` | `Projection`, `RegistrationProofs`, `RemediationProofs` |
| `Projection` | The actions the page is offered, over the state of `Registration` | `MCRegistration` |
| `Lifecycle` | Abstract: states, legal moves, revision + 1 per command | refined by `Registration`; the jobs of `Audit` |
| `Gate` | Abstract: the promise to the reader of a publication | refined by `Registration` |
| `Audit` | The chain, with one `Lifecycle` per job | `MCAudit` |
| `Protocol` | Handlers, locks, request ids, file, memory, crashes, network | `MCProtocol` |
| `Ledger` | Abstract: requests take effect atomically, once, on the expected revision | refined by `Protocol` |
| `Page` | One page, its dialogs and requests; the handlers that answer it; other pages | `MCPage` |
| `Georef` | Coverage (three copies), readiness, solvability of the fit, the sample | `MCInputs` |
| `BatchPreview` | Row errors and projection of a batch | `MCInputs` |
| `ReviewForm` | The checks on a reviewer's form | `MCInputs` |
| `MCRegistration`, `MCAudit`, `MCProtocol`, `MCPage`, `MCInputs` | Values for TLC; `MCInputs` also puts the inputs together | the `.cfg` files |
| `RegistrationProofs`, `ProjectionProofs`, `AuditProofs`, `ProtocolProofs`, `PageProofs`, `GeorefProofs`, `InputProofs`, `RemediationProofs` | Theorems about the module of that name; `InputProofs`: about `BatchPreview` and `ReviewForm`; `RemediationProofs`: about `Registration` as well, its work items | |

The three detailed models are three views of one server, tied by abstract ones.
`Registration` takes a command as one step, which the promise of `Ledger`, kept by
`Protocol`, justifies. `Audit` takes a job as its lifecycle, which `Registration` is
shown to follow. `Protocol` takes a command as accepted or refused on a revision, since
each command of `Registration` advances the revision by exactly one. `Page` takes a
command as accepted or refused on a revision and a state, and keeps of a job no more than
that; the three modules of algorithms compute what `Registration` takes as given.

### Registration

The variables are the fields of `domain.RegistrationJob` and the maps of `store.Data`
under the job's id. The actions are the commands *accepted*: a refused one leaves the
clone uninstalled and is no step. The condition on which a command that the page offers is
accepted has a name of its own (`MayFreeze`, `MayRelease`, ...) and is the first conjunct
of the action. `AdvancePoints` is the tail shared by
all point commands (`advancePointRevision`: invalidate the evaluation, drop sample
digest and review, revision, state from distribution); `ReplacePoint` repeats it
without the state, as the code does. `Evaluate` contains `updateRemediationItems`;
`Verdict` is the shared part of approve and reject. `Restart` is the repair in
`store.Open`; for a job that needs no repair a restart is a stuttering step.

Abstractions, each with its reason:

- A row has an id, a pixel and a field `map` for all other content, because the code
  compares ids and pixels and only digests the rest. Digests are the values they are
  made of (no collisions).
- RMSE, outliers, quadrants, regularity, finiteness and the sample are CONSTANT operators
  of baseline and control set: in the code they are deterministic functions of these.
- A pixel is a position as printed, and `SamePixel` says which are equal as numbers (0 and
  -0 are): single points are compared as numbers (`ValidPoint`), batch rows as they are
  printed (`ValidRow`). `Evidenced` tells a note from white space, which single points
  refuse and batches accept.
- Evaluations are numbered; `eval` is the last one. No command reads an earlier one.
- `validate` is a guard of `Evaluate` only: comparisons with NaN are false, so a fit that
  overflows can pass `Assess`, and `validate` refuses to store it. `Integrity` shows that
  it refuses no other result of an accepted command, so leaving it out of the other guards
  changes nothing.
- Preview digests are not state: a client can always obtain the right one for the
  current revision, and a wrong one is refused.
- Left out: texts, times, the form of a command's fields, and the instructions and
  comments of a verdict beyond which points failed.

### Projection

`AvailableActions` of `projectWorkflow`, computed from the evaluation that `Get` shows
(`Viewed`: the stored one if the reference names it). `OffersMatchCommands` compares it
with the guards of `Registration`; that what a guard lets through also passes the checks
of the store is `Integrity`.

### Page

`current` is the variable of that name in `app.js`, `batch` the rows of the batch dialog
with `batchDigest` and the state of its button. A request is in `sent` until the server
has served it, its answer in `answers` until the page has handled it; both are sets, taken
from in any order, and `Fail` is a refusal, a lost request or a lost answer. Each function
of the page that awaits an answer is two actions, with everything else in between: `Show`
replaces the shown job whatever is open, `ConfirmFreeze` sends what was confirmed to the
job that is shown by then, `ShowPreflight` arms a batch that may have been edited. The
user types into one dialog at a time, since dialogs are modal. `of`, `seen` and
`overtaken` are history: what the user saw when the form was opened or the batch
preflighted, and whether another view came while a form was open.

### Georef, BatchPreview, ReviewForm

The algorithms as operators, on inputs that a small state machine puts together: a list of
points that are added and taken out of use, a list of batch rows, a review form. `Georef`
has pixels of whole numbers, where every comparison of the code is exact; the normal
matrix is summed up point by point in the order of the list, and its solvability is the
determinant of its block. The hash that ranks the points of a zone is
any order (`HashRank`). Each property compares two ways the code decides on one thing, or
the operator with a definition on sets.

### Audit

`state`, `revision` and `head` per job, and `log`. `Command` and `Release` make one move
of a job and call `AddEvent` in the same step, as they are inside one `Update`. `Release`
records the head *before* its own event. SHA-256 is taken to be free of collisions, so a
hash is the text it is of, with the hashes inside it. That text is not the event: `eventHash`
of the store joins the fields with bars and escapes none, and job, type and detail may hold
bars of their own. `Words[t]` are the parts of a text between its bars; `eventHash` keeps the
parts of all texts in one row, so that two events can have one hash, as in the code.
`Details(s)` are the details a command to state `s` may note. `Edits(e)` are the events that
differ from `e` in one field. `Verifies` translates `VerifyAuditEvidence`; of `Manifest`
only its audit head is there, the components about one job being `PublishedEvidence` of
`Registration`.

### Protocol

A handler goes through `idle, lock, update, apply, write, rename, install, answer`: the
points at which other handlers, a failure or a kill can be observed. `Receive` takes up
any request ever sent, which is loss, repetition, delay and reordering at once. `Apply`
stands for any operation; `Refuse` for any rule that refuses, at whatever revision.
A batch, a replacement and a review hold a digest of what their client was shown. The code
computes it anew from the fields of the command and the job (its revision, its points, its
submission), all of which the requests applied so far determine: `Confirms(c, s)` is
this comparison, an arbitrary operator of both. Where it fails, the answer is a conflict
although the revision is the expected one (`Outdated`). `Conflicts` are the two answers that
`appError` gives to a conflict; all other errors are one, `rule_violation`. `Preview` is
`PreviewBatch` or `PreviewReplacement`: it takes the lock of its job, waits for the reader's
side of the store's lock and changes nothing; previews can be asked for at any time.
`WriteFails` and
`RenameFails` are the error returns of `persist`. `Crash` ends the process at any step;
`Open` reads the file. A file write interrupted by the end of the process shows only in
the temporary file, which nobody reads.

## 3. Runs

Deadlock is checked in the runs of `Protocol` only. In the others it is off: a published
job allows no command, and the bounds end the behaviours.

| Run | Instance | Checks |
|---|---|---|
| `registration` | One baseline, eleven rows: four sound points, one of which can also be bad, three possible replacements, two at 0 and -0, one that overflows, one with a blank note; revision up to 12; operator and one reviewer | Type, integrity, evidence, records, immutability, why a job needs a fix (`NeedsFixHasCause`), how an open item is lost (`StrandedForGood`), and that `Registration` refines `Lifecycle` and `Gate` |
| `no_restart` | The same with two baselines, no restarts, revision up to 10 | `CurrentFresh`, `EvaluationReproducible`, `OffersMatchCommands` |
| `audit` | Two jobs, returned by the reviewer or not, 12 events: enough for both to be published; the id of one job reads like that of the other with a type behind a bar, and details hold bars | Chain, timeline, when verification succeeds, its stability, changes of one field and losses |
| `protocol` | Two commands for one job, one of them a batch that was previewed before any other, two handlers, any number of repetitions, failures and crashes | `KeepsLedger` (refinement), durability of what was answered or read (`ToldIsDurable`), currency of what the next reader sees (`ReadsAreCurrent`), finality of conflicts |
| `two_jobs` | Two commands for two jobs and a preview for one of them, two handlers, with fairness | `KeepsLedger`, `WaitsEnd`, `HandlersFinish` |
| `page_and_inputs` | One page on two jobs, two batches (one with an error), two messages on their way, one change of each job; up to five points on a 2 x 3 image; up to three batch rows of four ids and four pixels; forms with up to three conclusions on two sampled points | The page: what is imported was preflighted, and forms land where they were opened. The algorithms: their copies agree, and what they accept is sound and complete |
| `restart_resurrects`, `rmse_only`, `orphan_item`, `audit_interleaved`, `reused_id`, `page_late_answer` | | Statements of the documents or tests that the code does not meet: see Findings |

**Bounds.** `MaxRevision` is the only bound of `Registration`. Twelve revisions cover:
create, freeze, import, evaluate, submit, reject, replace, evaluate, submit, approve,
release (eleven), with one to spare for a point command or another evaluation. One bad point and three candidates for it cover reopening an item, closing it,
rejecting a sample that was just replaced, revising a replacement, and replacing a
replacement while the first item is open; two rows at 0 and
-0, a residual that overflows and a note of white space bring in what the numbers do.
`MaxEvents` = 12
is the length of two publications, in every interleaving; one job can be sent back on
the way. `Protocol` needs no bound: request ids are finite and each takes effect at most
once, so revisions are bounded, and requests and answers are sets. Two handlers suffice
for the races of two commands, as a third would wait for the same locks: only the chain of
`WaitsEnd` in which one waits for a job whose holder waits for the store takes three, and
there the theorem covers every number. Handlers are
symmetric; the run that checks liveness does not use the symmetry.
Two messages are enough for `Page`, as every race is one of an answer with another or with
the user; one change of a job makes everything that was prepared before it stale. The
image is two wide and three high, so that its centre line runs through points in one
direction and between them in the other; five points are one more than the least that can
be fitted. `MaxBatch` is 2 for the 500 of the code, in lists of up to three rows. The page
and the algorithms share a run, but no state: one is only at work while the others are as
they were initially.

**Fairness.** Safety needs none. `HandlersFinish` assumes weak fairness of the steps a
handler takes by itself (a runnable goroutine is scheduled) and strong fairness of taking
the two locks, for writing and for reading (a `sync.Mutex` whose waiter waited a millisecond
hands itself to that waiter; a writer that leaves a `sync.RWMutex` lets the waiting readers
in first). Clients, failures, crashes and restarts are not fair: a server may stay down and a
request may never be taken up. No property assumes that a human acts, and so none says
that a job gets published.

## 4. Proofs

Every property of a passing run is proved for every value of the constants that the
named assumptions admit, but for the one listed at the end of this section. Each
module of theorems has the same form: an inductive invariant `IInv`, one lemma for what
each step does to it, and the properties as consequences.

### RegistrationProofs

Assumed (`RulesAssumption`, `JobAssumption`): rows are typed, quadrants are four, outliers
and samples are points of the set, the operator is an actor, and the absent values are
none of the present ones. Nothing is assumed of the numbers.

- `IInv` is the conjunction of type, `NothingYet` (a job that was not created has no
  records), `Integrity`, `EvaluationReproducible`, `VerdictTracksSubmission`,
  `SubmittedEvidence` and `PublishedEvidence`. None is inductive alone. For example
  `SubmittedEvidence` says that a passing evaluation *passes the rules as they are*,
  which needs `EvaluationReproducible`, which needs that a job with an evaluation has left
  `draft`; `PublishedEvidence` needs that the review of an approved job is an approval of
  its present sample, from `VerdictTracksSubmission`; and a restart must not bring back
  an evaluation of a submitted job, which `SubmittedEvidence` itself excludes.
- The four commands that change points are proved once, as `PointCommand(P)`: whatever
  the new point set, they reset the same fields. One lemma per command shows it is one.
- `RecordsAgree` has a second inductive layer over `IInv`: an item with a replacement has
  its point out of use, so no evaluation raises a second one for it.
- `PromiseKept` and `LifecycleFollowed` are refinements: every step maps to one move of
  the abstract specification or to none.
- `EvidenceIsRetained` has one lemma for what every step keeps (`RetainedStep`) and one
  for the published job, of which nothing changes (`PublishedStays`).
- `CurrentIsFresh` is about `SpecNoRestart`; with restarts it is false (first finding).

### RemediationProofs

The same assumptions and invariants. The module is about what becomes of problem points.

- `FixesHaveCauses`: a job comes to `needs_fix` by a failing evaluation or a rejection of
  the points it has, and stays there only through replacements, whose preview passed for
  the whole set. A replacement brings an id that no evaluated set has (`Integrity`), which
  tells the two cases apart.
- `OutliersKeepItems` is an invariant of its own, over `IInv`: an outlier of the last
  evaluation has an open item, whatever happened to the points since. The second finding is
  about failures that have no outlier.
- `ItemsStrandForGood` says exactly when an open item loses the points by which it could be
  closed: when its point or its replacement is deactivated, or when its replacement is
  replaced on account of an item of its own. One lemma shows that nothing repairs it
  (`StrandedStays`: ids are never used again, so a point out of use stays so), one that
  the two ways do strand the item, one that there is no third. It needs `RecordsAgree` and
  that items are about points that exist (`Anchored`). `StrandedIsNeverPublished` follows
  with `SubmittedEvidence`: the third finding costs the job.

### ProjectionProofs

The same assumptions, and the invariants of `RegistrationProofs`. The page offers a review,
a release or a verification by the state alone, and a submission by the evaluation it
shows; the commands also ask for sample digest, review, manifest and the digest of the
points. `OffersAreAccepted` shows that all of this follows from what the page looks at. It
takes one invariant more, `ApprovedIsSampled`: the review of an approved job is of the
sample that the job was submitted with. As restarts bring back evaluations (first finding),
the theorem is about `SpecNoRestart`.

### AuditProofs

Assumed (`AuditAssumption`): the moves of a job are between its states; ids, states, types
and details are texts, and a text is known by its parts. `IInv` says that
each job has a last event at every place of the log (`LastsExist`, so that the loops that
search backwards find what `CHOOSE` takes), that the chain is sound, and `Story`: each
event tells the revision it made, starts in the state where the event of the job before it
ended, and is a move of the lifecycle; a publication is the last event of its job and the
recorded head is the event of the job before it. From `Story` follows where the
publication of a job is, and from there `VerifiesUnlessInterleaved`: the recorded head is
`log[Publication - 1]` exactly if that event is the job's own; what distinguishes the hashes
of two events here is their number, which stands before the first bar. `VerificationStable`
holds because the log only grows and a published job has no further event. `EditsNoticed`
rests on `EditsChangeHash`: joined texts of which all but one are equal can be cut off on
both sides (`CutLeft`, `CutRight`), so a change of one text changes what is hashed, whatever
bars the texts hold (`OneTextOfFive`). It says nothing of changes of several fields at once,
and could not: moving text across a bar leaves the hash as it is.

### ProtocolProofs

Assumed (`ProtocolAssumption`): finitely many commands, each for a job of the set; the
absent values are none of the present ones. `IInv` relates the file, the memory and the
working copy of each handler to the locks: the holder of the store's mutex is the only
handler between `apply` and `install` (`Held`); memory is the file, but for the one step
between rename and installation (`Memory`); the working copy is the file or the file with
the handler's own request applied (`Prepared`); history and request ids of the file tell
the same (`Sound`); what clients know and ask for is not ahead of the file (`Heard`); every
answer that was given, or is about to be, is borne out by the file (`Told`). The file
changes in `Rename` alone, by one request that `Ledger` accepts, and this keeps all that
was answered and read: `KeepsLedger`, `ToldIsDurable`, `ConflictIsFinal`.
`ReadsAreCurrent` says the same of the memory whenever its lock is free, since then nobody
stands between the file and the memory. `AnswersUnlessReused` has a hypothesis on the
commands: no two under one id differ in nothing but the operation. Without it its property
is false (fifth finding); any other reuse of an id is answered with a conflict.
Why a request that was answered with a conflict never takes effect (`Final`) has three
reasons: revisions only grow, so a request that was late stays
late; an id that was used for another command stays so; and a digest that was refused at the
revision its request names is refused whenever that revision is the present one, since the
requests before it are the same (`Unconfirmed`). Nothing is assumed of `Confirms`. `WaitsEnd` follows from `Held`: the holder of the store's mutex is at work
and waits for nothing, and the holder of a job's lock is at work, about to answer or
waiting for the store, so that nobody waits in a circle or for a lock that was left behind.

### PageProofs

No assumption. `IInv` says of every digest on its way which preview it is of
(`AnswerTells`), that a batch which can be confirmed holds the digest of the preview that
was seen (`ArmedWasSeen`), and of every form that was not overtaken that it belongs to the
shown job (`DialogOfShown`, `CommandTells`). The server compares digest and revision, so a
digest of other rows, another job or another revision is refused.

### GeorefProofs

Assumed (in `Georef`): an image has a width and a height, and the hash ranks the ids in
some order. The invariant is that of the list: places are ids, and points in use have
pixels of their own.

- Induction over lists is done without an induction theorem: a set of natural numbers has
  a least element (`LeastOf`), so a property that holds of 0 and is handed on has no least
  counterexample (`UpTo`). From this come minima and maxima of finite sets (`MinMax`), the
  partial sums of `Total` (`PartialSums`) and what is known of a sum.
- `ReadySetsFit`: if the determinant is zero, a row of cofactors gives a line
  `a x + b y + c` that the normal matrix takes to zero. The quadratic form of that matrix is the
  sum of the squares of this expression over the points (`FormIsSumOfSquares`), so every
  point lies on the line (`OnLine`), all triangles have area zero (`LinesAreDegenerate`),
  and `Diagnose` had called the set degenerate.
- `SamplesAreOfTheSet`: the sample is a function of the set of records in use
  (`SameSample`), through box, centre, parts of the box and the point of lowest rank in
  each; exchanging two places, or dropping one out of use, keeps that set.
- `RulesAreOfTheSet` ties `Registration` to the algorithms: `PointRules` takes coverage,
  readiness and sample as operators of the control set, and here they are shown to be the
  same for all lists with the same records in use.
- `SamplesSpread`: each point is represented by a drawn one of the same part of the box
  (`Represented`); the outermost points lie on different sides of the middle.

### InputProofs

Assumed (`BatchAssumption`, `FormAssumption`): a job has one point to an id, and to a
pixel in use (`Integrity` of `Registration`); the sample is finite and among the ids a
form may name. For batches of every length, `Duplicates` and the own errors of the rows
are together empty exactly if the rows form a set that may be added (a list without
repetitions has as many members as places, by the surjection onto its members); and the
rows taken are characterised without their order (`Taken`), so a list and its reverse
project the same. For forms of every length: the map has as many ids as the sample and
contains it, so it is on the sample; the list has as many conclusions as the sample and
repeats none, so it has each point once.

### Only model-checked

- `HandlersFinish`: liveness under fairness.

What stays outside of both is rounding (section 6).

## 5. Findings

1. **An invalidated evaluation comes back** (`store/store.go:73`). The repair of old
   records in `Open` cannot tell them from a job whose points have changed. Nothing wrong
   can be submitted, since the digest of the control set is compared; the page shows it.
2. **A failure without an item** (`app/evaluation.go:72`). A fit that fails by its RMSE
   alone raises no item, so nothing can be replaced. An outlier always has one
   (`OutliersKeepItems`).
3. **An item nobody can close** (`app/points.go:34`). `AddPoint` leads out of `needs_fix`
   with items open; if their point is then deactivated, the job can never be submitted.
   Nor can it when the point had been replaced and its replacement, having become a problem
   point, is replaced in turn: the first item goes on naming a point that is out of use
   (`app/evaluation.go:86`). `ItemsStrandForGood` shows that these are the only two ways
   and that neither can be undone.
4. **A publication that never verifies** (`app/manifest.go:53`). The manifest records the
   last event of the job, the verification expects the last of the store. Any command of
   another job in between makes it fail for good.
5. **A request id of another operation** (`app/service.go:58`). Commands with equal fields
   share a hash, so the second is answered with the result of the first. Nothing else
   makes an answer ok tell of another operation (`AnswersUnlessReused`).
6. **The wrong baseline is frozen** (`web/assets/app.js:27`). The page fetches the
   confirmation view of the job it shows, and sends the freeze to the job it shows when the
   view has come. If a click on another job was answered in between, the user confirms one
   baseline and freezes the other, as long as both are at one revision. Forms have the same
   weakness (`LandsUnlessOvertaken` holds only while no other view came).

Observations that no document contradicts plainly: with two problem points a single
replacement never makes the set pass, so neither can be replaced (`app/points.go:115`;
`NeedsFixHasCause` is what the rule buys: a job whose points were replaced is as good as fixed);
an evaluation that overflows is refused each time, and the page offers it all the same
(`domain/integrity.go:64`); a replacement that overflows is not refused for it, but its
preview cannot be encoded, so that a page never sees the digest it would have to send; a batch accepts a note of white space and a
pixel that differs from another in the sign of zero, which a single point does not; after a
restart the page offers a review that is refused, which is the first finding seen from the
page; and a rejected job may be evaluated unchanged and returns to `solvable` with its items
open (`app/evaluation.go:30`), from where it can be neither submitted nor remediated until
a change of points makes it fail again.

## 6. Not modelled, and why

- Rounding, the coefficients and the residuals of `Fit`: real numbers. `Registration`
  assumes nothing of them; `Georef` has what can be decided on whole numbers.
- The warnings of `Diagnose` (points near the border, clustered points): they block nothing.
- The comparison of earlier evaluations and the order of the job list in `query.go`:
  presentation. Both sort by wall-clock time, so a clock that is set back reorders them.
- Decoding, routes, rendering, flags, container: wire format and layout.
- A second page in full: `Page` has one, and `OtherPage` stands for what any other does to
  the jobs.
- Changes of the data file that keep the joined text of every event, by moving text across a
  bar from one field to the next (`store/store.go:149`): they leave the chain as it is, and
  neither the code nor a document says that they are noticed.
- The iteration over a map in `Sample`, and the sort that undoes its order: sets in `Georef`.
- The form of a request id. `ReplacePoint` is the one command that accepts an empty id; the
  first replacement without one claims it, and later ones are answered as with any id that is
  used twice.
- The self-test is one straight path, which the runs of `Registration` contain.
- A power failure: the file is renamed without being synced, and a torn file stops the
  next start. `Protocol` kills the process, not the operating system.

## 7. Plan

Done, in this order: `PointRules`, `Registration`, `Lifecycle`, `Gate`, their proofs;
`Audit`; `Ledger`, `Protocol`; `Projection`, `Georef`, `BatchPreview`, `ReviewForm`,
`Page`; the proofs for `Audit`, `Protocol`, `Page`, `BatchPreview` and `ReviewForm`, and
for `Georef` and `Projection`; `RemediationProofs`. Theorems beside the third and the fifth
finding say when the promise does hold.
Left, by importance:

1. A composition of `Audit` and `Protocol` in which a kill falls between release and
   verification, if it asks more than the two alone.
2. A power failure in `Protocol`, once the code says what it promises about one.
