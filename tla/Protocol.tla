------------------------------- MODULE Protocol -------------------------------
(***************************************************************************)
(* How a write request gets from a client to the file: the handlers of     *)
(* internal/web, the locks and the request ids of app.Service, and         *)
(* store.Update with its clone, its file and its copy in memory.           *)
(*                                                                         *)
(* A request is [id, op, job, body, expected].  What the operation does to *)
(* the job is the business of Registration and is reduced to its being     *)
(* accepted, which advances the revision by one, or refused; body is what  *)
(* else the command struct holds, and its type.  A batch, a replacement    *)
(* and a review hold the digest of what their client was shown.  A preview *)
(* comes the same way, takes the lock of its job and only reads.           *)
(*                                                                         *)
(* Handlers are goroutines and run concurrently.  The network loses and    *)
(* repeats requests and loses answers: a handler may take up any request   *)
(* that was ever sent, any number of times.  The server may be killed      *)
(* between any two steps; the file system is not.                          *)
(***************************************************************************)
EXTENDS Naturals, Sequences, FiniteSets

CONSTANTS
  Jobs,     \* job ids
  Commands, \* what clients want: [id, op, job, body]
  Confirms(_, _), \* Confirms(c, s): the digest among the fields c of a command
                  \* is the one computed of its job after the requests s; TRUE
                  \* of a command that holds none
  Handlers, \* goroutines that serve a request
  Free,     \* nobody holds the lock
  None      \* no record, or no complete file

VARIABLES
  known,    \* known[j]: the revisions of job j that clients have read
  sent,     \* the previews, and the commands that clients have sent
  replies,  \* the answers that the server has given, but for refusals by a rule
  disk,     \* the data in the file
  tmp,      \* the data in the temporary file
  mem,      \* Store.d, None while the server is down
  jobLock,  \* Service.locks: the holder of the lock of each job
  mutex,    \* Store.mu: its writer
  pc,       \* where each handler is
  request,  \* the request each handler serves
  next,     \* its working copy in Update
  reply     \* its answer

clientVars == <<known, sent>>
storeVars == <<disk, tmp, mem>>
lockVars == <<jobLock, mutex>>
handlerVars == <<pc, request, next, reply>>
vars == <<clientVars, replies, storeVars, lockVars, handlerVars>>

-------------------------------------------------------------------------------
(* Data                                                                     *)

Ids == {c.id : c \in Commands}

Revisions == 0..Cardinality(Ids)

Request ==
  {[id |-> c.id, op |-> c.op, job |-> c.job, body |-> c.body, expected |-> n] :
     c \in Commands, n \in Revisions}

(* A preview is asked for at any time; the revision that it expects decides *)
(* only on what it shows, and is left out.                                 *)
Previews ==
  {[id |-> c.id, op |-> c.op, job |-> c.job, body |-> c.body, expected |-> 0] :
     c \in {b \in Commands : b.op = "preview"}}

(* The hash of a command covers the fields of its struct, not the name of  *)
(* the operation; it is taken to be free of collisions.                    *)
requestHash(m) == <<m.id, m.job, m.body, m.expected>>

(* Result and Request of a command that made revision n. *)
Response(m, n) == [hash |-> requestHash(m), revision |-> n]

(* history stands for the job and its audit events: it holds the requests  *)
(* that were applied, and its length is the revision of the job.           *)
Empty == [history  |-> [j \in Jobs |-> <<>>],
          requests |-> [i \in Ids |-> None]]

Revision(d, j) == Len(d.history[j])

(* The data d with the effect of the request m, which makes revision n. *)
Effect(d, m, n) ==
  [history  |-> [d.history EXCEPT ![m.job] = Append(@, m)],
   requests |-> [d.requests EXCEPT ![m.id] = Response(m, n)]]

Data ==
  {d \in [history : [Jobs -> Seq(Request)], requests : [Ids ->
      [hash : {requestHash(m) : m \in Request}, revision : Revisions] \cup {None}]] :
     \A j \in Jobs : Revision(d, j) \in Revisions}

ASSUME ProtocolAssumption ==
  /\ IsFiniteSet(Commands)
  /\ \A c \in Commands : c.job \in Jobs
  /\ Free \notin Handlers
  /\ None \notin Request \cup Data
  /\ None \notin {Response(m, n) : m \in Request, n \in Revisions}

Conflicts == {"revision_conflict", "idempotency_conflict"}

Success(n) == [kind |-> "ok", revision |-> n]
Failure(e) == [kind |-> e, revision |-> 0]

Init ==
  /\ known = [j \in Jobs |-> {0}]
  /\ sent = Previews
  /\ replies = {}
  /\ disk = Empty
  /\ tmp = None
  /\ mem = Empty
  /\ jobLock = [j \in Jobs |-> Free]
  /\ mutex = Free
  /\ pc = [h \in Handlers |-> "idle"]
  /\ request = [h \in Handlers |-> None]
  /\ next = [h \in Handlers |-> None]
  /\ reply = [h \in Handlers |-> None]

-------------------------------------------------------------------------------
(* Clients                                                                  *)

(* Snapshot takes the read lock of the store. *)
Read(j) ==
  /\ mem # None
  /\ mutex = Free
  /\ known' = [known EXCEPT ![j] = @ \cup {Revision(mem, j)}]
  /\ UNCHANGED <<sent, replies, storeVars, lockVars, handlerVars>>

Send(c, n) ==
  /\ n \in known[c.job]
  /\ c.op # "preview"
  /\ sent' = sent \cup {[id |-> c.id, op |-> c.op, job |-> c.job,
                         body |-> c.body, expected |-> n]}
  /\ UNCHANGED <<known, replies, storeVars, lockVars, handlerVars>>

-------------------------------------------------------------------------------
(* A handler                                                                *)

At(h, here, there) == pc[h] = here /\ pc' = [pc EXCEPT ![h] = there]

Receive(h, m) ==
  /\ mem # None
  /\ At(h, "idle", "lock")
  /\ request' = [request EXCEPT ![h] = m]
  /\ UNCHANGED <<clientVars, replies, storeVars, lockVars, next, reply>>

(* Mistake: each operation makes a lock of its own. *)
LockNothing(h) ==
  /\ At(h, "lock", "update")
  /\ jobLock' = [jobLock EXCEPT ![request[h].job] = h]
  /\ UNCHANGED <<clientVars, replies, storeVars, mutex, request, next, reply>>

LockJob(h) ==
  /\ At(h, "lock", "update")
  /\ jobLock[request[h].job] = Free
  /\ jobLock' = [jobLock EXCEPT ![request[h].job] = h]
  /\ UNCHANGED <<clientVars, replies, storeVars, mutex, request, next, reply>>

(* Mistake: Update clones the data before it has the lock. *)
BeginUnlocked(h) ==
  /\ At(h, "update", "apply")
  /\ request[h].op # "preview"
  /\ mutex' = h
  /\ next' = [next EXCEPT ![h] = mem]
  /\ UNCHANGED <<clientVars, replies, storeVars, jobLock, request, reply>>

(***************************************************************************)
(* A preview reads the data under the lock of its job: Snapshot waits for  *)
(* the store's writer.  What it shows, or why not, tells nothing of what   *)
(* becomes of a command.                                                   *)
(***************************************************************************)
Preview(h) ==
  /\ At(h, "update", "answer")
  /\ request[h].op = "preview"
  /\ mutex = Free
  /\ reply' = [reply EXCEPT ![h] = [kind |-> "preview", revision |-> 0]]
  /\ UNCHANGED <<clientVars, replies, storeVars, lockVars, request, next>>

(* Update begins: it locks the store and clones the data. *)
Begin(h) ==
  /\ At(h, "update", "apply")
  /\ request[h].op # "preview"
  /\ mutex = Free
  /\ mutex' = h
  /\ next' = [next EXCEPT ![h] = mem]
  /\ UNCHANGED <<clientVars, replies, storeVars, jobLock, request, reply>>

(* Mistake: the store is not unlocked on the way of an error. *)
EndWithoutDefer(h, here, r) ==
  /\ At(h, here, "answer")
  /\ mutex' = IF r.kind = "ok" THEN Free ELSE mutex
  /\ next' = [next EXCEPT ![h] = None]
  /\ reply' = [reply EXCEPT ![h] = r]
  /\ UNCHANGED <<clientVars, replies, jobLock, request>>

(* Update ends with the answer r and unlocks the store. *)
End(h, here, r) ==
  /\ At(h, here, "answer")
  /\ mutex' = Free
  /\ next' = [next EXCEPT ![h] = None]
  /\ reply' = [reply EXCEPT ![h] = r]
  /\ UNCHANGED <<clientVars, replies, jobLock, request>>

(* What the store remembers of the request id of h, None if nothing. *)
Remembered(h) == next[h].requests[request[h].id]

(* The request was applied before: its response is given again, and the    *)
(* data as it is goes through the file once more.                          *)
Replay(h) ==
  /\ At(h, "apply", "write")
  /\ Remembered(h) # None
  /\ Remembered(h).hash = requestHash(request[h])
  /\ reply' = [reply EXCEPT ![h] = Success(Remembered(h).revision)]
  /\ UNCHANGED <<clientVars, replies, storeVars, lockVars, request, next>>

(* The request id belongs to another command. *)
Mismatch(h) ==
  /\ End(h, "apply", Failure("idempotency_conflict"))
  /\ Remembered(h) # None
  /\ Remembered(h).hash # requestHash(request[h])
  /\ UNCHANGED storeVars

(* Mistake: the revision is checked before the request id. *)
StaleFirst(h) ==
  /\ End(h, "apply", Failure("revision_conflict"))
  /\ Revision(next[h], request[h].job) # request[h].expected
  /\ UNCHANGED storeVars

(* checkRevision, or a job to create that exists. *)
Stale(h) ==
  /\ End(h, "apply", Failure("revision_conflict"))
  /\ Remembered(h) = None
  /\ Revision(next[h], request[h].job) # request[h].expected
  /\ UNCHANGED storeVars

(* The digest in the command is that of the job as it is in the working copy. *)
Confirmed(h) ==
  Confirms(requestHash(request[h]), next[h].history[request[h].job])

(* The revision is the one expected, but the preview of the batch or of    *)
(* the replacement, or the sample of the review, is not the one shown.     *)
Outdated(h) ==
  /\ End(h, "apply", Failure("revision_conflict"))
  /\ Remembered(h) = None
  /\ Revision(next[h], request[h].job) = request[h].expected
  /\ ~Confirmed(h)
  /\ UNCHANGED storeVars

(***************************************************************************)
(* A rule of the operation, the state of the job, or validate refuses the  *)
(* command: before or after the digest is compared, and ReviseBaseline     *)
(* even before the revision is.  Every error that is no conflict is called *)
(* a rule violation.                                                       *)
(***************************************************************************)
Refuse(h) ==
  /\ End(h, "apply", Failure("rule_violation"))
  /\ Remembered(h) = None
  /\ UNCHANGED storeVars

(* Mistake: the revision is not compared with the one expected. *)
ApplyToAny(h) ==
  LET m == request[h]
      n == Revision(next[h], m.job) + 1
  IN /\ At(h, "apply", "write")
     /\ Remembered(h) = None
     /\ Confirmed(h)
     /\ next' = [next EXCEPT ![h] = Effect(@, m, n)]
     /\ reply' = [reply EXCEPT ![h] = Success(n)]
     /\ UNCHANGED <<clientVars, replies, storeVars, lockVars, request>>

(* Mistake: the digest of what was shown is not compared. *)
ApplyUnconfirmed(h) ==
  LET m == request[h]
      n == m.expected + 1
  IN /\ At(h, "apply", "write")
     /\ Remembered(h) = None
     /\ Revision(next[h], m.job) = m.expected
     /\ next' = [next EXCEPT ![h] = Effect(@, m, n)]
     /\ reply' = [reply EXCEPT ![h] = Success(n)]
     /\ UNCHANGED <<clientVars, replies, storeVars, lockVars, request>>

(* The command is applied to the working copy and remembered in it. *)
Apply(h) ==
  LET m == request[h]
      n == m.expected + 1
  IN /\ At(h, "apply", "write")
     /\ Remembered(h) = None
     /\ Revision(next[h], m.job) = m.expected
     /\ Confirmed(h)
     /\ next' = [next EXCEPT ![h] = Effect(@, m, n)]
     /\ reply' = [reply EXCEPT ![h] = Success(n)]
     /\ UNCHANGED <<clientVars, replies, storeVars, lockVars, request>>

Write(h) ==
  /\ At(h, "write", "rename")
  /\ tmp' = next[h]
  /\ UNCHANGED <<clientVars, replies, disk, mem, lockVars, request, next,
                 reply>>

(* Mistake: the error of WriteFile is dropped. *)
WriteFailsSilently(h) ==
  /\ At(h, "write", "install")
  /\ tmp' = None
  /\ UNCHANGED <<clientVars, replies, disk, mem, lockVars, request, next,
                 reply>>

WriteFails(h) ==
  /\ End(h, "write", Failure("rule_violation"))
  /\ tmp' = None
  /\ UNCHANGED <<disk, mem>>

Rename(h) ==
  /\ At(h, "rename", "install")
  /\ tmp # None
  /\ disk' = tmp
  /\ tmp' = None
  /\ UNCHANGED <<clientVars, replies, mem, lockVars, request, next, reply>>

RenameFails(h) ==
  /\ End(h, "rename", Failure("rule_violation"))
  /\ UNCHANGED storeVars

(* Mistake: the file is written, and the data in memory stay as they are. *)
InstallNothing(h) ==
  /\ End(h, "install", reply[h])
  /\ UNCHANGED storeVars

(* The working copy replaces the data in memory. *)
Install(h) ==
  /\ End(h, "install", reply[h])
  /\ mem' = next[h]
  /\ UNCHANGED <<disk, tmp>>

(* The operation unlocks its job, and the handler answers.  An answer that *)
(* tells nothing of what is to come, a rule violation or a preview, is not *)
(* kept.                                                                   *)
Answer(h) ==
  /\ At(h, "answer", "idle")
  /\ jobLock' = [jobLock EXCEPT ![request[h].job] = Free]
  /\ replies' = replies \cup
       {a \in {[request |-> request[h], reply |-> reply[h]]} :
          a.reply.kind \in Conflicts \cup {"ok"}}
  /\ request' = [request EXCEPT ![h] = None]
  /\ reply' = [reply EXCEPT ![h] = None]
  /\ UNCHANGED <<clientVars, storeVars, mutex, next>>

-------------------------------------------------------------------------------
(* The server                                                               *)

(* The process ends, whatever its handlers are doing. *)
Crash ==
  /\ mem # None
  /\ mem' = None
  /\ jobLock' = [j \in Jobs |-> Free]
  /\ mutex' = Free
  /\ pc' = [h \in Handlers |-> "idle"]
  /\ request' = [h \in Handlers |-> None]
  /\ next' = [h \in Handlers |-> None]
  /\ reply' = [h \in Handlers |-> None]
  /\ UNCHANGED <<clientVars, replies, disk, tmp>>

(* Mistake: a temporary file that was left behind is taken to be newer. *)
OpenLatest ==
  /\ mem = None
  /\ mem' = IF tmp # None THEN tmp ELSE disk
  /\ UNCHANGED <<clientVars, replies, disk, tmp, lockVars, handlerVars>>

Open ==
  /\ mem = None
  /\ mem' = disk
  /\ UNCHANGED <<clientVars, replies, disk, tmp, lockVars, handlerVars>>

(* What a handler does on its own once it has its locks. *)
Proceed(h) ==
  \/ Replay(h) \/ Mismatch(h) \/ Stale(h) \/ Outdated(h) \/ Refuse(h) \/ Apply(h)
  \/ Write(h) \/ WriteFails(h)
  \/ Rename(h) \/ RenameFails(h)
  \/ Install(h)
  \/ Answer(h)

Next ==
  \/ \E j \in Jobs : Read(j)
  \/ \E c \in Commands, n \in Revisions : Send(c, n)
  \/ \E h \in Handlers, m \in sent : Receive(h, m)
  \/ \E h \in Handlers : LockJob(h) \/ Preview(h) \/ Begin(h) \/ Proceed(h)
  \/ Crash
  \/ Open

Spec == Init /\ [][Next]_vars

(***************************************************************************)
(* A goroutine is run as long as it can, and a sync.Mutex goes to each of  *)
(* those who wait for it: one that waited for a millisecond is served      *)
(* before any new one.  A writer that leaves a sync.RWMutex lets all       *)
(* waiting readers in before the next.  Clients, and a stopped server,     *)
(* promise nothing.                                                        *)
(***************************************************************************)
Fairness ==
  \A h \in Handlers :
    /\ WF_vars(Proceed(h))
    /\ SF_vars(LockJob(h)) /\ SF_vars(Preview(h)) /\ SF_vars(Begin(h))

FairSpec == Spec /\ Fairness

-------------------------------------------------------------------------------
(* Invariants                                                               *)

(* The fields hold values of their types, and a lock is held by exactly    *)
(* the handler that is between taking and releasing it.                    *)
TypeOK ==
  /\ known \in [Jobs -> SUBSET Revisions]
  /\ sent \subseteq Request
  /\ \A r \in replies : r.request \in Request
  /\ disk \in Data
  /\ {mem, tmp} \subseteq Data \cup {None}
  /\ \A h \in Handlers :
       /\ pc[h] = "idle" <=> request[h] = None
       /\ pc[h] \in {"apply", "write", "rename", "install"} <=> mutex = h
       /\ next[h] # None <=> mutex = h
       /\ \A j \in Jobs : jobLock[j] = h <=>
            pc[h] \notin {"idle", "lock"} /\ request[h].job = j

(* The data d bear out what clients were told: they hold every revision     *)
(* that was read, and every request that was answered ok, with all that    *)
(* its hash covers, as the revision its answer names.                      *)
BearsOut(d) ==
  /\ \A j \in Jobs : known[j] \subseteq 0..Revision(d, j)
  /\ \A r \in replies : r.reply.kind = "ok" =>
       LET h == d.history[r.request.job]
       IN /\ r.reply.revision \in DOMAIN h
          /\ requestHash(h[r.reply.revision]) = requestHash(r.request)

(* What clients were told is in the file, and stays there whatever crashes *)
(* or later requests come: no revision is shown, and no answer given,      *)
(* before its data are written.                                            *)
ToldIsDurable == BearsOut(disk)

(* Who reads sees no less than was seen or answered before, through        *)
(* whatever handler and before whatever crash: a client reads what it      *)
(* wrote, and never an older revision after a newer one.                   *)
ReadsAreCurrent == mem # None /\ mutex = Free => BearsOut(mem)

(* A request that was told of a conflict, of its revision, its id or the   *)
(* digest it confirms, never takes effect, before or after: its client can *)
(* try again under a new id without doing it twice.                        *)
ConflictIsFinal ==
  \A r \in replies :
    r.reply.kind \in Conflicts =>
      \A j \in Jobs : \A k \in DOMAIN disk.history[j] :
        requestHash(disk.history[j][k]) # requestHash(r.request)

(* The handler that h waits for, Free if h can go on: for the lock of its   *)
(* job, or for that of the store.                                          *)
AwaitedBy(h) ==
  CASE pc[h] = "lock"   -> jobLock[request[h].job]
    [] pc[h] = "update" -> mutex
    [] OTHER            -> Free

(* No waiting in a circle, and none for a lock that was left behind: who   *)
(* waits does so for another handler that has a request, and that one can  *)
(* go on or waits for one that can.                                        *)
WaitsEnd ==
  \A h \in Handlers : AwaitedBy(h) # Free =>
    \E g \in Handlers \ {h} :
      /\ AwaitedBy(h) = g
      /\ pc[g] # "idle"
      /\ AwaitedBy(g) # Free =>
           \E f \in Handlers \ {g, h} :
             AwaitedBy(g) = f /\ pc[f] # "idle" /\ AwaitedBy(f) = Free

(* What the documents say and the code does not do: an answer ok to a      *)
(* request tells of the operation that was requested.                      *)
AnswersTheOperation ==
  \A r \in replies : r.reply.kind = "ok" =>
    disk.history[r.request.job][r.reply.revision].op = r.request.op

-------------------------------------------------------------------------------
(* The promise, and progress                                                *)

TheLedger == INSTANCE Ledger WITH
  Requests <- Request, accepted <- disk.history

(* Every change of the file is one request taking effect, once for its id  *)
(* and on the revision that its client had seen.                           *)
KeepsLedger == TheLedger!Spec

(* A request that a handler has taken up is done with, by an answer or by  *)
(* the end of the server: no order of locks and failures blocks it.        *)
HandlersFinish ==
  \A h \in Handlers : pc[h] # "idle" ~> pc[h] = "idle"
===============================================================================
