--------------------------------- MODULE Audit ---------------------------------
(***************************************************************************)
(* The audit log of internal/store: one hash chain that all jobs of the    *)
(* store share.                                                            *)
(*                                                                         *)
(* A job is reduced to its lifecycle (module Lifecycle, which Registration *)
(* implements): every accepted command makes one move of one job and calls *)
(* AddEvent once, inside one store.Update.  Of an event, its time is left  *)
(* out.  SHA-256 is taken to be free of collisions: the hash of a text is  *)
(* the text, with all the hashes it contains.  The text that is hashed for *)
(* an event is not the event: it joins the fields with bars, and some of   *)
(* the fields may hold bars themselves.                                    *)
(***************************************************************************)
EXTENDS Integers, Sequences, FiniteSets

CONSTANTS
  Jobs,      \* job ids
  Steps,     \* the moves of Lifecycle that the jobs of an instance make
  Words,     \* Words[t]: the parts of a text t between its bars
  Details(_), \* Details(s): the details of a command that leads to state s
  MaxEvents, \* bound of the model: no event is added to a log of this length
  NoHash     \* the empty hash ""

VARIABLES
  state,    \* state[j] is Jobs[j].State, or "none" before j is created
  revision, \* revision[j] is Jobs[j].Revision
  log,      \* Events
  head      \* head[j] is Manifests[j].AuditHead, NoHash without a manifest

jobVars == <<state, revision>>
vars == <<jobVars, log, head>>

Job(j) == INSTANCE Lifecycle WITH state <- state[j], revision <- revision[j]

States == {"none", "draft", "frozen", "solvable", "needs_fix",
           "pending_review", "pending_release", "published"}

Types == {"command", "manifest.published"}

(* A text is known by its parts. *)
Texts == DOMAIN Words

ASSUME AuditAssumption ==
  /\ Steps \subseteq States \X States
  /\ MaxEvents \in Nat
  /\ Jobs \cup States \cup Types \subseteq Texts
  /\ \A s \in States : Details(s) \subseteq Texts
  /\ Words \in [Texts -> Seq(STRING)]
  /\ \A t, u \in Texts : Words[t] = Words[u] => t = u

-------------------------------------------------------------------------------
(* The chain                                                                *)

(* Mistake: the hash does not cover the state before. *)
HashWithoutBefore(e) ==
  <<e.seq,
    Words[e.job] \o Words[e.type] \o Words[e.detail] \o Words[e.after],
    e.revision, e.prev>>

(***************************************************************************)
(* The fields of e, joined by bars: job, type and detail are not escaped,  *)
(* and of what stands between the first and the last bars only the parts   *)
(* are known, not which field each belongs to.  The number before them,    *)
(* the revision and the hash after them hold no bars.                      *)
(***************************************************************************)
eventHash(e) ==
  <<e.seq,
    Words[e.job] \o Words[e.type] \o Words[e.detail] \o Words[e.before]
      \o Words[e.after],
    e.revision, e.prev>>

(* The publications of a set of jobs in the log. *)
Publications(S) ==
  {i \in DOMAIN log : log[i].type = "manifest.published" /\ log[i].job \in S}

(* Mistake: the last publication is found, whose ever it is. *)
LatestPublication(j) ==
  CHOOSE i \in Publications(Jobs) : \A k \in Publications(Jobs) : k <= i

(* The index of the first publication of job j, which has one. *)
Publication(j) ==
  CHOOSE i \in Publications({j}) : \A k \in Publications({j}) : i <= k

(* The index of the last event of job j in the first n, 0 without one. *)
LastEvent(j, n) ==
  CHOOSE i \in 0..n :
    /\ i > 0 => log[i].job = j
    /\ \A k \in (i + 1)..n : log[k].job # j

(* The hash of the last event of job j. *)
AuditHead(j) ==
  LET i == LastEvent(j, Len(log))
  IN IF i = 0 THEN NoHash ELSE eventHash(log[i])

(* Mistake: the last event is taken to be of the job. *)
StateOfLastEvent(j) == IF log = <<>> THEN "none" ELSE log[Len(log)].after

(* The empty state "" of a first event is written "none". *)
BeforeState(j) ==
  LET i == LastEvent(j, Len(log))
  IN IF i = 0 THEN "none" ELSE log[i].after

(* PrevHash of the event i of the log s. *)
PrevHash(s, i) == IF i = 1 THEN NoHash ELSE eventHash(s[i - 1])

(* Mistake: the chain is continued per job. *)
AddEventToOwn(j, type, detail) ==
  /\ Len(log) < MaxEvents
  /\ log' = Append(log,
       [seq |-> Len(log) + 1, job |-> j, type |-> type, detail |-> detail,
        before |-> BeforeState(j), after |-> state'[j],
        revision |-> revision'[j], prev |-> AuditHead(j)])

(* The event that tells of the job as the command leaves it. *)
AddEvent(j, type, detail) ==
  /\ Len(log) < MaxEvents
  /\ log' = Append(log,
       [seq |-> Len(log) + 1, job |-> j, type |-> type, detail |-> detail,
        before |-> BeforeState(j), after |-> state'[j],
        revision |-> revision'[j], prev |-> PrevHash(log, Len(log) + 1)])

(* validate accepts the chain s when the store is opened or written. *)
ChainIsValid(s) ==
  \A i \in DOMAIN s : s[i].seq = i /\ s[i].prev = PrevHash(s, i)

-------------------------------------------------------------------------------
(* Commands                                                                 *)

Init ==
  /\ state = [j \in Jobs |-> "none"]
  /\ revision = [j \in Jobs |-> 0]
  /\ log = <<>>
  /\ head = [j \in Jobs |-> NoHash]

MoveTo(j, to) ==
  /\ <<state[j], to>> \in Steps
  /\ state' = [state EXCEPT ![j] = to]
  /\ revision' = [revision EXCEPT ![j] = @ + 1]
  /\ Job(j)!Move(to)

Command(j, to) ==
  /\ to # "published"
  /\ MoveTo(j, to)
  /\ \E detail \in Details(to) : AddEvent(j, "command", detail)
  /\ UNCHANGED head

(* Mistake: the manifest is made after its own event is added. *)
ReleaseWithOwnEvent(j) ==
  /\ MoveTo(j, "published")
  /\ \E detail \in Details("published") :
       AddEvent(j, "manifest.published", detail)
  /\ head' = [head EXCEPT ![j] = eventHash(log'[Len(log')])]

(* The manifest is made before its own event is added. *)
Release(j) ==
  /\ MoveTo(j, "published")
  /\ head' = [head EXCEPT ![j] = AuditHead(j)]
  /\ \E detail \in Details("published") :
       AddEvent(j, "manifest.published", detail)

Next ==
  \E j \in Jobs :
    \/ \E to \in States : Command(j, to)
    \/ Release(j)

Spec == Init /\ [][Next]_vars

-------------------------------------------------------------------------------
(* Verification                                                             *)

(***************************************************************************)
(* VerifyAuditEvidence passes for job j, which has a publication: that     *)
(* event continues the recorded head, the chain before it is intact, and   *)
(* all events in it are of jobs that exist.                                *)
(***************************************************************************)
Verifies(j) ==
  LET i == Publication(j)
  IN /\ log[i].prev = head[j]
     /\ ChainIsValid(SubSeq(log, 1, i - 1))
     /\ \A k \in 1..(i - 1) : state[log[k].job] # "none"
     /\ PrevHash(log, i) = head[j]

-------------------------------------------------------------------------------
(* Properties                                                               *)

(* The indices of the events of job j. *)
EventsOf(j) == {i \in DOMAIN log : log[i].job = j}

(* However the commands of several jobs interleave, validate accepts the   *)
(* chain that AddEvent builds: no command is refused for it, and a restart *)
(* never fails on it.                                                      *)
ChainSound == ChainIsValid(log)

(* The events of a job, picked out of the shared log, tell its whole life: *)
(* one event for each revision, in order, each from the state in which the *)
(* event before it left the job, up to the state and revision it is in;    *)
(* and only the last one can be a publication, of a manifest that records  *)
(* the event before it.                                                    *)
TimelineMatchesJob ==
  \A j \in Jobs :
    /\ revision[j] = Cardinality(EventsOf(j))
    /\ EventsOf(j) = {} => state[j] = "none"
    /\ \A i \in EventsOf(j) :
         LET p == LastEvent(j, i - 1)
             later == {k \in EventsOf(j) : k > i}
         IN /\ log[i].revision = Cardinality({k \in EventsOf(j) : k <= i})
            /\ log[i].before = IF p = 0 THEN "none" ELSE log[p].after
            /\ <<log[i].before, log[i].after>> \in Job(j)!Moves
            /\ later = {} => log[i].after = state[j]
            /\ log[i].type = "manifest.published" =>
                 later = {} /\ p > 0 /\ head[j] = eventHash(log[p])

(* A published manifest verifies exactly when no other job came between    *)
(* the last command before its publication and the publication: the        *)
(* recorded head is the last event of the job, but its publication event   *)
(* continues the last event of the store.                                  *)
VerifiesUnlessInterleaved ==
  \A j \in Jobs : state[j] = "published" =>
    (Verifies(j) <=> log[Publication(j) - 1].job = j)

(* The events that e becomes by a change of one field. *)
Edits(e) ==
  {[e EXCEPT !.job = t] : t \in Texts}
    \cup {[e EXCEPT !.type = t] : t \in Texts}
    \cup {[e EXCEPT !.detail = t] : t \in Texts}
    \cup {[e EXCEPT !.before = t] : t \in Texts}
    \cup {[e EXCEPT !.after = t] : t \in Texts}
    \cup {[e EXCEPT !.revision = @ + 1], [e EXCEPT !.revision = @ - 1]}

(* A change of one field of one event of the file, but for the last event, *)
(* is noticed when the file is opened, and so is an event that is missing, *)
(* even if the hash of the event was computed anew: although bars in a     *)
(* field cannot be told from those between the fields, one field alone     *)
(* does not change without changing the joined text.  Nothing is said of   *)
(* changes of several fields at once that move text across a bar.          *)
EditsAreNoticed ==
  \A i \in 1..(Len(log) - 1) :
    LET e == log[i]
    IN /\ \A f \in Edits(e) \ {e} : ~ChainIsValid([log EXCEPT ![i] = f])
       /\ ~ChainIsValid(SubSeq(log, 1, i - 1) \o SubSeq(log, i + 1, Len(log)))

(* What the verification of a published job says never changes, whatever   *)
(* happens to the other jobs.                                              *)
VerificationStable ==
  [][\A j \in Jobs : state[j] = "published" => Verifies(j)' = Verifies(j)]_vars

(* What the documents say and the code does not do: the manifest of every  *)
(* published job verifies.                                                 *)
PublishedVerifies ==
  \A j \in Jobs : state[j] = "published" => Verifies(j)
===============================================================================
