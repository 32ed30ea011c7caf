----------------------------- MODULE AuditProofs -----------------------------
(***************************************************************************)
(* Theorems about Audit, for every set of jobs and moves and for logs of   *)
(* every length.                                                           *)
(***************************************************************************)
EXTENDS Audit, FiniteSetTheorems, TLAPS

-------------------------------------------------------------------------------
(* The invariant                                                            *)

(* An event, with texts in the fields that are joined. *)
IsEvent(e) ==
  /\ e = [seq |-> e.seq, job |-> e.job, type |-> e.type, detail |-> e.detail,
          before |-> e.before, after |-> e.after, revision |-> e.revision,
          prev |-> e.prev]
  /\ e.job \in Jobs /\ e.type \in Types /\ e.detail \in Texts
  /\ e.before \in States /\ e.after \in States /\ e.revision \in Nat

Typed ==
  /\ state \in [Jobs -> States]
  /\ revision \in [Jobs -> Nat]
  /\ head = [j \in Jobs |-> head[j]]
  /\ \E S : log \in Seq(S)
  /\ \A i \in DOMAIN log : IsEvent(log[i])

(* The event i is the last one of job j in the first n of s; 0 is none. *)
IsLast(s, j, i, n) ==
  /\ i \in 0..n
  /\ i > 0 => s[i].job = j
  /\ \A k \in (i + 1)..n : s[k].job # j

(* There always is one, so that LastEvent chooses it. *)
LastsExist ==
  \A j \in Jobs : \A n \in 0..Len(log) : \E i \in 0..n : IsLast(log, j, i, n)

(* What event i of job j tells, if p is the event of the job before it. *)
Tells(j, i, p) ==
  /\ log[i].revision = Cardinality({k \in EventsOf(j) : k <= i})
  /\ log[i].before = IF p = 0 THEN "none" ELSE log[p].after
  /\ <<log[i].before, log[i].after>> \in Job(j)!Moves
  /\ (\A k \in EventsOf(j) : k <= i) => log[i].after = state[j]
  /\ log[i].type = "manifest.published" <=> log[i].after = "published"
  /\ log[i].type = "manifest.published" =>
       /\ \A k \in EventsOf(j) : k <= i
       /\ p > 0
       /\ head[j] = eventHash(log[p])

Story ==
  \A j \in Jobs :
    /\ revision[j] = Cardinality(EventsOf(j))
    /\ EventsOf(j) = {} => state[j] = "none"
    /\ \A i \in EventsOf(j) : \A p \in 0..(i - 1) :
         IsLast(log, j, p, i - 1) => Tells(j, i, p)

IInv == Typed /\ LastsExist /\ ChainSound /\ Story

-------------------------------------------------------------------------------
(* Sequences and events                                                     *)

(* A log with one more event. *)
LEMMA AppendFacts ==
  ASSUME NEW S, NEW s \in Seq(S), NEW e
  PROVE  /\ Len(s) \in Nat
         /\ DOMAIN s = 1..Len(s)
         /\ \E T : Append(s, e) \in Seq(T)
         /\ Len(Append(s, e)) = Len(s) + 1
         /\ DOMAIN Append(s, e) = 1..(Len(s) + 1)
         /\ \A i \in 1..Len(s) : Append(s, e)[i] = s[i]
         /\ Append(s, e)[Len(s) + 1] = e
<1> DEFINE T == S \cup {e}
<1>1. s \in Seq(T)
  OBVIOUS
<1>2. Append(s, e) \in Seq(T)
  BY <1>1
<1> QED
  BY <1>1, <1>2

(* A job has one last event in a part of the log. *)
LEMMA LastUnique ==
  ASSUME NEW s, NEW j, NEW n \in Nat, NEW i, NEW k,
         IsLast(s, j, i, n), IsLast(s, j, k, n)
  PROVE  i = k
  BY DEF IsLast

(* LastEvent finds it. *)
LEMMA LastIsLast ==
  ASSUME LastsExist, NEW j \in Jobs, NEW n \in 0..Len(log)
  PROVE  IsLast(log, j, LastEvent(j, n), n)
  BY DEF LastsExist, IsLast, LastEvent

-------------------------------------------------------------------------------
(* Steps                                                                    *)

Event(j, to, type, detail) ==
  [seq |-> Len(log) + 1, job |-> j, type |-> type, detail |-> detail,
   before |-> BeforeState(j), after |-> to, revision |-> revision[j] + 1,
   prev |-> PrevHash(log, Len(log) + 1)]

(* Job j moves to another state, with an event of its own. *)
Moved(j, to, type, detail) ==
  /\ <<state[j], to>> \in Job(j)!Moves
  /\ to \in States
  /\ state[j] # "published"
  /\ type = "manifest.published" <=> to = "published"
  /\ state' = [state EXCEPT ![j] = to]
  /\ revision' = [revision EXCEPT ![j] = @ + 1]
  /\ log' = Append(log, Event(j, to, type, detail))
  /\ head' = IF to = "published" THEN [head EXCEPT ![j] = AuditHead(j)] ELSE head

(* Every step is one. *)
LEMMA StepMoves ==
  ASSUME Typed, Next
  PROVE  \E j \in Jobs, to \in States, type \in Types, detail \in Texts :
           Moved(j, to, type, detail)
<1>1. ASSUME NEW j \in Jobs, NEW to \in States, Command(j, to)
      PROVE  \E detail \in Texts : Moved(j, to, "command", detail)
  <2>1. PICK detail \in Details(to) : AddEvent(j, "command", detail)
    BY <1>1 DEF Command
  <2>2. detail \in Texts
    BY AuditAssumption
  <2>3. Moved(j, to, "command", detail)
    BY <1>1, <2>1 DEF Typed, Command, MoveTo, AddEvent, Event, Moved,
                      Job!Move, Job!Moves, Job!Maintained
  <2> QED
    BY <2>2, <2>3
<1>2. ASSUME NEW j \in Jobs, Release(j)
      PROVE  \E detail \in Texts : Moved(j, "published", "manifest.published", detail)
  <2>1. PICK detail \in Details("published") : AddEvent(j, "manifest.published", detail)
    BY <1>2 DEF Release
  <2>2. detail \in Texts
    BY AuditAssumption DEF States
  <2>3. Moved(j, "published", "manifest.published", detail)
    BY <1>2, <2>1 DEF Typed, States, Release, MoveTo, AddEvent, Event, Moved,
                      Job!Move, Job!Moves, Job!Maintained
  <2> QED
    BY <2>2, <2>3
<1>3. "published" \in States /\ "command" \in Types /\ "manifest.published" \in Types
  BY DEF States, Types
<1> QED
  BY <1>1, <1>2, <1>3 DEF Next

(* The log has one more event, e. *)
Grown(e) ==
  /\ Len(log) \in Nat
  /\ DOMAIN log = 1..Len(log)
  /\ \E T : log' \in Seq(T)
  /\ Len(log') = Len(log) + 1
  /\ DOMAIN log' = 1..(Len(log) + 1)
  /\ \A i \in 1..Len(log) : log'[i] = log[i]
  /\ log'[Len(log) + 1] = e

LEMMA LogGrows ==
  ASSUME Typed, NEW e, log' = Append(log, e)
  PROVE  Grown(e)
<1>1. PICK S : log \in Seq(S)
  BY DEF Typed
<1>2. Append(log, e) = log'
  OBVIOUS
<1>3. /\ Len(log) \in Nat
      /\ DOMAIN log = 1..Len(log)
      /\ \E T : Append(log, e) \in Seq(T)
      /\ Len(Append(log, e)) = Len(log) + 1
      /\ DOMAIN Append(log, e) = 1..(Len(log) + 1)
      /\ \A i \in 1..Len(log) : Append(log, e)[i] = log[i]
      /\ Append(log, e)[Len(log) + 1] = e
  BY <1>1, AppendFacts
<1> QED
  BY <1>2, <1>3 DEF Grown

LEMMA EventsTyped ==
  ASSUME Typed, NEW e, Grown(e), IsEvent(e)
  PROVE  \A i \in DOMAIN log' : IsEvent(log'[i])
<1> SUFFICES ASSUME NEW i \in 1..(Len(log) + 1) PROVE IsEvent(log'[i])
  BY DEF Grown
<1>1. CASE i \in 1..Len(log)
  BY <1>1 DEF Typed, Grown
<1>2. CASE i = Len(log) + 1
  BY <1>2 DEF Grown
<1> QED
  BY <1>1, <1>2 DEF Grown

LEMMA TypedStep ==
  ASSUME Typed, LastsExist, NEW j \in Jobs, NEW to \in States, NEW type \in Types,
         NEW detail \in Texts, Moved(j, to, type, detail)
  PROVE  Typed'
<1> DEFINE e == Event(j, to, type, detail)
<1>1. state' \in [Jobs -> States] /\ revision' \in [Jobs -> Nat]
  BY DEF Typed, Moved
<1>2. head' = [x \in Jobs |-> head'[x]]
  BY DEF Typed, Moved
<1>3. Grown(e)
  BY LogGrows DEF Moved
<1>4. IsEvent(e)
  <2>1. Len(log) \in Nat /\ DOMAIN log = 1..Len(log)
    BY DEF Typed
  <2>2. LastEvent(j, Len(log)) \in 0..Len(log)
    BY <2>1, LastIsLast DEF IsLast
  <2>3. BeforeState(j) \in States
    BY <2>1, <2>2 DEF Typed, BeforeState, IsEvent, States
  <2>4. revision[j] + 1 \in Nat
    BY DEF Typed
  <2> QED
    BY <2>3, <2>4 DEF Event, IsEvent
<1>5. \A i \in DOMAIN log' : IsEvent(log'[i])
  BY <1>3, <1>4, EventsTyped
<1> QED
  BY <1>1, <1>2, <1>3, <1>5 DEF Typed, Grown

LEMMA LastsStep ==
  ASSUME LastsExist, NEW e, Grown(e)
  PROVE  LastsExist'
<1> SUFFICES ASSUME NEW h \in Jobs, NEW n \in 0..(Len(log) + 1)
             PROVE  \E i \in 0..n : IsLast(log', h, i, n)
  BY DEF Grown, LastsExist
<1> USE DEF Grown
<1>1. CASE n \in 0..Len(log)
  <2>1. PICK i \in 0..n : IsLast(log, h, i, n)
    BY <1>1 DEF LastsExist
  <2>2. IsLast(log', h, i, n)
    BY <1>1, <2>1 DEF IsLast
  <2> QED
    BY <2>2
<1>2. CASE n = Len(log) + 1 /\ h = e.job
  <2>1. IsLast(log', h, n, n)
    BY <1>2 DEF IsLast
  <2> QED
    BY <2>1
<1>3. CASE n = Len(log) + 1 /\ h # e.job
  <2>1. PICK i \in 0..Len(log) : IsLast(log, h, i, Len(log))
    BY DEF LastsExist
  <2>2. IsLast(log', h, i, n)
    BY <1>3, <2>1 DEF IsLast
  <2> QED
    BY <2>1, <2>2, <1>3
<1> QED
  BY <1>1, <1>2, <1>3

LEMMA ChainStep ==
  ASSUME ChainSound, NEW e, Grown(e),
         e.seq = Len(log) + 1, e.prev = PrevHash(log, Len(log) + 1)
  PROVE  ChainSound'
<1> USE DEF Grown
<1> SUFFICES ASSUME NEW i \in 1..(Len(log) + 1)
             PROVE  log'[i].seq = i /\ log'[i].prev = PrevHash(log', i)
  BY DEF ChainSound, ChainIsValid
<1>1. PrevHash(log', i) = PrevHash(log, i)
  BY DEF PrevHash
<1>2. CASE i \in 1..Len(log)
  BY <1>1, <1>2 DEF ChainSound, ChainIsValid
<1>3. CASE i = Len(log) + 1
  BY <1>1, <1>3
<1> QED
  BY <1>2, <1>3

(* The events of a job after a step. *)
LEMMA EventsGrow ==
  ASSUME NEW e, Grown(e)
  PROVE  /\ \A h : EventsOf(h)' = IF h = e.job THEN EventsOf(h) \cup {Len(log) + 1}
                                  ELSE EventsOf(h)
         /\ \A h : /\ EventsOf(h) \subseteq 1..Len(log)
                   /\ Len(log) + 1 \notin EventsOf(h)
                   /\ IsFiniteSet(EventsOf(h))
<1> USE DEF Grown
<1>1. ASSUME NEW h
      PROVE  EventsOf(h)' = IF h = e.job THEN EventsOf(h) \cup {Len(log) + 1}
                            ELSE EventsOf(h)
  BY DEF EventsOf
<1>2. ASSUME NEW h
      PROVE  /\ EventsOf(h) \subseteq 1..Len(log)
             /\ Len(log) + 1 \notin EventsOf(h)
  BY DEF EventsOf
<1>3. IsFiniteSet(1..Len(log))
  BY FS_Interval
<1>4. ASSUME NEW h PROVE IsFiniteSet(EventsOf(h))
  BY <1>2, <1>3, FS_Subset
<1> QED
  BY <1>1, <1>2, <1>4

(* What the last event of a job tells of it. *)
LEMMA LastTells ==
  ASSUME Typed, LastsExist, Story,
         NEW j \in Jobs, NEW p, IsLast(log, j, p, Len(log))
  PROVE  /\ p = 0 => EventsOf(j) = {} /\ state[j] = "none"
         /\ p > 0 => /\ p \in EventsOf(j)
                     /\ \A k \in EventsOf(j) : k <= p
                     /\ log[p].after = state[j]
                     /\ log[p].type = "manifest.published"
                          <=> state[j] = "published"
<1>1. Len(log) \in Nat /\ DOMAIN log = 1..Len(log)
  BY DEF Typed
<1>2. ASSUME p = 0 PROVE EventsOf(j) = {} /\ state[j] = "none"
  <2>1. EventsOf(j) = {}
    BY <1>1, <1>2 DEF IsLast, EventsOf
  <2> QED
    BY <2>1 DEF Story
<1>3. ASSUME p > 0
      PROVE  /\ p \in EventsOf(j)
             /\ \A k \in EventsOf(j) : k <= p
             /\ log[p].after = state[j]
             /\ log[p].type = "manifest.published" <=> state[j] = "published"
  <2>1. p \in EventsOf(j) /\ \A k \in EventsOf(j) : k <= p
    BY <1>1, <1>3 DEF IsLast, EventsOf
  <2>2. p - 1 \in 0..Len(log)
    BY <1>1, <1>3 DEF IsLast
  <2>3. PICK q \in 0..(p - 1) : IsLast(log, j, q, p - 1)
    BY <2>2 DEF LastsExist
  <2>4. Tells(j, p, q)
    BY <2>1, <2>3 DEF Story
  <2> QED
    BY <2>1, <2>4 DEF Tells
<1> QED
  BY <1>2, <1>3

(* What the new event tells. *)
LEMMA NewTells ==
  ASSUME IInv, NEW j \in Jobs, NEW to \in States, NEW type, NEW detail,
         Moved(j, to, type, detail), Grown(Event(j, to, type, detail)),
         NEW p, IsLast(log, j, p, Len(log)),
         NEW n, n = Len(log) + 1
  PROVE  Tells(j, n, p)'
<1> DEFINE e == Event(j, to, type, detail)
<1>1. /\ log'[n] = e /\ n \in Nat
      /\ \A i \in 1..Len(log) : log'[i] = log[i]
  BY DEF Grown
<1>2. /\ e.job = j /\ e.type = type /\ e.before = BeforeState(j)
      /\ e.after = to /\ e.revision = revision[j] + 1
  BY DEF Event
<1>3. p \in 0..Len(log) /\ p = LastEvent(j, Len(log))
  <2>1. IsLast(log, j, LastEvent(j, Len(log)), Len(log))
    BY LastIsLast DEF IInv, Grown
  <2> QED
    BY <2>1, LastUnique DEF IsLast, Grown
<1>4. e.before = IF p = 0 THEN "none" ELSE log[p].after
  BY <1>2, <1>3 DEF BeforeState
<1>5. e.before = state[j]
  BY <1>3, <1>4, LastTells DEF IInv
<1>6. /\ EventsOf(j)' = EventsOf(j) \cup {n}
      /\ EventsOf(j) \subseteq 1..Len(log)
      /\ n \notin EventsOf(j)
      /\ IsFiniteSet(EventsOf(j))
  BY <1>2, EventsGrow
<1>7. \A k \in EventsOf(j)' : k <= n
  BY <1>6 DEF Grown
<1>8. log'[n].revision = Cardinality({k \in EventsOf(j)' : k <= n})
  <2>1. {k \in EventsOf(j)' : k <= n} = EventsOf(j)'
    BY <1>7
  <2>2. Cardinality(EventsOf(j) \cup {n}) = Cardinality(EventsOf(j)) + 1
    BY <1>6, FS_AddElement
  <2>3. revision[j] = Cardinality(EventsOf(j))
    BY DEF IInv, Story
  <2> QED
    BY <1>1, <1>2, <1>6, <2>1, <2>2, <2>3
<1>9. log'[n].before = IF p = 0 THEN "none" ELSE log'[p].after
  BY <1>1, <1>3, <1>4 DEF Grown
<1>10. <<log'[n].before, log'[n].after>> \in Job(j)!Moves'
  BY <1>1, <1>2, <1>5 DEF Moved, Job!Moves, Job!Maintained
<1>11. log'[n].after = state'[j]
  BY <1>1, <1>2 DEF Moved, IInv, Typed
<1>12. log'[n].type = "manifest.published" <=> log'[n].after = "published"
  BY <1>1, <1>2 DEF Moved
<1>13. ASSUME log'[n].type = "manifest.published"
       PROVE  p > 0 /\ head'[j] = eventHash(log'[p])
  <2>1. to = "published"
    BY <1>1, <1>2, <1>13 DEF Moved
  <2>2. state[j] # "none"
    BY <2>1 DEF Moved, Job!Moves, Job!Maintained
  <2>3. p # 0
    BY <2>2, LastTells DEF IInv
  <2>4. head'[j] = AuditHead(j)
    BY <2>1 DEF Moved, IInv, Typed
  <2>5. AuditHead(j) = eventHash(log[p])
    BY <1>3, <2>3 DEF AuditHead
  <2> QED
    BY <1>1, <1>3, <2>3, <2>4, <2>5 DEF Grown
<1> HIDE DEF e
<1> QED
  BY <1>7, <1>8, <1>9, <1>10, <1>11, <1>12, <1>13 DEF Tells

(* An event tells the same after a step: a publication is of another job, *)
(* as a published one does not move.                                      *)
LEMMA OldTells ==
  ASSUME IInv, NEW j \in Jobs, NEW to \in States, NEW type, NEW detail,
         Moved(j, to, type, detail), Grown(Event(j, to, type, detail)),
         NEW h \in Jobs, NEW i \in EventsOf(h), NEW p \in 0..(i - 1),
         Tells(h, i, p)
  PROVE  Tells(h, i, p)'
<1> DEFINE n == Len(log) + 1
           e == Event(j, to, type, detail)
<1>1. e.job = j
  BY DEF Event
<1>2. /\ EventsOf(h)' = IF h = j THEN EventsOf(h) \cup {n} ELSE EventsOf(h)
      /\ EventsOf(h) \subseteq 1..Len(log)
  BY <1>1, EventsGrow
<1>3. /\ i \in 1..Len(log) /\ p \in 0..Len(log)
      /\ log'[i] = log[i]
      /\ p > 0 => log'[p] = log[p]
  BY <1>2 DEF Grown
<1>4. {k \in EventsOf(h)' : k <= i} = {k \in EventsOf(h) : k <= i}
  BY <1>2, <1>3 DEF Grown
<1>5. /\ log'[i].revision = Cardinality({k \in EventsOf(h)' : k <= i})
      /\ log'[i].before = IF p = 0 THEN "none" ELSE log'[p].after
      /\ log'[i].type = "manifest.published" <=> log'[i].after = "published"
  <2>1. log'[i].revision = Cardinality({k \in EventsOf(h)' : k <= i})
    <3>1. log[i].revision = Cardinality({k \in EventsOf(h) : k <= i})
      BY DEF Tells
    <3> QED
      BY <1>3, <1>4, <3>1
  <2>2. log'[i].before = IF p = 0 THEN "none" ELSE log'[p].after
    <3>1. log[i].before = IF p = 0 THEN "none" ELSE log[p].after
      BY DEF Tells
    <3> QED
      BY <1>3, <3>1
  <2>3. log'[i].type = "manifest.published" <=> log'[i].after = "published"
    BY <1>3 DEF Tells
  <2> QED
    BY <2>1, <2>2, <2>3
<1>6. <<log'[i].before, log'[i].after>> \in Job(h)!Moves'
  BY <1>3 DEF Tells, Job!Moves, Job!Maintained
<1>7. CASE h = j
  <2>1. ~ \A k \in EventsOf(h)' : k <= i
    BY <1>2, <1>3, <1>7 DEF Grown
  <2>2. log[i].type # "manifest.published"
    BY <1>7 DEF Tells, Moved
  <2> QED
    BY <1>3, <1>5, <1>6, <2>1, <2>2 DEF Tells
<1>8. CASE h # j
  <2>1. EventsOf(h)' = EventsOf(h)
    BY <1>2, <1>8
  <2>2. state'[h] = state[h] /\ head'[h] = head[h]
    BY <1>8 DEF Moved, IInv, Typed
  <2> QED
    BY <1>3, <1>5, <1>6, <2>1, <2>2 DEF Tells
<1> QED
  BY <1>7, <1>8

LEMMA StoryStep ==
  ASSUME IInv, NEW j \in Jobs, NEW to \in States, NEW type, NEW detail,
         Moved(j, to, type, detail), Grown(Event(j, to, type, detail))
  PROVE  Story'
<1> DEFINE n == Len(log) + 1
           e == Event(j, to, type, detail)
<1>1. e.job = j
  BY DEF Event
<1> SUFFICES ASSUME NEW h \in Jobs
             PROVE  /\ revision'[h] = Cardinality(EventsOf(h)')
                    /\ EventsOf(h)' = {} => state'[h] = "none"
                    /\ \A i \in EventsOf(h)' : \A p \in 0..(i - 1) :
                         IsLast(log', h, p, i - 1) => Tells(h, i, p)'
  BY DEF Story
<1>2. /\ EventsOf(h)' = IF h = j THEN EventsOf(h) \cup {n} ELSE EventsOf(h)
      /\ EventsOf(h) \subseteq 1..Len(log)
      /\ n \notin EventsOf(h)
      /\ IsFiniteSet(EventsOf(h))
  BY <1>1, EventsGrow
<1>3. /\ revision[h] = Cardinality(EventsOf(h))
      /\ EventsOf(h) = {} => state[h] = "none"
  BY DEF IInv, Story
<1>4. /\ revision'[h] = Cardinality(EventsOf(h)')
      /\ EventsOf(h)' = {} => state'[h] = "none"
  <2>1. CASE h = j
    <3>1. Cardinality(EventsOf(h) \cup {n}) = Cardinality(EventsOf(h)) + 1
      BY <1>2, FS_AddElement
    <3>2. revision'[h] = revision[h] + 1
      BY <2>1 DEF Moved, IInv, Typed
    <3> QED
      BY <1>2, <1>3, <2>1, <3>1, <3>2
  <2>2. CASE h # j
    BY <1>2, <1>3, <2>2 DEF Moved, IInv, Typed
  <2> QED
    BY <2>1, <2>2
<1>5. ASSUME NEW i \in EventsOf(h)', NEW p \in 0..(i - 1), IsLast(log', h, p, i - 1)
      PROVE  Tells(h, i, p)'
  <2>1. CASE i \in EventsOf(h)
    <3>1. i \in 1..Len(log)
      BY <1>2, <2>1
    <3>2. IsLast(log, h, p, i - 1)
      BY <1>5, <3>1 DEF IsLast, Grown
    <3>3. Tells(h, i, p)
      BY <2>1, <3>2 DEF IInv, Story
    <3> QED
      BY <2>1, <3>3, OldTells
  <2>2. CASE h = j /\ i = n
    <3>1. IsLast(log, j, p, Len(log))
      BY <1>5, <2>2 DEF IsLast, Grown
    <3> QED
      BY <2>2, <3>1, NewTells
  <2> QED
    BY <1>2, <2>1, <2>2
<1> QED
  BY <1>4, <1>5

LEMMA IInvInit == Init => IInv
<1> SUFFICES ASSUME Init PROVE IInv
  OBVIOUS
<1>1. log \in Seq({}) /\ Len(log) = 0 /\ DOMAIN log = {}
  BY DEF Init
<1>2. Typed
  BY <1>1 DEF Init, Typed, States
<1>3. LastsExist
  <2>1. \A j \in Jobs : IsLast(log, j, 0, 0)
    BY DEF IsLast
  <2> QED
    BY <1>1, <2>1 DEF LastsExist
<1>4. ChainSound
  BY <1>1 DEF ChainSound, ChainIsValid
<1>5. \A j \in Jobs : EventsOf(j) = {}
  BY <1>1 DEF EventsOf
<1>6. Story
  BY <1>5, FS_EmptySet DEF Story, Init
<1> QED
  BY <1>2, <1>3, <1>4, <1>6 DEF IInv

LEMMA IInvStep == IInv /\ [Next]_vars => IInv'
<1> SUFFICES ASSUME IInv, [Next]_vars PROVE IInv'
  OBVIOUS
<1>1. CASE Next
  <2>1. PICK j \in Jobs, to \in States, type \in Types, detail \in Texts :
          Moved(j, to, type, detail)
    BY <1>1, StepMoves DEF IInv
  <2>2. Grown(Event(j, to, type, detail))
    BY <2>1, LogGrows DEF IInv, Moved
  <2>3. Typed'
    BY <2>1, TypedStep DEF IInv
  <2>4. LastsExist'
    BY <2>2, LastsStep DEF IInv
  <2>5. ChainSound'
    <3>1. /\ Event(j, to, type, detail).seq = Len(log) + 1
          /\ Event(j, to, type, detail).prev = PrevHash(log, Len(log) + 1)
      BY DEF Event
    <3> QED
      BY <2>2, <3>1, ChainStep DEF IInv
  <2>6. Story'
    BY <2>1, <2>2, StoryStep
  <2> QED
    BY <2>3, <2>4, <2>5, <2>6 DEF IInv
<1>2. CASE UNCHANGED vars
  <2>1. state' = state /\ revision' = revision /\ log' = log /\ head' = head
    BY <1>2 DEF vars, jobVars
  <2>2. Typed' /\ LastsExist' /\ ChainSound'
    BY <2>1 DEF IInv, Typed, LastsExist, IsLast, ChainSound, ChainIsValid, PrevHash
  <2>3. ASSUME NEW j \in Jobs, NEW i, NEW p
        PROVE  Tells(j, i, p)' <=> Tells(j, i, p)
    BY <2>1 DEF Tells, EventsOf, Job!Moves, Job!Maintained
  <2>4. \A j \in Jobs : EventsOf(j)' = EventsOf(j)
    BY <2>1 DEF EventsOf
  <2>5. Story'
    BY <2>1, <2>3, <2>4 DEF IInv, Story
  <2> QED
    BY <2>2, <2>5 DEF IInv
<1> QED
  BY <1>1, <1>2

LEMMA InductiveInvariant == Spec => []IInv
  BY IInvInit, IInvStep, PTL DEF Spec
-------------------------------------------------------------------------------
(* Theorems                                                                 *)

(* ChainSound: however the commands interleave, the chain stays one that   *)
(* validate accepts.                                                       *)
THEOREM ChainHolds == Spec => []ChainSound
<1>1. IInv => ChainSound
  BY DEF IInv
<1> QED
  BY <1>1, InductiveInvariant, PTL

(* A timeline is the story the invariant tells of the last events.         *)
LEMMA TimelineFacts == IInv => TimelineMatchesJob
<1> SUFFICES ASSUME IInv, NEW j \in Jobs, NEW i \in EventsOf(j)
             PROVE  LET p == LastEvent(j, i - 1)
                        later == {k \in EventsOf(j) : k > i}
                    IN /\ log[i].revision = Cardinality({k \in EventsOf(j) : k <= i})
                       /\ log[i].before = IF p = 0 THEN "none" ELSE log[p].after
                       /\ <<log[i].before, log[i].after>> \in Job(j)!Moves
                       /\ later = {} => log[i].after = state[j]
                       /\ log[i].type = "manifest.published" =>
                            later = {} /\ p > 0 /\ head[j] = eventHash(log[p])
  BY DEF TimelineMatchesJob, IInv, Story
<1> DEFINE p == LastEvent(j, i - 1)
           later == {k \in EventsOf(j) : k > i}
<1>1. Len(log) \in Nat /\ DOMAIN log = 1..Len(log) /\ EventsOf(j) \subseteq 1..Len(log)
  BY DEF IInv, Typed, EventsOf
<1>2. IsLast(log, j, p, i - 1)
  <2>1. i - 1 \in 0..Len(log)
    BY <1>1
  <2> QED
    BY <2>1, LastIsLast DEF IInv
<1>3. Tells(j, i, p)
  BY <1>2 DEF IInv, Story, IsLast
<1>4. later = {} <=> \A k \in EventsOf(j) : k <= i
  BY <1>1
<1> HIDE DEF p, later
<1>5. /\ log[i].revision = Cardinality({k \in EventsOf(j) : k <= i})
      /\ log[i].before = IF p = 0 THEN "none" ELSE log[p].after
      /\ <<log[i].before, log[i].after>> \in Job(j)!Moves
      /\ later = {} => log[i].after = state[j]
      /\ log[i].type = "manifest.published" =>
           later = {} /\ p > 0 /\ head[j] = eventHash(log[p])
  BY <1>3, <1>4 DEF Tells
<1> QED
  BY <1>5 DEF p, later

(* TimelineMatchesJob: the events of a job tell its whole life, whatever   *)
(* the other jobs of the store do in between.                              *)
THEOREM TimelineHolds == Spec => []TimelineMatchesJob
  BY TimelineFacts, InductiveInvariant, PTL

(* What follows, or what precedes, can be cut off. *)
LEMMA CutRight ==
  ASSUME NEW x \in Seq(STRING), NEW y \in Seq(STRING), NEW z \in Seq(STRING),
         x \o z = y \o z
  PROVE  x = y
<1>1. Len(x) = Len(y)
  <2>1. Len(x \o z) = Len(x) + Len(z) /\ Len(y \o z) = Len(y) + Len(z)
    OBVIOUS
  <2>2. Len(x \o z) = Len(y \o z)
    OBVIOUS
  <2> QED
    BY <2>1, <2>2
<1>2. ASSUME NEW k \in 1..Len(x) PROVE x[k] = y[k]
  <2>1. (x \o z)[k] = x[k] /\ (y \o z)[k] = y[k]
    BY <1>1
  <2> QED
    BY <2>1
<1> QED
  BY <1>1, <1>2

LEMMA CutLeft ==
  ASSUME NEW x \in Seq(STRING), NEW y \in Seq(STRING), NEW z \in Seq(STRING),
         z \o x = z \o y
  PROVE  x = y
<1>1. Len(x) = Len(y)
  <2>1. Len(z \o x) = Len(z) + Len(x) /\ Len(z \o y) = Len(z) + Len(y)
    OBVIOUS
  <2>2. Len(z \o x) = Len(z \o y)
    OBVIOUS
  <2> QED
    BY <2>1, <2>2
<1>2. ASSUME NEW k \in 1..Len(x) PROVE x[k] = y[k]
  <2>1. (z \o x)[Len(z) + k] = x[k] /\ (z \o y)[Len(z) + k] = y[k]
    BY <1>1
  <2> QED
    BY <2>1
<1> QED
  BY <1>1, <1>2

(* Of five texts that are joined, one alone cannot be another. *)
OnlyOneTells(a, b, c, d, e, x) ==
  /\ a \o b \o c \o d \o e = x \o b \o c \o d \o e => a = x
  /\ a \o b \o c \o d \o e = a \o x \o c \o d \o e => b = x
  /\ a \o b \o c \o d \o e = a \o b \o x \o d \o e => c = x
  /\ a \o b \o c \o d \o e = a \o b \o c \o x \o e => d = x
  /\ a \o b \o c \o d \o e = a \o b \o c \o d \o x => e = x

LEMMA OneTextOfFive ==
  ASSUME NEW a \in Seq(STRING), NEW b \in Seq(STRING), NEW c \in Seq(STRING),
         NEW d \in Seq(STRING), NEW e \in Seq(STRING), NEW x \in Seq(STRING)
  PROVE  OnlyOneTells(a, b, c, d, e, x)
<1>1. /\ a \o b \in Seq(STRING) /\ x \o b \in Seq(STRING) /\ a \o x \in Seq(STRING)
  OBVIOUS
<1>2. /\ a \o b \o c \in Seq(STRING) /\ x \o b \o c \in Seq(STRING)
      /\ a \o x \o c \in Seq(STRING) /\ a \o b \o x \in Seq(STRING)
  BY <1>1
<1>3. /\ a \o b \o c \o d \in Seq(STRING) /\ x \o b \o c \o d \in Seq(STRING)
      /\ a \o x \o c \o d \in Seq(STRING) /\ a \o b \o x \o d \in Seq(STRING)
      /\ a \o b \o c \o x \in Seq(STRING)
  BY <1>2
<1>4. ASSUME a \o b \o c \o d \o e = x \o b \o c \o d \o e PROVE a = x
  <2>1. a \o b \o c \o d = x \o b \o c \o d
    BY <1>3, <1>4, CutRight, Zenon
  <2>2. a \o b \o c = x \o b \o c
    BY <1>2, <2>1, CutRight, Zenon
  <2>3. a \o b = x \o b
    BY <1>1, <2>2, CutRight, Zenon
  <2> QED
    BY <2>3, CutRight, Zenon
<1>5. ASSUME a \o b \o c \o d \o e = a \o x \o c \o d \o e PROVE b = x
  <2>1. a \o b \o c \o d = a \o x \o c \o d
    BY <1>3, <1>5, CutRight, Zenon
  <2>2. a \o b \o c = a \o x \o c
    BY <1>2, <2>1, CutRight, Zenon
  <2>3. a \o b = a \o x
    BY <1>1, <2>2, CutRight, Zenon
  <2> QED
    BY <2>3, CutLeft, Zenon
<1>6. ASSUME a \o b \o c \o d \o e = a \o b \o x \o d \o e PROVE c = x
  <2>1. a \o b \o c \o d = a \o b \o x \o d
    BY <1>3, <1>6, CutRight, Zenon
  <2>2. a \o b \o c = a \o b \o x
    BY <1>2, <2>1, CutRight, Zenon
  <2> QED
    BY <1>1, <2>2, CutLeft, Zenon
<1>7. ASSUME a \o b \o c \o d \o e = a \o b \o c \o x \o e PROVE d = x
  <2>1. a \o b \o c \o d = a \o b \o c \o x
    BY <1>3, <1>7, CutRight, Zenon
  <2> QED
    BY <1>2, <2>1, CutLeft, Zenon
<1>8. ASSUME a \o b \o c \o d \o e = a \o b \o c \o d \o x PROVE e = x
  BY <1>3, <1>8, CutLeft, Zenon
<1> QED
  BY <1>4, <1>5, <1>6, <1>7, <1>8 DEF OnlyOneTells

(* A change of one field changes the hash. *)
LEMMA EditsChangeHash ==
  ASSUME NEW e, IsEvent(e), NEW f \in Edits(e), f # e
  PROVE  eventHash(f) # eventHash(e)
<1> DEFINE W(t) == Words[t]
<1>1. /\ Texts = DOMAIN Words
      /\ \A t \in Texts : W(t) \in Seq(STRING)
      /\ \A t, u \in Texts : W(t) = W(u) => t = u
  BY AuditAssumption DEF Texts
<1>2. /\ e.job \in Texts /\ e.type \in Texts /\ e.detail \in Texts
      /\ e.before \in Texts /\ e.after \in Texts /\ e.revision \in Nat
  BY AuditAssumption DEF IsEvent
<1> HIDE DEF W
<1> DEFINE Text(g) ==
      W(g.job) \o W(g.type) \o W(g.detail) \o W(g.before) \o W(g.after)
<1>3. ASSUME eventHash(f) = eventHash(e)
      PROVE  Text(f) = Text(e) /\ f.revision = e.revision
  BY <1>3 DEF eventHash, W
<1>4. ASSUME NEW t \in Texts,
             \/ f = [e EXCEPT !.job = t] \/ f = [e EXCEPT !.type = t]
             \/ f = [e EXCEPT !.detail = t] \/ f = [e EXCEPT !.before = t]
             \/ f = [e EXCEPT !.after = t]
      PROVE  Text(f) # Text(e)
  <2> DEFINE a == W(e.job)
             b == W(e.type)
             c == W(e.detail)
             d == W(e.before)
             z == W(e.after)
             x == W(t)
  <2>1. /\ a \in Seq(STRING) /\ b \in Seq(STRING) /\ c \in Seq(STRING)
        /\ d \in Seq(STRING) /\ z \in Seq(STRING) /\ x \in Seq(STRING)
    BY <1>1, <1>2
  <2> HIDE DEF a, b, c, d, z, x
  <2>2. OnlyOneTells(a, b, c, d, z, x)
    BY <2>1, OneTextOfFive
  <2>3. CASE f = [e EXCEPT !.job = t]
    <3>1. /\ f.job = t /\ f.type = e.type /\ f.detail = e.detail
          /\ f.before = e.before /\ f.after = e.after /\ t # e.job
      BY <2>3 DEF IsEvent
    <3>2. x # a
      BY <1>1, <1>2, <3>1 DEF x, a
    <3>3. Text(f) = x \o b \o c \o d \o z
      BY <3>1 DEF x, b, c, d, z
    <3> QED
      BY <2>2, <3>2, <3>3 DEF OnlyOneTells, a, b, c, d, z
  <2>4. CASE f = [e EXCEPT !.type = t]
    <3>1. /\ f.job = e.job /\ f.type = t /\ f.detail = e.detail
          /\ f.before = e.before /\ f.after = e.after /\ t # e.type
      BY <2>4 DEF IsEvent
    <3>2. x # b
      BY <1>1, <1>2, <3>1 DEF x, b
    <3>3. Text(f) = a \o x \o c \o d \o z
      BY <3>1 DEF a, x, c, d, z
    <3> QED
      BY <2>2, <3>2, <3>3 DEF OnlyOneTells, a, b, c, d, z
  <2>5. CASE f = [e EXCEPT !.detail = t]
    <3>1. /\ f.job = e.job /\ f.type = e.type /\ f.detail = t
          /\ f.before = e.before /\ f.after = e.after /\ t # e.detail
      BY <2>5 DEF IsEvent
    <3>2. x # c
      BY <1>1, <1>2, <3>1 DEF x, c
    <3>3. Text(f) = a \o b \o x \o d \o z
      BY <3>1 DEF a, b, x, d, z
    <3> QED
      BY <2>2, <3>2, <3>3 DEF OnlyOneTells, a, b, c, d, z
  <2>6. CASE f = [e EXCEPT !.before = t]
    <3>1. /\ f.job = e.job /\ f.type = e.type /\ f.detail = e.detail
          /\ f.before = t /\ f.after = e.after /\ t # e.before
      BY <2>6 DEF IsEvent
    <3>2. x # d
      BY <1>1, <1>2, <3>1 DEF x, d
    <3>3. Text(f) = a \o b \o c \o x \o z
      BY <3>1 DEF a, b, c, x, z
    <3> QED
      BY <2>2, <3>2, <3>3 DEF OnlyOneTells, a, b, c, d, z
  <2>7. CASE f = [e EXCEPT !.after = t]
    <3>1. /\ f.job = e.job /\ f.type = e.type /\ f.detail = e.detail
          /\ f.before = e.before /\ f.after = t /\ t # e.after
      BY <2>7 DEF IsEvent
    <3>2. x # z
      BY <1>1, <1>2, <3>1 DEF x, z
    <3>3. Text(f) = a \o b \o c \o d \o x
      BY <3>1 DEF a, b, c, d, x
    <3> QED
      BY <2>2, <3>2, <3>3 DEF OnlyOneTells, a, b, c, d, z
  <2> QED
    BY <1>4, <2>3, <2>4, <2>5, <2>6, <2>7
<1>5. ASSUME f \in {[e EXCEPT !.revision = @ + 1], [e EXCEPT !.revision = @ - 1]}
      PROVE  f.revision # e.revision
  BY <1>2, <1>5 DEF IsEvent
<1> HIDE DEF Text
<1> QED
  BY <1>3, <1>4, <1>5 DEF Edits

(* EditsAreNoticed: an event with one field changed, or the next one in    *)
(* its place, contradicts the event after it, so that validate refuses the *)
(* file.                                                                   *)
THEOREM EditsNoticed == Spec => []EditsAreNoticed
<1>1. IInv => EditsAreNoticed
  <2> SUFFICES ASSUME IInv, NEW i \in 1..(Len(log) - 1)
               PROVE  /\ \A f \in Edits(log[i]) \ {log[i]} :
                           ~ChainIsValid([log EXCEPT ![i] = f])
                      /\ ~ChainIsValid(SubSeq(log, 1, i - 1) \o
                                       SubSeq(log, i + 1, Len(log)))
    BY DEF EditsAreNoticed
  <2>1. PICK S : log \in Seq(S)
    BY DEF IInv, Typed
  <2>2. Len(log) \in Nat /\ DOMAIN log = 1..Len(log)
    BY <2>1
  <2>3. /\ i + 1 \in 1..Len(log)
        /\ log[i + 1].prev = eventHash(log[i])
        /\ log[i + 1].seq = i + 1
    <3>1. i \in Nat /\ i # 0 /\ i + 1 \in 1..Len(log)
      BY <2>2
    <3>2. /\ log[i + 1].seq = i + 1
          /\ log[i + 1].prev = PrevHash(log, i + 1)
      BY <2>2, <3>1 DEF IInv, ChainSound, ChainIsValid
    <3>3. PrevHash(log, i + 1) = eventHash(log[i])
      BY <3>1 DEF PrevHash
    <3> QED
      BY <3>1, <3>2, <3>3
  <2>4. ASSUME NEW f \in Edits(log[i]), f # log[i],
               ChainIsValid([log EXCEPT ![i] = f])
        PROVE  FALSE
    <3> DEFINE t == [log EXCEPT ![i] = f]
    <3>1. /\ DOMAIN t = 1..Len(log)
          /\ t[i] = f
          /\ t[i + 1] = log[i + 1]
      BY <2>1, <2>2, <2>3
    <3> HIDE DEF t
    <3>2. t[i + 1].prev = eventHash(t[i])
      BY <2>3, <2>4, <3>1 DEF ChainIsValid, PrevHash, t
    <3>3. IsEvent(log[i])
      BY <2>2 DEF IInv, Typed
    <3>4. eventHash(f) # eventHash(log[i])
      BY <2>4, <3>3, EditsChangeHash
    <3> QED
      BY <2>3, <3>1, <3>2, <3>4
  <2>5. ASSUME ChainIsValid(SubSeq(log, 1, i - 1) \o SubSeq(log, i + 1, Len(log)))
        PROVE  FALSE
    <3> DEFINE a == SubSeq(log, 1, i - 1)
               b == SubSeq(log, i + 1, Len(log))
               t == a \o b
    <3>1. /\ a \in Seq(S) /\ Len(a) = i - 1
          /\ b \in Seq(S) /\ Len(b) = Len(log) - i
          /\ b[1] = log[i + 1]
      BY <2>1, <2>2, <2>3
    <3> HIDE DEF a, b
    <3>2. i \in DOMAIN t /\ t[i] = b[1]
      BY <2>2, <3>1
    <3>3. t[i].seq = i
      <4>1. ChainIsValid(t)
        BY <2>5 DEF a, b
      <4> HIDE DEF t
      <4> QED
        BY <3>2, <4>1 DEF ChainIsValid
    <3> HIDE DEF t
    <3> QED
      BY <2>2, <2>3, <3>1, <3>2, <3>3
  <2> QED
    BY <2>4, <2>5
<1> QED
  BY <1>1, InductiveInvariant, PTL

(* The publication of a job, which is its last event.                      *)
LEMMA PublicationFacts ==
  ASSUME IInv, NEW j \in Jobs, state[j] = "published"
  PROVE  /\ Publications({j}) = {Publication(j)}
         /\ Publication(j) \in 2..Len(log)
         /\ \E p \in 1..(Publication(j) - 1) :
              IsLast(log, j, p, Publication(j) - 1) /\ head[j] = eventHash(log[p])
<1>1. Len(log) \in Nat /\ DOMAIN log = 1..Len(log)
  BY DEF IInv, Typed
<1>2. PICK q \in 0..Len(log) : IsLast(log, j, q, Len(log))
  BY <1>1 DEF IInv, LastsExist
<1>3. /\ q > 0 /\ q \in EventsOf(j)
      /\ \A k \in EventsOf(j) : k <= q
      /\ log[q].type = "manifest.published"
  BY <1>2, LastTells DEF IInv
<1>4. Publications({j}) \subseteq {q}
  <2> SUFFICES ASSUME NEW k \in EventsOf(j), log[k].type = "manifest.published"
               PROVE  k = q
    BY DEF Publications, EventsOf
  <2>1. k \in 1..Len(log)
    BY <1>1 DEF EventsOf
  <2>2. k - 1 \in 0..Len(log)
    BY <1>1, <2>1
  <2>3. PICK p \in 0..(k - 1) : IsLast(log, j, p, k - 1)
    BY <2>2 DEF IInv, LastsExist
  <2>4. Tells(j, k, p)
    BY <2>3 DEF IInv, Story
  <2> QED
    BY <1>2, <1>3, <2>1, <2>4 DEF Tells
<1>5. Publications({j}) = {q}
  BY <1>3, <1>4 DEF Publications, EventsOf
<1>6. Publication(j) = q
  <2>1. q <= q
    BY <1>1
  <2>2. /\ q \in Publications({j})
        /\ \A k \in Publications({j}) : k = q
    BY <1>5, Zenon
  <2> QED
    BY <2>1, <2>2 DEF Publication
<1>7. q - 1 \in 0..Len(log)
  BY <1>1, <1>2, <1>3
<1>8. PICK p \in 0..(q - 1) : IsLast(log, j, p, q - 1)
  BY <1>7 DEF IInv, LastsExist
<1>9. p > 0 /\ head[j] = eventHash(log[p])
  BY <1>3, <1>8 DEF IInv, Story, Tells
<1>10. q \in 2..Len(log) /\ p \in 1..(q - 1)
  BY <1>1, <1>2, <1>8, <1>9
<1> QED
  BY <1>5, <1>6, <1>8, <1>9, <1>10

PublishedOnce ==
  \A j \in Jobs : state[j] = "published" => Publications({j}) = {Publication(j)}

LEMMA OnePublication == IInv => PublishedOnce
  BY PublicationFacts DEF PublishedOnce

(* The jobs of all events exist.                                            *)
LEMMA JobsExist ==
  ASSUME IInv, NEW k \in DOMAIN log
  PROVE  state[log[k].job] # "none"
<1> DEFINE j == log[k].job
<1>1. Len(log) \in Nat /\ DOMAIN log = 1..Len(log) /\ j \in Jobs
  BY DEF IInv, Typed, IsEvent
<1>2. PICK q \in 0..Len(log) : IsLast(log, j, q, Len(log))
  BY <1>1 DEF IInv, LastsExist
<1>3. q > 0
  BY <1>1, <1>2 DEF IsLast
<1>4. q \in EventsOf(j) /\ (\A i \in EventsOf(j) : i <= q) /\ log[q].after = state[j]
  BY <1>1, <1>2, <1>3, LastTells DEF IInv
<1>5. PICK p \in 0..(q - 1) : IsLast(log, j, p, q - 1)
  <2>1. q - 1 \in 0..Len(log)
    BY <1>1, <1>2, <1>3
  <2> QED
    BY <1>1, <2>1 DEF IInv, LastsExist
<1>6. Tells(j, q, p)
  BY <1>1, <1>4, <1>5 DEF IInv, Story
<1>7. log[q].after # "none"
  BY <1>6 DEF Tells, Job!Moves, Job!Maintained
<1> QED
  BY <1>4, <1>7

(* When the verification of a published job succeeds.                      *)
LEMMA VerifiesFacts == IInv => VerifiesUnlessInterleaved
<1> SUFFICES ASSUME IInv, NEW j \in Jobs, state[j] = "published"
             PROVE  Verifies(j) <=> log[Publication(j) - 1].job = j
  BY DEF VerifiesUnlessInterleaved
<1> DEFINE q == Publication(j)
<1>1. PICK S : log \in Seq(S)
  BY DEF IInv, Typed
<1>2. Len(log) \in Nat /\ DOMAIN log = 1..Len(log)
  BY <1>1
<1>3. q \in 2..Len(log)
  BY PublicationFacts
<1>4. PICK p \in 1..(q - 1) : IsLast(log, j, p, q - 1) /\ head[j] = eventHash(log[p])
  BY PublicationFacts
<1> HIDE DEF q
<1>5. /\ log[q].prev = eventHash(log[q - 1])
      /\ PrevHash(log, q) = eventHash(log[q - 1])
      /\ log[q - 1].seq = q - 1
      /\ log[p].seq = p
  BY <1>2, <1>3, <1>4 DEF IInv, ChainSound, ChainIsValid, PrevHash
<1>6. ChainIsValid(SubSeq(log, 1, q - 1))
  <2> DEFINE t == SubSeq(log, 1, q - 1)
  <2>1. DOMAIN t = 1..(q - 1) /\ \A i \in 1..(q - 1) : t[i] = log[i]
    BY <1>1, <1>2, <1>3
  <2> HIDE DEF t
  <2>2. ASSUME NEW i \in 1..(q - 1)
        PROVE  t[i].seq = i /\ t[i].prev = PrevHash(t, i)
    <3>1. log[i].seq = i /\ log[i].prev = PrevHash(log, i)
      BY <1>2, <1>3 DEF IInv, ChainSound, ChainIsValid
    <3>2. PrevHash(t, i) = PrevHash(log, i)
      BY <1>3, <2>1 DEF PrevHash
    <3> QED
      BY <2>1, <3>1, <3>2
  <2>3. ChainIsValid(t)
    BY <2>1, <2>2 DEF ChainIsValid
  <2> QED
    BY <2>3 DEF t
<1>7. \A k \in 1..(q - 1) : state[log[k].job] # "none"
  BY <1>2, <1>3, JobsExist
<1>8. Verifies(j) <=> eventHash(log[q - 1]) = eventHash(log[p])
  BY <1>4, <1>5, <1>6, <1>7 DEF Verifies, q
(* A hash tells the number of its event. *)
<1>9. eventHash(log[q - 1]) = eventHash(log[p]) <=> p = q - 1
  BY <1>5 DEF eventHash
<1>10. p = q - 1 <=> log[q - 1].job = j
  BY <1>3, <1>4 DEF IsLast
<1> QED
  BY <1>8, <1>9, <1>10 DEF q

(* VerifiesUnlessInterleaved: a manifest verifies exactly when its         *)
(* publication follows the last command of the job in the store's chain.   *)
THEOREM VerifiesExactlyUnless == Spec => []VerifiesUnlessInterleaved
  BY VerifiesFacts, InductiveInvariant, PTL

(* VerificationStable: later commands of other jobs change nothing of what *)
(* the verification of a published job says.                               *)
THEOREM VerificationHolds == Spec => VerificationStable
<1> DEFINE Stable == \A j \in Jobs : state[j] = "published" => Verifies(j)' = Verifies(j)
<1>1. IInv /\ IInv' /\ [Next]_vars => [Stable]_vars
  <2> SUFFICES ASSUME IInv, IInv', Next, NEW j \in Jobs, state[j] = "published"
               PROVE  Verifies(j)' = Verifies(j)
    BY DEF Stable
  <2> DEFINE q == Publication(j)
  <2>1. PICK h \in Jobs, to \in States, type \in Types, detail \in Texts :
          Moved(h, to, type, detail)
    BY StepMoves DEF IInv
  <2>2. Grown(Event(h, to, type, detail))
    BY <2>1, LogGrows DEF IInv, Moved
  <2>3. h # j /\ state'[j] = "published"
    BY <2>1 DEF Moved, IInv, Typed
  <2>4. Event(h, to, type, detail).job = h
    BY DEF Event
  <2>5. q \in 2..Len(log) /\ Publications({j}) = {q}
    BY PublicationFacts
  <2>6. Publications({j})' = {Publication(j)'}
    <3>1. PublishedOnce'
      BY OnePublication, PTL
    <3> QED
      BY <2>3, <3>1 DEF PublishedOnce
  <2>7. Publications({j})' = Publications({j})
    BY <2>2, <2>3, <2>4 DEF Publications, Grown
  <2>8. Publication(j)' = q
    BY <2>5, <2>6, <2>7
  <2>9. log'[q - 1] = log[q - 1]
    BY <2>2, <2>5 DEF Grown
  <2>10. Verifies(j) <=> log[q - 1].job = j
    BY VerifiesFacts DEF VerifiesUnlessInterleaved
  <2>11. Verifies(j)' <=> log'[q - 1].job = j
    <3>1. VerifiesUnlessInterleaved'
      BY VerifiesFacts, PTL
    <3> QED
      BY <2>3, <2>8, <3>1 DEF VerifiesUnlessInterleaved
  <2>12. Verifies(j) \in BOOLEAN /\ Verifies(j)' \in BOOLEAN
    BY DEF Verifies
  <2> QED
    BY <2>9, <2>10, <2>11, <2>12
<1>2. Spec => [][Stable]_vars
  BY <1>1, InductiveInvariant, PTL DEF Spec
<1> QED
  BY <1>2 DEF VerificationStable
===============================================================================
