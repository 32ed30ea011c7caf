---------------------------- MODULE ProtocolProofs ----------------------------
(***************************************************************************)
(* Theorems about Protocol, for every set of jobs, commands and handlers.  *)
(***************************************************************************)
EXTENDS Protocol, FiniteSetTheorems, FunctionTheorems, TLAPS

-------------------------------------------------------------------------------
(* Data that requests may have led to                                       *)

(* The history and the request ids of d tell the same: each request that   *)
(* was applied is remembered with its response, and nothing else is.       *)
Agree(d) ==
  /\ \A j \in Jobs : \A k \in DOMAIN d.history[j] :
       LET m == d.history[j][k]
       IN m.job = j /\ m.expected = k - 1 /\ d.requests[m.id] = Response(m, k)
  /\ \A x \in Ids : d.requests[x] # None =>
       \E j \in Jobs : \E k \in DOMAIN d.history[j] : d.history[j][k].id = x

Sound(d) == d \in Data /\ Agree(d)

(* The request m is acceptable on d, and e is d with m applied to it. *)
Accepts(d, e, m) ==
  /\ m \in Request
  /\ d.requests[m.id] = None
  /\ Revision(d, m.job) = m.expected
  /\ Confirms(requestHash(m), d.history[m.job])
  /\ e = Effect(d, m, m.expected + 1)

(* What d tells of a request m that was answered ok with revision n. *)
Done(d, m, n) == d.requests[m.id] # None /\ d.requests[m.id] = Response(m, n)

(* The digest in m is not that of the data, whose revision is the one that *)
(* m expects: m is stale when either has changed.                          *)
Unconfirmed(d, m) ==
  /\ Revision(d, m.job) = m.expected
  /\ ~Confirms(requestHash(m), d.history[m.job])

(* And of one that was answered with a conflict. *)
Final(d, m) ==
  /\ \A j \in Jobs : \A k \in DOMAIN d.history[j] :
       requestHash(d.history[j][k]) # requestHash(m)
  /\ \/ d.requests[m.id] # None
     \/ Revision(d, m.job) > m.expected
     \/ Unconfirmed(d, m)

LEMMA RevisionsAreNat ==
  IsFiniteSet(Ids) /\ Cardinality(Ids) \in Nat /\ Revisions \subseteq Nat
<1> DEFINE f == [c \in Commands |-> c.id]
<1>1. f \in Surjection(Commands, Ids)
  BY DEF Ids, Surjection
<1>2. IsFiniteSet(Ids)
  BY <1>1, FS_Surjection, ProtocolAssumption
<1> QED
  BY <1>2, FS_CardinalityType DEF Revisions

LEMMA RequestFacts ==
  ASSUME NEW m \in Request
  PROVE  m.id \in Ids /\ m.job \in Jobs /\ m.expected \in Nat
  BY ProtocolAssumption, RevisionsAreNat DEF Request, Ids

(* The parts of data. *)
LEMMA DataFacts ==
  ASSUME NEW d \in Data
  PROVE  /\ d = [history |-> d.history, requests |-> d.requests]
         /\ d.history \in [Jobs -> Seq(Request)]
         /\ DOMAIN d.requests = Ids
         /\ \A j \in Jobs : /\ d.history[j] \in Seq(Request)
                            /\ Revision(d, j) \in Nat
                            /\ Revision(d, j) \in Revisions
                            /\ DOMAIN d.history[j] = 1..Revision(d, j)
                            /\ \A k \in 1..Revision(d, j) : d.history[j][k] \in Request
         /\ d # None
  BY RevisionsAreNat, ProtocolAssumption DEF Data, Revision

LEMMA EmptySound == Sound(Empty) /\ \A j \in Jobs : Empty.history[j] = <<>>
<1>1. Empty \in Data
  BY RevisionsAreNat DEF Empty, Data, Revision, Revisions
<1>2. Agree(Empty)
  BY DEF Agree, Empty
<1>3. \A j \in Jobs : Empty.history[j] = <<>>
  BY DEF Empty
<1> QED
  BY <1>1, <1>2, <1>3 DEF Sound

(* A request id names one request of the history. *)
LEMMA AppliedOnce ==
  ASSUME NEW d, Sound(d),
         NEW i \in Jobs, NEW k \in DOMAIN d.history[i],
         NEW j \in Jobs, NEW l \in DOMAIN d.history[j],
         d.history[i][k].id = d.history[j][l].id
  PROVE  i = j /\ k = l
<1> DEFINE m == d.history[i][k]
           q == d.history[j][l]
<1>1. m.job = i /\ d.requests[m.id] = Response(m, k)
  BY DEF Sound, Agree
<1>2. q.job = j /\ d.requests[q.id] = Response(q, l)
  BY DEF Sound, Agree
<1> HIDE DEF m, q
<1>3. Response(m, k) = Response(q, l)
  BY <1>1, <1>2 DEF m, q
<1>4. k = l /\ requestHash(m) = requestHash(q)
  BY <1>3 DEF Response
<1> QED
  BY <1>1, <1>2, <1>4 DEF requestHash

(* So a job has no more revisions than there are request ids. *)
LEMMA RevisionBound ==
  ASSUME NEW d, Agree(d), NEW j \in Jobs, NEW s \in Seq(Request),
         d.history[j] = s
  PROVE  Len(s) \in Revisions
<1> DEFINE f == [k \in 1..Len(s) |-> s[k].id]
<1>1. Len(s) \in Nat /\ DOMAIN s = 1..Len(s)
  OBVIOUS
<1>2. \A k \in 1..Len(s) : s[k].id \in Ids
  BY RequestFacts
<1>3. ASSUME NEW k \in 1..Len(s), NEW l \in 1..Len(s), s[k].id = s[l].id
      PROVE  k = l
  <2>1. d.requests[s[k].id] = Response(s[k], k)
    BY <1>1 DEF Agree
  <2>2. d.requests[s[l].id] = Response(s[l], l)
    BY <1>1 DEF Agree
  <2> QED
    BY <1>3, <2>1, <2>2 DEF Response
<1>4. f \in Injection(1..Len(s), Ids)
  BY <1>2, <1>3 DEF Injection, IsInjective
<1>5. Cardinality(1..Len(s)) <= Cardinality(Ids)
  BY <1>4, RevisionsAreNat, FS_Injection
<1>6. Cardinality(1..Len(s)) = Len(s)
  BY <1>1, FS_Interval
<1> QED
  BY <1>1, <1>5, <1>6, RevisionsAreNat DEF Revisions

(* The parts of data to which a request was applied. *)
Applied(d, e, m) ==
  /\ m.id \in Ids /\ m.job \in Jobs /\ m.expected \in Nat
  /\ e.history[m.job] \in Seq(Request)
  /\ Revision(e, m.job) = m.expected + 1
  /\ DOMAIN e.history[m.job] = 1..(m.expected + 1)
  /\ e.history[m.job][m.expected + 1] = m
  /\ \A k \in 1..m.expected : e.history[m.job][k] = d.history[m.job][k]
  /\ \A j \in Jobs \ {m.job} : e.history[j] = d.history[j]
  /\ e.requests[m.id] = Response(m, m.expected + 1)
  /\ \A x \in Ids \ {m.id} : e.requests[x] = d.requests[x]
  /\ e.history = [d.history EXCEPT ![m.job] = Append(d.history[m.job], m)]
  /\ DOMAIN e.requests = Ids

LEMMA AcceptFacts ==
  ASSUME NEW d, d \in Data, NEW e, NEW m, Accepts(d, e, m)
  PROVE  Applied(d, e, m)
<1> DEFINE s == d.history[m.job]
           n == m.expected + 1
<1>1. m \in Request /\ m.id \in Ids /\ m.job \in Jobs /\ m.expected \in Nat
  BY RequestFacts DEF Accepts
<1>2. s \in Seq(Request) /\ Len(s) = m.expected
  BY <1>1, DataFacts DEF Accepts, Revision
<1>3. d.history \in [Jobs -> Seq(Request)] /\ DOMAIN d.requests = Ids
  BY DataFacts
<1>4. /\ e.history = [d.history EXCEPT ![m.job] = Append(s, m)]
      /\ e.requests = [d.requests EXCEPT ![m.id] = Response(m, n)]
  BY DEF Accepts, Effect
<1> HIDE DEF s, n
<1>5. /\ e.history[m.job] = Append(s, m)
      /\ \A j \in Jobs \ {m.job} : e.history[j] = d.history[j]
      /\ e.requests[m.id] = Response(m, n)
      /\ \A x \in Ids \ {m.id} : e.requests[x] = d.requests[x]
      /\ DOMAIN e.requests = Ids
  BY <1>1, <1>3, <1>4
<1>6. /\ Append(s, m) \in Seq(Request)
      /\ Len(Append(s, m)) = m.expected + 1
      /\ DOMAIN Append(s, m) = 1..(m.expected + 1)
      /\ Append(s, m)[m.expected + 1] = m
      /\ \A k \in 1..m.expected : Append(s, m)[k] = s[k]
  BY <1>1, <1>2
<1> QED
  BY <1>1, <1>4, <1>5, <1>6 DEF Applied, Revision, s, n

LEMMA AcceptSound ==
  ASSUME NEW d, Sound(d), NEW e, NEW m, Accepts(d, e, m)
  PROVE  Sound(e) /\ Done(e, m, m.expected + 1)
<1>1. d \in Data /\ Agree(d) /\ m \in Request
  BY DEF Sound, Accepts
<1>2. /\ m.id \in Ids /\ m.job \in Jobs /\ m.expected \in Nat
      /\ e.history[m.job] \in Seq(Request)
      /\ Revision(e, m.job) = m.expected + 1
      /\ DOMAIN e.history[m.job] = 1..(m.expected + 1)
      /\ e.history[m.job][m.expected + 1] = m
      /\ \A k \in 1..m.expected : e.history[m.job][k] = d.history[m.job][k]
      /\ \A j \in Jobs \ {m.job} : e.history[j] = d.history[j]
      /\ e.requests[m.id] = Response(m, m.expected + 1)
      /\ \A x \in Ids \ {m.id} : e.requests[x] = d.requests[x]
      /\ e.history = [d.history EXCEPT ![m.job] = Append(d.history[m.job], m)]
      /\ DOMAIN e.requests = Ids
  BY <1>1, AcceptFacts DEF Applied
<1>3. /\ DOMAIN d.history[m.job] = 1..m.expected
      /\ \A j \in Jobs : \A k \in DOMAIN d.history[j] : d.history[j][k].id \in Ids
  BY <1>1, DataFacts, RequestFacts DEF Accepts
<1>4. \A j \in Jobs : \A k \in DOMAIN d.history[j] :
        /\ d.history[j][k].id # m.id
        /\ k \in DOMAIN e.history[j]
        /\ e.history[j][k] = d.history[j][k]
  <2> SUFFICES ASSUME NEW j \in Jobs, NEW k \in DOMAIN d.history[j]
               PROVE  /\ d.history[j][k].id # m.id
                      /\ k \in DOMAIN e.history[j]
                      /\ e.history[j][k] = d.history[j][k]
    OBVIOUS
  <2>1. k \in DOMAIN e.history[j] /\ e.history[j][k] = d.history[j][k]
    <3>1. CASE j = m.job
      BY <1>2, <1>3, <3>1
    <3>2. CASE j # m.job
      BY <1>2, <3>2
    <3> QED
      BY <3>1, <3>2
  <2>2. d.history[j][k].id # m.id
    <3>1. d.requests[d.history[j][k].id] = Response(d.history[j][k], k)
      BY <1>1 DEF Agree
    <3>2. d.history[j][k] \in Request /\ k \in Revisions
      BY <1>1, DataFacts, RevisionsAreNat DEF Revisions
    <3>3. Response(d.history[j][k], k) # None
      BY <3>2, ProtocolAssumption
    <3> QED
      BY <3>1, <3>3 DEF Accepts
  <2> QED
    BY <2>1, <2>2
<1>5. \A j \in Jobs : \A k \in DOMAIN e.history[j] :
        \/ k \in DOMAIN d.history[j]
        \/ j = m.job /\ k = m.expected + 1
  BY <1>2, <1>3
<1>6. Agree(e)
  <2>1. ASSUME NEW j \in Jobs, NEW k \in DOMAIN e.history[j]
        PROVE  /\ e.history[j][k].job = j
               /\ e.history[j][k].expected = k - 1
               /\ e.requests[e.history[j][k].id] = Response(e.history[j][k], k)
    <3>1. CASE k \in DOMAIN d.history[j]
      <4> DEFINE q == d.history[j][k]
      <4>1. q.job = j /\ q.expected = k - 1 /\ d.requests[q.id] = Response(q, k)
        BY <1>1, <3>1 DEF Agree
      <4>2. q.id \in Ids \ {m.id} /\ e.history[j][k] = q
        BY <1>3, <1>4, <3>1
      <4> HIDE DEF q
      <4>3. e.requests[q.id] = d.requests[q.id]
        BY <1>2, <4>2
      <4> QED
        BY <4>1, <4>2, <4>3
    <3>2. CASE j = m.job /\ k = m.expected + 1
      <4>1. e.history[j][k] = m /\ m.expected = k - 1
        BY <1>2, <3>2
      <4>2. e.requests[m.id] = Response(m, k)
        BY <1>2, <3>2
      <4> QED
        BY <3>2, <4>1, <4>2
    <3> QED
      BY <1>5, <3>1, <3>2
  <2>2. ASSUME NEW x \in Ids, e.requests[x] # None
        PROVE  \E j \in Jobs : \E k \in DOMAIN e.history[j] : e.history[j][k].id = x
    <3>1. CASE x = m.id
      <4>1. /\ m.expected + 1 \in DOMAIN e.history[m.job]
            /\ e.history[m.job][m.expected + 1].id = x
        BY <1>2, <3>1
      <4> QED
        BY <1>2, <4>1
    <3>2. CASE x # m.id
      <4>1. PICK j \in Jobs : \E k \in DOMAIN d.history[j] : d.history[j][k].id = x
        BY <1>1, <1>2, <2>2, <3>2 DEF Agree
      <4> QED
        BY <1>4, <4>1
    <3> QED
      BY <3>1, <3>2
  <2> QED
    BY <2>1, <2>2 DEF Agree
<1>7. m.expected + 1 \in Revisions
  <2>1. Len(e.history[m.job]) \in Revisions
    BY <1>2, <1>6, RevisionBound
  <2> QED
    BY <1>2, <2>1 DEF Revision
<1>8. Response(m, m.expected + 1) # None
  BY <1>1, <1>7, ProtocolAssumption
<1>9. e \in Data
  <2>1. d.history \in [Jobs -> Seq(Request)]
    BY <1>1, DataFacts
  <2>2. e.history \in [Jobs -> Seq(Request)]
    BY <1>1, <1>2, <2>1
  <2> DEFINE R == [hash : {requestHash(q) : q \in Request}, revision : Revisions]
  <2>3. d.requests \in [Ids -> R \cup {None}]
    BY <1>1 DEF Data
  <2>4. Response(m, m.expected + 1) \in R
    BY <1>1, <1>7 DEF Response
  <2>5. e.requests \in [Ids -> R \cup {None}]
    <3> HIDE DEF R
    <3>1. e.requests = [d.requests EXCEPT ![m.id] = Response(m, m.expected + 1)]
      BY DEF Accepts, Effect
    <3> QED
      BY <2>3, <2>4, <3>1
  <2>6. \A j \in Jobs : Revision(e, j) \in Revisions
    <3>1. \A j \in Jobs : Revision(d, j) \in Revisions
      BY <1>1, DataFacts
    <3> QED
      BY <1>2, <1>7, <3>1 DEF Revision
  <2>7. e \in [history : [Jobs -> Seq(Request)], requests : [Ids -> R \cup {None}]]
    <3> HIDE DEF R
    <3>1. e = [history |-> e.history, requests |-> e.requests]
      BY DEF Accepts, Effect
    <3> QED
      BY <2>2, <2>5, <3>1
  <2> QED
    BY <2>6, <2>7 DEF Data
<1> QED
  BY <1>2, <1>6, <1>8, <1>9 DEF Sound, Done

(* Nothing that was told of d is false of e. *)
LEMMA AcceptKeeps ==
  ASSUME NEW d, Sound(d), NEW e, NEW m, Accepts(d, e, m)
  PROVE  /\ \A j \in Jobs : Revision(d, j) <= Revision(e, j)
         /\ \A q \in Request : \A n : Done(d, q, n) => Done(e, q, n)
         /\ \A q \in Request : Final(d, q) => Final(e, q)
<1>1. d \in Data /\ Agree(d) /\ m \in Request
  BY DEF Sound, Accepts
<1>2. /\ m.id \in Ids /\ m.job \in Jobs /\ m.expected \in Nat
      /\ Revision(e, m.job) = m.expected + 1
      /\ DOMAIN e.history[m.job] = 1..(m.expected + 1)
      /\ e.history[m.job][m.expected + 1] = m
      /\ \A k \in 1..m.expected : e.history[m.job][k] = d.history[m.job][k]
      /\ \A j \in Jobs \ {m.job} : e.history[j] = d.history[j]
      /\ \A x \in Ids \ {m.id} : e.requests[x] = d.requests[x]
      /\ e.requests[m.id] = Response(m, m.expected + 1)
  <2>1. Applied(d, e, m)
    BY <1>1, AcceptFacts
  <2> QED
    BY <2>1 DEF Applied
<1>3. Revision(d, m.job) = m.expected /\ d.requests[m.id] = None
  BY DEF Accepts
<1>4. DOMAIN d.history[m.job] = 1..m.expected
  BY <1>1, <1>2, <1>3, DataFacts
<1>5. \A j \in Jobs : \A k \in DOMAIN e.history[j] :
        \/ e.history[j][k] = m
        \/ k \in DOMAIN d.history[j] /\ e.history[j][k] = d.history[j][k]
  <2> SUFFICES ASSUME NEW j \in Jobs, NEW k \in DOMAIN e.history[j]
               PROVE  \/ e.history[j][k] = m
                      \/ k \in DOMAIN d.history[j] /\ e.history[j][k] = d.history[j][k]
    OBVIOUS
  <2>1. CASE j = m.job
    <3>1. k \in 1..(m.expected + 1)
      BY <1>2, <2>1
    <3>2. CASE k \in 1..m.expected
      BY <1>2, <1>4, <2>1, <3>2
    <3>3. CASE k = m.expected + 1
      BY <1>2, <2>1, <3>3
    <3> QED
      BY <1>2, <3>1, <3>2, <3>3
  <2>2. CASE j # m.job
    BY <1>2, <2>2
  <2> QED
    BY <2>1, <2>2
<1>6. ASSUME NEW j \in Jobs PROVE Revision(d, j) <= Revision(e, j)
  <2>1. Revision(d, j) \in Nat
    BY <1>1, DataFacts
  <2>2. CASE j = m.job
    BY <1>2, <1>3, <2>2
  <2>3. CASE j # m.job
    <3>1. e.history[j] = d.history[j]
      BY <1>2, <2>3
    <3> QED
      BY <2>1, <3>1 DEF Revision
  <2> QED
    BY <2>2, <2>3
<1>7. ASSUME NEW q \in Request, NEW n, Done(d, q, n) PROVE Done(e, q, n)
  <2>1. q.id \in Ids \ {m.id}
    BY <1>3, <1>7, RequestFacts DEF Done
  <2> QED
    BY <1>2, <1>7, <2>1 DEF Done
<1>8. ASSUME NEW q \in Request, Final(d, q) PROVE Final(e, q)
  <2>1. q.id \in Ids /\ q.job \in Jobs /\ q.expected \in Nat
    BY RequestFacts
  <2>2. CASE d.requests[q.id] # None
    <3>1. q.id \in Ids \ {m.id}
      BY <1>3, <2>1, <2>2
    <3>2. e.requests[q.id] # None /\ requestHash(m) # requestHash(q)
      BY <1>2, <2>2, <3>1 DEF requestHash
    <3>3. \A j \in Jobs : \A k \in DOMAIN e.history[j] :
            requestHash(e.history[j][k]) # requestHash(q)
      BY <1>8, <1>5, <3>2 DEF Final
    <3> QED
      BY <3>2, <3>3 DEF Final
  <2>3. CASE Revision(d, q.job) > q.expected
    <3>1. requestHash(m) # requestHash(q)
      BY <1>2, <1>3, <2>1, <2>3 DEF requestHash
    <3>2. \A j \in Jobs : \A k \in DOMAIN e.history[j] :
            requestHash(e.history[j][k]) # requestHash(q)
      BY <1>8, <1>5, <3>1 DEF Final
    <3>3. Revision(e, q.job) > q.expected
      <4>1. Revision(d, q.job) \in Nat /\ Revision(d, q.job) <= Revision(e, q.job)
        BY <1>1, <1>6, <2>1, DataFacts
      <4>2. Revision(e, q.job) \in Nat
        BY <1>2, <2>1, <4>1 DEF Revision
      <4> QED
        BY <2>1, <2>3, <4>1, <4>2
    <3> QED
      BY <3>2, <3>3 DEF Final
  <2>4. CASE Unconfirmed(d, q)
    <3>1. requestHash(m) # requestHash(q)
      <4>1. ASSUME requestHash(m) = requestHash(q) PROVE m.job = q.job
        BY <4>1 DEF requestHash
      <4> QED
        BY <2>4, <4>1 DEF Accepts, Unconfirmed
    <3>2. \A j \in Jobs : \A k \in DOMAIN e.history[j] :
            requestHash(e.history[j][k]) # requestHash(q)
      BY <1>8, <1>5, <3>1 DEF Final
    <3>3. CASE q.job = m.job
      <4>1. Revision(e, q.job) > q.expected
        BY <1>2, <1>3, <2>1, <2>4, <3>3 DEF Unconfirmed
      <4> QED
        BY <3>2, <4>1 DEF Final
    <3>4. CASE q.job # m.job
      <4>1. e.history[q.job] = d.history[q.job]
        BY <1>2, <2>1, <3>4
      <4>2. Unconfirmed(e, q)
        BY <2>4, <4>1 DEF Unconfirmed, Revision
      <4> QED
        BY <3>2, <4>2 DEF Final
    <3> QED
      BY <3>3, <3>4
  <2> QED
    BY <1>8, <2>2, <2>3, <2>4 DEF Final
<1> QED
  BY <1>6, <1>7, <1>8

(* What is remembered is the response of the request, if the hash is its. *)
LEMMA RememberedDone ==
  ASSUME NEW d, Sound(d), NEW m \in Request, d.requests[m.id] # None,
         d.requests[m.id].hash = requestHash(m)
  PROVE  Done(d, m, d.requests[m.id].revision)
<1>1. m.id \in Ids
  BY RequestFacts
<1>2. PICK j \in Jobs : \E k \in DOMAIN d.history[j] : d.history[j][k].id = m.id
  BY <1>1 DEF Sound, Agree
<1> PICK k \in DOMAIN d.history[j] : d.history[j][k].id = m.id
  BY <1>2
<1>3. d.requests[m.id] = Response(d.history[j][k], k)
  BY <1>2 DEF Sound, Agree
<1> QED
  BY <1>3 DEF Done, Response

(* A request of which nothing or something else is remembered was not      *)
(* applied.                                                                *)
LEMMA NotApplied ==
  ASSUME NEW d, Sound(d), NEW m \in Request,
         d.requests[m.id] = None \/ d.requests[m.id].hash # requestHash(m)
  PROVE  \A j \in Jobs : \A k \in DOMAIN d.history[j] :
           requestHash(d.history[j][k]) # requestHash(m)
<1> SUFFICES ASSUME NEW j \in Jobs, NEW k \in DOMAIN d.history[j],
                    requestHash(d.history[j][k]) = requestHash(m)
             PROVE  FALSE
  OBVIOUS
<1> DEFINE q == d.history[j][k]
<1>1. d.requests[q.id] = Response(q, k)
  BY DEF Sound, Agree
<1>2. q \in Request /\ k \in Revisions
  BY DataFacts, RevisionsAreNat DEF Revisions, Sound
<1> HIDE DEF q
<1>3. q.id = m.id /\ requestHash(q) = requestHash(m)
  BY DEF requestHash, q
<1>4. Response(q, k) # None
  BY <1>2, ProtocolAssumption
<1>5. Response(q, k).hash = requestHash(m)
  BY <1>3 DEF Response
<1> QED
  BY <1>1, <1>3, <1>4, <1>5

-------------------------------------------------------------------------------
(* The invariant                                                            *)

Working == {"apply", "write", "rename", "install"}

Typed ==
  /\ pc \in [Handlers -> Working \cup {"idle", "lock", "update", "answer"}]
  /\ request \in [Handlers -> Request \cup {None}]
  /\ next \in [Handlers -> Data \cup {None}]
  /\ reply = [h \in Handlers |-> reply[h]]
  /\ known = [j \in Jobs |-> known[j]]
  /\ jobLock \in [Jobs -> Handlers \cup {Free}]
  /\ mutex \in Handlers \cup {Free}
  /\ mem \in Data \cup {None}
  /\ tmp \in Data \cup {None}

(* Who holds which lock, and for what. *)
Held ==
  \A h \in Handlers :
    /\ pc[h] = "idle" <=> request[h] = None
    /\ pc[h] \in Working <=> mutex = h
    /\ next[h] # None <=> mutex = h
    /\ \A j \in Jobs : jobLock[j] = h <=>
         pc[h] \notin {"idle", "lock"} /\ request[h].job = j

(* What clients know, and so what they ask for, is in the file. *)
Heard ==
  /\ \A j \in Jobs : known[j] \subseteq 0..Revision(disk, j)
  /\ \A m \in sent : m \in Request /\ m.expected <= Revision(disk, m.job)
  /\ \A h \in Handlers : request[h] # None => request[h] \in sent

(* The data in memory is that of the file, but while it is exchanged. *)
Memory ==
  /\ mem = None => \A h \in Handlers : pc[h] = "idle"
  /\ mem # None /\ (\A h \in Handlers : pc[h] # "install") => mem = disk

(* The file bears out the answer a to the request m. *)
Answered(m, a) ==
  /\ a.kind = "ok" => Done(disk, m, a.revision)
  /\ a.kind \in Conflicts => Final(disk, m)

(* How far the handler h has come with its request. *)
Prepared(h) ==
  /\ pc[h] = "apply" => next[h] = disk
  /\ pc[h] \in {"write", "rename"} =>
       next[h] = disk \/ Accepts(disk, next[h], request[h])
  /\ pc[h] = "rename" => tmp = next[h]
  /\ pc[h] = "install" => next[h] = disk
  /\ pc[h] \in {"write", "rename", "install"} =>
       reply[h].kind = "ok" /\ Done(next[h], request[h], reply[h].revision)
  /\ pc[h] = "answer" => Answered(request[h], reply[h])

Told == \A r \in replies : r.request \in Request /\ Answered(r.request, r.reply)

IInv ==
  /\ Typed
  /\ Held
  /\ Sound(disk)
  /\ Heard
  /\ Memory
  /\ \A h \in Handlers : Prepared(h)
  /\ Told

-------------------------------------------------------------------------------
(* What the steps do to the data                                            *)

(* A handler at work is the only one. *)
LEMMA OneWorks ==
  ASSUME Held, NEW g \in Handlers, pc[g] \in Working,
         NEW h \in Handlers, pc[h] \in Working
  PROVE  g = h
  BY DEF Held

(* A busy handler has a request that a client has sent. *)
LEMMA BusyFacts ==
  ASSUME IInv, NEW h \in Handlers, pc[h] # "idle"
  PROVE  /\ mem \in Data /\ mem # None
         /\ request[h] \in Request
         /\ request[h].id \in Ids /\ request[h].job \in Jobs
         /\ request[h].expected \in Nat
         /\ request[h].expected <= Revision(disk, request[h].job)
<1>1. request[h] # None /\ request[h] \in Request
  BY DEF IInv, Typed, Held
<1>2. request[h].expected <= Revision(disk, request[h].job)
  BY <1>1 DEF IInv, Heard
<1>3. mem # None
  BY DEF IInv, Memory
<1> QED
  BY <1>1, <1>2, <1>3, RequestFacts DEF IInv, Typed

LEMMA ApplyAccepts ==
  ASSUME IInv, NEW h \in Handlers, Apply(h)
  PROVE  /\ Accepts(disk, next'[h], request[h])
         /\ Sound(next'[h])
         /\ next' = [next EXCEPT ![h] = next'[h]]
         /\ Done(next'[h], request[h], request[h].expected + 1)
<1> DEFINE m == request[h]
           e == Effect(next[h], m, m.expected + 1)
<1>1. pc[h] = "apply" /\ pc[h] # "idle"
  BY DEF Apply, At
<1>2. next[h] = disk
  BY <1>1 DEF IInv, Prepared
<1>3. m \in Request
  BY <1>1, BusyFacts
<1>4. /\ next' = [next EXCEPT ![h] = e]
      /\ disk.requests[m.id] = None
      /\ Revision(disk, m.job) = m.expected
      /\ Confirms(requestHash(m), disk.history[m.job])
  BY <1>2 DEF Apply, Remembered, Confirmed
<1> HIDE DEF m
<1>5. Accepts(disk, e, m)
  BY <1>2, <1>3, <1>4 DEF Accepts
<1> HIDE DEF e
<1>6. next'[h] = e
  BY <1>4 DEF IInv, Typed
<1>7. Sound(e) /\ Done(e, m, m.expected + 1)
  BY <1>5, AcceptSound DEF IInv
<1> QED
  BY <1>4, <1>5, <1>6, <1>7 DEF m

(* The file changes by a request that takes effect, if it changes. *)
LEMMA DiskStep ==
  ASSUME IInv, Next
  PROVE  disk' = disk \/ \E m \in Request : Accepts(disk, disk', m)
<1>1. ASSUME NEW h \in Handlers, Rename(h)
      PROVE  disk' = disk \/ \E m \in Request : Accepts(disk, disk', m)
  <2>1. pc[h] = "rename" /\ disk' = tmp
    BY <1>1 DEF Rename, At
  <2>2. request[h] \in Request
    BY <2>1, BusyFacts
  <2>3. disk' = disk \/ Accepts(disk, disk', request[h])
    BY <2>1 DEF IInv, Prepared
  <2> QED
    BY <2>2, <2>3
<1>2. ASSUME ~ \E h \in Handlers : Rename(h)
      PROVE  disk' = disk
  BY <1>2 DEF Next, Proceed, storeVars, Read, Send, Receive, LockJob, Preview,
     Begin, Replay, Mismatch, Stale, Outdated, Refuse, Apply, Write, WriteFails,
     RenameFails, Install, Answer, Crash, Open
<1> QED
  BY <1>1, <1>2

(* Nothing that was told of the file is false after a step. *)
LEMMA DiskGrows ==
  ASSUME IInv, Next
  PROVE  /\ Sound(disk')
         /\ \A j \in Jobs : /\ Revision(disk, j) \in Nat
                            /\ Revision(disk', j) \in Nat
                            /\ Revision(disk, j) <= Revision(disk', j)
         /\ \A q \in Request : \A a : Answered(q, a) => Answered(q, a)'
<1>1. Sound(disk)
  BY DEF IInv
<1>2. CASE disk' = disk
  <2>1. \A j \in Jobs : Revision(disk, j) \in Nat
    BY <1>1, DataFacts DEF Sound
  <2> QED
    BY <1>1, <1>2, <2>1 DEF Answered
<1>3. CASE \E m \in Request : Accepts(disk, disk', m)
  <2>1. PICK m \in Request : Accepts(disk, disk', m)
    BY <1>3
  <2>2. Sound(disk')
    BY <1>1, <2>1, AcceptSound
  <2>3. /\ \A j \in Jobs : Revision(disk, j) <= Revision(disk', j)
        /\ \A q \in Request : \A n : Done(disk, q, n) => Done(disk', q, n)
        /\ \A q \in Request : Final(disk, q) => Final(disk', q)
    BY <1>1, <2>1, AcceptKeeps
  <2>4. \A j \in Jobs : Revision(disk, j) \in Nat /\ Revision(disk', j) \in Nat
    BY <1>1, <2>2, DataFacts DEF Sound
  <2> QED
    BY <2>2, <2>3, <2>4 DEF Answered
<1> QED
  BY <1>2, <1>3, DiskStep

-------------------------------------------------------------------------------
(* What the steps do to the invariant                                       *)

(* The steps in which Update ends. *)
Ends(h) ==
  \/ Mismatch(h) \/ Stale(h) \/ Outdated(h) \/ Refuse(h)
  \/ WriteFails(h) \/ RenameFails(h)
  \/ Install(h)

LEMMA EndsEnd ==
  ASSUME NEW h \in Handlers, Ends(h)
  PROVE  \E here \in Working : \E r : End(h, here, r)
  BY DEF Ends, Working, Mismatch, Stale, Outdated, Refuse, WriteFails,
     RenameFails, Install

LEMMA TypedStep == IInv /\ Next => Typed'
<1> SUFFICES ASSUME IInv, Next PROVE Typed'
  OBVIOUS
<1> USE DEF IInv, Typed
<1>1. ASSUME NEW j \in Jobs, Read(j) PROVE Typed'
  BY <1>1 DEF Read, storeVars, lockVars, handlerVars
<1>2. ASSUME NEW c \in Commands, NEW n \in Revisions, Send(c, n) PROVE Typed'
  BY <1>2 DEF Send, storeVars, lockVars, handlerVars
<1>3. ASSUME NEW h \in Handlers, NEW m \in sent, Receive(h, m) PROVE Typed'
  <2>1. m \in Request
    BY DEF Heard
  <2> QED
    BY <1>3, <2>1 DEF Receive, At, clientVars, storeVars, lockVars
<1>4. ASSUME NEW h \in Handlers, LockJob(h) PROVE Typed'
  BY <1>4 DEF LockJob, At, clientVars, storeVars
<1>5. ASSUME NEW h \in Handlers, Preview(h) \/ Begin(h) PROVE Typed'
  BY <1>5 DEF Preview, Begin, At, Working, clientVars, storeVars, lockVars
<1>6. ASSUME NEW h \in Handlers, Replay(h) PROVE Typed'
  BY <1>6 DEF Replay, At, Working, clientVars, storeVars, lockVars
<1>7. ASSUME NEW h \in Handlers, Apply(h) PROVE Typed'
  <2>1. next'[h] \in Data /\ next' = [next EXCEPT ![h] = next'[h]]
    BY <1>7, ApplyAccepts DEF Sound
  <2>2. next' \in [Handlers -> Data \cup {None}]
    BY <2>1
  <2> QED
    BY <1>7, <2>2 DEF Apply, At, Working, clientVars, storeVars, lockVars
<1>8. ASSUME NEW h \in Handlers, Ends(h) PROVE Typed'
  <2>0. PICK here \in Working : \E r : End(h, here, r)
    BY <1>8, EndsEnd
  <2>1. PICK r : End(h, here, r)
    BY <2>0
  <2>2. mem' \in Data \cup {None} /\ tmp' \in Data \cup {None}
    BY <1>8 DEF Ends, Mismatch, Stale, Outdated, Refuse, WriteFails,
       RenameFails, Install, storeVars
  <2> QED
    BY <2>1, <2>2 DEF End, At, clientVars
<1>9. ASSUME NEW h \in Handlers, Write(h) \/ Rename(h) PROVE Typed'
  BY <1>9 DEF Write, Rename, At, Working, clientVars, lockVars
<1>10. ASSUME NEW h \in Handlers, Answer(h) PROVE Typed'
  BY <1>10 DEF Answer, At, clientVars, storeVars
<1>11. ASSUME Crash PROVE Typed'
  BY <1>11 DEF Crash, clientVars
<1>12. ASSUME Open PROVE Typed'
  BY <1>12 DEF Open, Sound, clientVars, lockVars, handlerVars
<1> QED
  BY <1>1, <1>2, <1>3, <1>4, <1>5, <1>6, <1>7, <1>8, <1>9, <1>10, <1>11, <1>12
  DEF Next, Proceed, Ends

LEMMA HeldStep == IInv /\ Next => Held'
<1> SUFFICES ASSUME IInv, Next PROVE Held'
  OBVIOUS
<1>a. Typed /\ Held /\ Free \notin Handlers /\ None \notin Request
  BY ProtocolAssumption DEF IInv
<1>1. ASSUME UNCHANGED <<lockVars, handlerVars>> PROVE Held'
  BY <1>a, <1>1 DEF Held, lockVars, handlerVars
<1>2. ASSUME NEW h \in Handlers, NEW m \in sent, Receive(h, m) PROVE Held'
  <2>1. m # None
    BY <1>a DEF IInv, Heard
  <2> QED
    BY <1>a, <1>2, <2>1 DEF Receive, At, Held, Typed, Working, lockVars
<1>3. ASSUME NEW h \in Handlers, LockJob(h) PROVE Held'
  <2>1. pc[h] = "lock"
    BY <1>3 DEF LockJob, At
  <2>2. request[h].job \in Jobs
    BY <2>1, BusyFacts
  <2> QED
    BY <1>a, <1>3, <2>1, <2>2 DEF LockJob, At, Held, Typed, Working
<1>0. ASSUME NEW h \in Handlers, Preview(h) PROVE Held'
  BY <1>a, <1>0 DEF Preview, At, Held, Typed, Working, lockVars
<1>4. ASSUME NEW h \in Handlers, Begin(h) PROVE Held'
  <2>1. mem # None
    BY <1>4, BusyFacts DEF Begin, At
  <2> QED
    BY <1>a, <1>4, <2>1 DEF Begin, At, Held, Typed, Working
<1>5. ASSUME NEW h \in Handlers, Replay(h) \/ Write(h) \/ Rename(h) PROVE Held'
  BY <1>a, <1>5 DEF Replay, Write, Rename, At, Held, Typed, Working, lockVars
<1>6. ASSUME NEW h \in Handlers, Apply(h) PROVE Held'
  <2>1. next'[h] # None /\ next' = [next EXCEPT ![h] = next'[h]]
    BY <1>6, ApplyAccepts, DataFacts DEF Sound
  <2>2. next[h] # None
    BY <1>a, <1>6 DEF Apply, At, Held, Working
  <2>3. \A g \in Handlers : next'[g] # None <=> next[g] # None
    BY <1>a, <2>1, <2>2 DEF Typed
  <2> QED
    BY <1>a, <1>6, <2>3 DEF Apply, At, Held, Typed, Working, lockVars
<1>7. ASSUME NEW h \in Handlers, Ends(h) PROVE Held'
  <2>0. PICK here \in Working : \E r : End(h, here, r)
    BY <1>7, EndsEnd
  <2>1. PICK r : End(h, here, r)
    BY <2>0
  <2> QED
    BY <1>a, <2>1 DEF End, At, Held, Typed, Working
<1>8. ASSUME NEW h \in Handlers, Answer(h) PROVE Held'
  BY <1>a, <1>8 DEF Answer, At, Held, Typed, Working
<1>9. ASSUME Crash PROVE Held'
  BY <1>a, <1>9 DEF Crash, Held, Working
<1> QED
  BY <1>0, <1>1, <1>2, <1>3, <1>4, <1>5, <1>6, <1>7, <1>8, <1>9
  DEF Next, Proceed, Ends, Read, Send, Open

LEMMA HeardStep == IInv /\ Next => Heard'
<1> SUFFICES ASSUME IInv, Next PROVE Heard'
  OBVIOUS
<1>a. Typed /\ Heard
  BY DEF IInv
<1>b. \A j \in Jobs : /\ Revision(disk, j) \in Nat
                      /\ Revision(disk', j) \in Nat
                      /\ Revision(disk, j) <= Revision(disk', j)
  BY DiskGrows
<1>c. \A m \in Request : m.job \in Jobs /\ m.expected \in Nat
  BY RequestFacts
<1>1. \A j \in Jobs : known'[j] \subseteq 0..Revision(disk', j)
  <2>1. ASSUME NEW j \in Jobs, Read(j)
        PROVE  \A x \in Jobs : known'[x] \subseteq 0..Revision(disk', x)
    <3>1. mutex = Free /\ mem # None /\ disk' = disk
      BY <2>1 DEF Read, storeVars
    <3>2. \A h \in Handlers : pc[h] # "install"
      BY <3>1, ProtocolAssumption DEF IInv, Held, Working
    <3>3. mem = disk
      BY <3>1, <3>2 DEF IInv, Memory
    <3>4. known' = [known EXCEPT ![j] = @ \cup {Revision(disk, j)}]
      BY <2>1, <3>3 DEF Read
    <3> QED
      BY <1>a, <1>b, <3>1, <3>4 DEF Typed, Heard
  <2>2. ASSUME known' = known
        PROVE  \A x \in Jobs : known'[x] \subseteq 0..Revision(disk', x)
    BY <1>a, <1>b, <2>2 DEF Heard
  <2>3. (\E j \in Jobs : Read(j)) \/ known' = known
    BY DEF Next, Proceed, clientVars, Send, Receive, LockJob, Preview, Begin,
       Replay, Mismatch, Stale, Outdated, Refuse, End, Apply, Write, WriteFails,
       Rename, RenameFails, Install, Answer, Crash, Open
  <2> QED
    BY <2>1, <2>2, <2>3
<1>2. \A m \in sent' : m \in Request /\ m.expected <= Revision(disk', m.job)
  <2>1. ASSUME NEW c \in Commands, NEW n \in Revisions, Send(c, n), NEW m \in sent'
        PROVE  m \in Request /\ m.expected <= Revision(disk', m.job)
    <3> DEFINE q == [id |-> c.id, op |-> c.op, job |-> c.job, body |-> c.body,
                     expected |-> n]
    <3>1. q \in Request /\ q.job = c.job /\ q.expected = n
      BY DEF Request
    <3>2. n \in known[c.job] /\ sent' = sent \cup {q} /\ disk' = disk
      BY <2>1 DEF Send, storeVars
    <3>3. n <= Revision(disk, c.job)
      BY <1>a, <1>b, <1>c, <3>1, <3>2 DEF Heard
    <3> HIDE DEF q
    <3> QED
      BY <1>a, <3>1, <3>2, <3>3 DEF Heard
  <2>2. ASSUME sent' = sent, NEW m \in sent'
        PROVE  m \in Request /\ m.expected <= Revision(disk', m.job)
    BY <1>a, <1>b, <1>c, <2>2 DEF Heard
  <2>3. (\E c \in Commands, n \in Revisions : Send(c, n)) \/ sent' = sent
    BY DEF Next, Proceed, clientVars, Read, Receive, LockJob, Preview, Begin,
       Replay, Mismatch, Stale, Outdated, Refuse, End, Apply, Write, WriteFails,
       Rename, RenameFails, Install, Answer, Crash, Open
  <2> QED
    BY <2>1, <2>2, <2>3
<1>3. \A h \in Handlers : request'[h] # None => request'[h] \in sent'
  <2>1. sent \subseteq sent'
    BY DEF Next, Proceed, clientVars, Read, Send, Receive, LockJob, Preview,
       Begin, Replay, Mismatch, Stale, Outdated, Refuse, End, Apply, Write,
       WriteFails, Rename, RenameFails, Install, Answer, Crash, Open
  <2>2. ASSUME NEW h \in Handlers, NEW m \in sent, Receive(h, m)
        PROVE  \A x \in Handlers : request'[x] # None => request'[x] \in sent'
    BY <1>a, <2>1, <2>2 DEF Receive, Typed, Heard
  <2>3. ASSUME NEW h \in Handlers, Answer(h)
        PROVE  \A x \in Handlers : request'[x] # None => request'[x] \in sent'
    BY <1>a, <2>1, <2>3 DEF Answer, Typed, Heard
  <2>4. ASSUME Crash
        PROVE  \A x \in Handlers : request'[x] # None => request'[x] \in sent'
    BY <2>4 DEF Crash
  <2>5. ASSUME request' = request
        PROVE  \A x \in Handlers : request'[x] # None => request'[x] \in sent'
    BY <1>a, <2>1, <2>5 DEF Heard
  <2>6. \/ \E h \in Handlers, m \in sent : Receive(h, m)
        \/ \E h \in Handlers : Answer(h)
        \/ Crash
        \/ request' = request
    BY DEF Next, Proceed, handlerVars, Read, Send, LockJob, Preview, Begin,
       Replay, Mismatch, Stale, Outdated, Refuse, End, Apply, Write, WriteFails,
       Rename, RenameFails, Install, Open
  <2> QED
    BY <2>2, <2>3, <2>4, <2>5, <2>6
<1> QED
  BY <1>1, <1>2, <1>3 DEF Heard

LEMMA MemoryStep == IInv /\ Next => Memory'
<1> SUFFICES ASSUME IInv, Next PROVE Memory'
  OBVIOUS
<1>a. Typed /\ Held /\ Memory /\ (\A h \in Handlers : Prepared(h)) /\ Free \notin Handlers
  BY ProtocolAssumption DEF IInv
<1>1. ASSUME UNCHANGED <<mem, disk, pc>> PROVE Memory'
  BY <1>a, <1>1 DEF Memory
<1>2. ASSUME NEW h \in Handlers, NEW here \in {"idle", "lock", "update", "apply", "write", "answer"},
             NEW there \in {"lock", "update", "apply", "write", "rename", "answer", "idle"},
             At(h, here, there), mem # None, UNCHANGED <<mem, disk>>
      PROVE  Memory'
  BY <1>a, <1>2 DEF At, Memory, Typed
<1>3. ASSUME NEW h \in Handlers, Ends(h) \/ Rename(h) PROVE mem # None
  <2>1. pc[h] # "idle"
    BY <1>3 DEF Ends, Rename, Mismatch, Stale, Outdated, Refuse, WriteFails,
       RenameFails, Install, End, At
  <2> QED
    BY <2>1, BusyFacts
<1>4. ASSUME NEW h \in Handlers, Install(h) PROVE Memory'
  <2>1. mem' = next[h] /\ disk' = disk /\ pc[h] = "install"
    BY <1>4 DEF Install, End, At
  <2>2. next[h] = disk /\ next[h] # None
    BY <1>a, <2>1 DEF Prepared, Held, Working
  <2> QED
    BY <2>1, <2>2 DEF Memory
<1>5. ASSUME NEW h \in Handlers, Rename(h) PROVE Memory'
  <2>1. pc'[h] = "install" /\ mem' = mem /\ mem # None
    BY <1>a, <1>3, <1>5 DEF Rename, At, Typed
  <2> QED
    BY <2>1 DEF Memory
<1>6. ASSUME NEW h \in Handlers,
             Mismatch(h) \/ Stale(h) \/ Outdated(h) \/ Refuse(h) \/
             WriteFails(h) \/ RenameFails(h)
      PROVE  Memory'
  <2>1. pc[h] # "install" /\ pc[h] \in Working
    BY <1>6 DEF Mismatch, Stale, Outdated, Refuse, WriteFails, RenameFails, End,
       At, Working
  <2>2. \A g \in Handlers : pc[g] # "install"
    BY <1>a, <2>1, OneWorks DEF Working
  <2>3. mem' = mem /\ disk' = disk /\ mem # None
    BY <1>3, <1>6 DEF Ends, Mismatch, Stale, Outdated, Refuse, WriteFails,
       RenameFails, storeVars
  <2> QED
    BY <1>a, <2>2, <2>3 DEF Memory
<1>7. ASSUME Crash PROVE Memory'
  BY <1>7 DEF Crash, Memory
<1>8. ASSUME Open PROVE Memory'
  BY <1>a, <1>8 DEF Open, Memory, handlerVars
<1>9. ASSUME NEW h \in Handlers, Replay(h) \/ Apply(h) \/ Write(h) \/ LockJob(h) \/
             Preview(h) \/ Begin(h) \/ Answer(h)
      PROVE  Memory'
  <2>1. pc[h] # "idle"
    BY <1>9 DEF Replay, Apply, Write, LockJob, Preview, Begin, Answer, At
  <2>2. mem # None
    BY <2>1, BusyFacts
  <2> QED
    BY <1>2, <1>9, <2>2 DEF Replay, Apply, Write, LockJob, Preview, Begin,
       Answer, storeVars
<1>10. ASSUME NEW h \in Handlers, NEW m \in sent, Receive(h, m) PROVE Memory'
  BY <1>2, <1>10 DEF Receive, storeVars
<1> QED
  BY <1>1, <1>4, <1>5, <1>6, <1>7, <1>8, <1>9, <1>10
  DEF Next, Proceed, Read, Send, storeVars, handlerVars

LEMMA PreparedStep == IInv /\ Next => \A h \in Handlers : Prepared(h)'
<1> SUFFICES ASSUME IInv, Next, NEW h \in Handlers PROVE Prepared(h)'
  OBVIOUS
<1>a. Typed /\ Held /\ Memory /\ Prepared(h) /\ Free \notin Handlers /\ Sound(disk)
  BY ProtocolAssumption DEF IInv
<1>b. \A q \in Request : \A a : Answered(q, a) => Answered(q, a)'
  BY DiskGrows
<1>1. ASSUME UNCHANGED <<disk, tmp, pc[h], next[h], request[h], reply[h]>>
      PROVE  Prepared(h)'
  BY <1>a, <1>1 DEF Prepared, Answered
<1>2. ASSUME pc'[h] \in {"idle", "lock", "update"} PROVE Prepared(h)'
  BY <1>2 DEF Prepared
(* What another handler does. *)
<1>3. ASSUME UNCHANGED <<pc[h], next[h], request[h], reply[h]>>, pc[h] \notin Working
      PROVE  Prepared(h)'
  <2>1. CASE pc[h] = "answer"
    <3>1. request[h] \in Request
      BY <2>1, BusyFacts
    <3> QED
      BY <1>a, <1>b, <1>3, <2>1, <3>1 DEF Prepared
  <2>2. CASE pc[h] # "answer"
    BY <1>3, <2>2 DEF Prepared, Working
  <2> QED
    BY <2>1, <2>2
<1>4. ASSUME NEW g \in Handlers, g # h, pc[g] \in Working PROVE pc[h] \notin Working
  BY <1>4, <1>a, OneWorks
<1>5. ASSUME NEW g \in Handlers, g # h, Proceed(g) \/ LockJob(g) \/ Preview(g) \/ Begin(g)
      PROVE  Prepared(h)'
  <2>1. UNCHANGED <<pc[h], request[h], reply[h]>>
    BY <1>a, <1>5 DEF Proceed, LockJob, Preview, Begin, Replay, Mismatch, Stale,
       Outdated, Refuse, Apply, Write, WriteFails, Rename, RenameFails, Install,
       Answer, End, At, Typed
  <2>2. next'[h] = next[h]
    <3>1. CASE Apply(g)
      BY <1>5, <3>1, ApplyAccepts, <1>a DEF Typed
    <3>2. CASE ~Apply(g)
      BY <1>a, <1>5, <3>2 DEF Proceed, LockJob, Preview, Begin, Replay,
         Mismatch, Stale, Outdated, Refuse, Write, WriteFails, Rename,
         RenameFails, Install, Answer, End, Typed
    <3> QED
      BY <3>1, <3>2
  <2>3. pc[g] \in Working \/ UNCHANGED <<disk, tmp>>
    BY <1>5 DEF Proceed, LockJob, Preview, Begin, Replay, Mismatch, Stale,
       Outdated, Refuse, Apply, Write, WriteFails, Rename, RenameFails, Install,
       Answer, End, At, Working, storeVars
  <2> QED
    BY <1>1, <1>3, <1>4, <1>5, <2>1, <2>2, <2>3
(* What the handler itself does. *)
<1>6. ASSUME Begin(h) PROVE Prepared(h)'
  <2>1. mutex = Free /\ pc[h] = "update" /\ next'[h] = mem /\ disk' = disk /\ pc'[h] = "apply"
    BY <1>a, <1>6 DEF Begin, At, Typed, storeVars
  <2>2. \A g \in Handlers : pc[g] # "install"
    BY <1>a, <2>1 DEF Held, Working
  <2>3. mem = disk
    BY <1>a, <2>1, <2>2, BusyFacts DEF Memory
  <2> QED
    BY <2>1, <2>3 DEF Prepared
<1>20. ASSUME Preview(h) PROVE Prepared(h)'
  <2>1. pc'[h] = "answer" /\ reply'[h].kind = "preview"
    BY <1>a, <1>20 DEF Preview, At, Typed
  <2> QED
    BY <2>1 DEF Prepared, Answered, Conflicts
<1>7. ASSUME pc[h] = "apply"
      PROVE  next[h] = disk /\ request[h] \in Request /\ Sound(next[h])
  BY <1>a, <1>7, BusyFacts DEF Prepared
<1>8. ASSUME Replay(h) PROVE Prepared(h)'
  <2>1. /\ pc[h] = "apply" /\ pc'[h] = "write" /\ UNCHANGED <<next, disk, request>>
        /\ reply'[h] = Success(next[h].requests[request[h].id].revision)
        /\ next[h].requests[request[h].id] # None
        /\ next[h].requests[request[h].id].hash = requestHash(request[h])
    BY <1>a, <1>8 DEF Replay, Remembered, At, Typed, storeVars
  <2>2. Done(next[h], request[h], next[h].requests[request[h].id].revision)
    BY <1>7, <2>1, RememberedDone
  <2> QED
    BY <1>7, <2>1, <2>2 DEF Prepared, Success
<1>9. ASSUME Mismatch(h) \/ Stale(h) \/ Outdated(h) \/ Refuse(h) PROVE Prepared(h)'
  <2>1. /\ pc[h] = "apply" /\ pc'[h] = "answer" /\ UNCHANGED <<disk, request>>
        /\ reply'[h].kind # "ok"
        /\ reply'[h].kind = "idempotency_conflict" =>
             /\ disk.requests[request[h].id] # None
             /\ disk.requests[request[h].id].hash # requestHash(request[h])
        /\ reply'[h].kind = "revision_conflict" =>
             \/ Unconfirmed(disk, request[h])
             \/ Revision(disk, request[h].job) # request[h].expected
        /\ reply'[h].kind = "revision_conflict" =>
             disk.requests[request[h].id] = None
    <3>1. pc[h] = "apply"
      BY <1>9 DEF Mismatch, Stale, Outdated, Refuse, End, At
    <3>2. next[h] = disk
      BY <1>7, <3>1
    <3> QED
      BY <1>a, <1>9, <3>1, <3>2 DEF Mismatch, Stale, Outdated, Refuse, End, At,
         Typed, Failure, Remembered, Confirmed, Unconfirmed, storeVars
  <2>2. ASSUME reply'[h].kind = "idempotency_conflict" PROVE Final(disk, request[h])
    BY <1>7, <2>1, <2>2, NotApplied DEF Final
  <2>3. ASSUME reply'[h].kind = "revision_conflict" PROVE Final(disk, request[h])
    <3>1. \/ Unconfirmed(disk, request[h])
          \/ Revision(disk, request[h].job) > request[h].expected
      <4>1. /\ request[h].expected \in Nat /\ request[h].job \in Jobs
            /\ request[h].expected <= Revision(disk, request[h].job)
        BY <2>1, BusyFacts
      <4>2. Revision(disk, request[h].job) \in Nat
        BY <1>a, <4>1, DataFacts DEF Sound
      <4> QED
        BY <2>1, <2>3, <4>1, <4>2
    <3> QED
      BY <1>7, <2>1, <2>3, <3>1, NotApplied DEF Final
  <2> QED
    BY <2>1, <2>2, <2>3 DEF Prepared, Answered, Conflicts
<1>10. ASSUME Apply(h) PROVE Prepared(h)'
  <2>1. /\ pc'[h] = "write" /\ UNCHANGED <<disk, request>>
        /\ reply'[h] = Success(request[h].expected + 1)
    BY <1>a, <1>10 DEF Apply, At, Typed, storeVars
  <2>2. /\ Accepts(disk, next'[h], request[h])
        /\ Done(next'[h], request[h], request[h].expected + 1)
    BY <1>10, ApplyAccepts
  <2> QED
    BY <2>1, <2>2 DEF Prepared, Success
<1>11. ASSUME Write(h) PROVE Prepared(h)'
  BY <1>a, <1>11 DEF Write, At, Prepared, Typed
<1>12. ASSUME WriteFails(h) \/ RenameFails(h) PROVE Prepared(h)'
  <2>1. pc'[h] = "answer" /\ reply'[h].kind = "rule_violation"
    BY <1>a, <1>12 DEF WriteFails, RenameFails, End, At, Typed, Failure
  <2> QED
    BY <2>1 DEF Prepared, Answered, Conflicts
<1>13. ASSUME Rename(h) PROVE Prepared(h)'
  BY <1>a, <1>13 DEF Rename, At, Prepared, Typed
<1>14. ASSUME Install(h) PROVE Prepared(h)'
  <2>1. /\ pc[h] = "install" /\ pc'[h] = "answer" /\ UNCHANGED <<disk, request>>
        /\ reply'[h] = reply[h]
    BY <1>a, <1>14 DEF Install, End, At, Typed
  <2> QED
    BY <1>a, <2>1 DEF Prepared, Answered, Conflicts
<1>15. ASSUME LockJob(h) \/ Answer(h) PROVE Prepared(h)'
  BY <1>a, <1>2, <1>15 DEF LockJob, Answer, At, Typed
<1>16. ASSUME NEW g \in Handlers, NEW m \in sent, Receive(g, m) PROVE Prepared(h)'
  <2>1. CASE g = h
    BY <1>a, <1>2, <1>16, <2>1 DEF Receive, At, Typed
  <2>2. CASE g # h
    BY <1>a, <1>1, <1>16, <2>2 DEF Receive, At, Typed, storeVars
  <2> QED
    BY <2>1, <2>2
<1>17. ASSUME Crash PROVE Prepared(h)'
  BY <1>2, <1>17 DEF Crash
<1>18. ASSUME (\E j \in Jobs : Read(j)) \/ (\E c \in Commands, n \in Revisions : Send(c, n)) \/ Open
       PROVE  Prepared(h)'
  BY <1>1, <1>18 DEF Read, Send, Open, storeVars, handlerVars
<1>19. ASSUME Proceed(h) \/ LockJob(h) \/ Preview(h) \/ Begin(h) PROVE Prepared(h)'
  BY <1>6, <1>8, <1>9, <1>10, <1>11, <1>12, <1>13, <1>14, <1>15, <1>19,
     <1>20 DEF Proceed
<1> QED
  BY <1>5, <1>16, <1>17, <1>18, <1>19 DEF Next

LEMMA ToldStep == IInv /\ Next => Told'
<1> SUFFICES ASSUME IInv, Next, NEW r \in replies'
             PROVE  r.request \in Request /\ Answered(r.request, r.reply)'
  BY DEF Told
<1>1. CASE r \in replies
  <2>1. r.request \in Request /\ Answered(r.request, r.reply)
    BY <1>1 DEF IInv, Told
  <2> QED
    BY <2>1, DiskGrows
<1>2. ASSUME NEW h \in Handlers, Answer(h), r \notin replies
      PROVE  r.request \in Request /\ Answered(r.request, r.reply)'
  <2>1. pc[h] = "answer" /\ disk' = disk /\ r.request = request[h] /\ r.reply = reply[h]
    BY <1>2 DEF Answer, At, storeVars
  <2>2. request[h] \in Request /\ Answered(request[h], reply[h])
    BY <2>1, BusyFacts DEF IInv, Prepared
  <2> QED
    BY <2>1, <2>2 DEF Answered
<1>3. replies' = replies \/ \E h \in Handlers : Answer(h)
  BY DEF Next, Proceed, Read, Send, Receive, LockJob, Preview, Begin, Replay,
     Mismatch, Stale, Outdated, Refuse, End, Apply, Write, WriteFails, Rename,
     RenameFails, Install, Crash, Open
<1> QED
  BY <1>1, <1>2, <1>3

LEMMA IInvInit == Init => IInv
<1> SUFFICES ASSUME Init PROVE IInv
  OBVIOUS
<1>1. Sound(Empty) /\ Empty \in Data /\ Empty # None
  BY EmptySound, DataFacts DEF Sound
<1>2. \A j \in Jobs : Revision(Empty, j) = 0
  BY EmptySound DEF Revision
<1>3. \A m \in Previews : m \in Request /\ m.job \in Jobs /\ m.expected = 0
  <2>1. 0 \in Revisions
    BY RevisionsAreNat DEF Revisions
  <2> QED
    BY <2>1, ProtocolAssumption DEF Previews, Request
<1>4. \A m \in Previews : m \in Request /\ m.expected <= Revision(Empty, m.job)
  BY <1>2, <1>3
<1> QED
  BY <1>1, <1>2, <1>4, ProtocolAssumption
  DEF Init, IInv, Typed, Held, Heard, Memory, Prepared, Told, Working

LEMMA IInvStep == IInv /\ [Next]_vars => IInv'
<1> SUFFICES ASSUME IInv, [Next]_vars PROVE IInv'
  OBVIOUS
<1>1. CASE Next
  <2>1. Sound(disk')
    BY <1>1, DiskGrows
  <2> QED
    BY <1>1, <2>1, TypedStep, HeldStep, HeardStep, MemoryStep, PreparedStep, ToldStep
    DEF IInv
<1>2. CASE UNCHANGED vars
  BY <1>2 DEF vars, clientVars, storeVars, lockVars, handlerVars, IInv, Typed, Held,
     Heard, Memory, Prepared, Answered, Told
<1> QED
  BY <1>1, <1>2

LEMMA InductiveInvariant == Spec => []IInv
  BY IInvInit, IInvStep, PTL DEF Spec

-------------------------------------------------------------------------------
(* Theorems                                                                 *)

(* TypeOK: types, and locks that are held by exactly who is between taking *)
(* and releasing them.                                                     *)
THEOREM TypeCorrect == Spec => []TypeOK
<1>1. IInv => TypeOK
  <2> SUFFICES ASSUME IInv PROVE TypeOK
    OBVIOUS
  <2>1. \A j \in Jobs : Revision(disk, j) \in Revisions
    BY DataFacts DEF IInv, Sound
  <2>2. known \in [Jobs -> SUBSET Revisions]
    <3>1. \A j \in Jobs : 0..Revision(disk, j) \subseteq Revisions
      BY <2>1, RevisionsAreNat DEF Revisions
    <3> QED
      BY <3>1 DEF IInv, Typed, Heard
  <2>3. sent \subseteq Request /\ \A r \in replies : r.request \in Request
    BY DEF IInv, Heard, Told
  <2>4. disk \in Data /\ {mem, tmp} \subseteq Data \cup {None}
    BY DEF IInv, Sound, Typed
  <2>5. \A h \in Handlers :
          /\ pc[h] = "idle" <=> request[h] = None
          /\ pc[h] \in {"apply", "write", "rename", "install"} <=> mutex = h
          /\ next[h] # None <=> mutex = h
          /\ \A j \in Jobs : jobLock[j] = h <=>
               pc[h] \notin {"idle", "lock"} /\ request[h].job = j
    BY DEF IInv, Held, Working
  <2> QED
    BY <2>2, <2>3, <2>4, <2>5 DEF TypeOK
<1> QED
  BY <1>1, InductiveInvariant, PTL

(* KeepsLedger: every change of the file is one request taking effect,     *)
(* once for its id and on the revision its client had seen.                *)
THEOREM LedgerKept == Spec => KeepsLedger
<1>1. Init => TheLedger!Init
  BY DEF Init, TheLedger!Init, Empty
<1>2. IInv /\ [Next]_vars => [TheLedger!Next]_(disk.history)
  <2> SUFFICES ASSUME IInv, [Next]_vars, disk' # disk PROVE TheLedger!Next
    OBVIOUS
  <2>1. Next
    BY DEF vars, storeVars
  <2>2. PICK m \in Request : Accepts(disk, disk', m)
    BY <2>1, DiskStep
  <2>3. disk \in Data /\ Sound(disk)
    BY DEF IInv, Sound
  <2>4. disk'.history = [disk.history EXCEPT ![m.job] = Append(@, m)]
    BY <2>2 DEF Accepts, Effect
  <2>5. m.expected = Len(disk.history[m.job])
    BY <2>2 DEF Accepts, Revision
  <2>6. ASSUME NEW j \in Jobs, NEW k \in DOMAIN disk.history[j],
               disk.history[j][k].id = m.id
        PROVE  FALSE
    <3>1. disk.requests[m.id] = Response(disk.history[j][k], k)
      BY <2>3, <2>6 DEF Sound, Agree
    <3>2. disk.history[j][k] \in Request /\ k \in Revisions
      BY <2>3, DataFacts, RevisionsAreNat DEF Revisions
    <3> QED
      BY <2>2, <3>1, <3>2, ProtocolAssumption DEF Accepts
  <2>7. TheLedger!Accept(m)
    BY <2>4, <2>5, <2>6 DEF TheLedger!Accept
  <2> QED
    BY <2>2, <2>7 DEF TheLedger!Next
<1> QED
  BY <1>1, <1>2, InductiveInvariant, PTL DEF Spec, KeepsLedger, TheLedger!Spec

(* The file bears out what was told, by the invariant's Heard and Told.     *)
LEMMA DiskBearsOut == IInv => BearsOut(disk)
<1> SUFFICES ASSUME IInv, NEW r \in replies, r.reply.kind = "ok"
             PROVE  /\ r.reply.revision \in DOMAIN disk.history[r.request.job]
                    /\ requestHash(disk.history[r.request.job][r.reply.revision]) =
                         requestHash(r.request)
  BY DEF IInv, Heard, BearsOut
<1> DEFINE m == r.request
           n == r.reply.revision
<1>1. m \in Request /\ m.id \in Ids /\ Done(disk, m, n)
  BY RequestFacts DEF IInv, Told, Answered
<1>2. PICK j \in Jobs : \E k \in DOMAIN disk.history[j] : disk.history[j][k].id = m.id
  BY <1>1 DEF Done, IInv, Sound, Agree
<1> PICK k \in DOMAIN disk.history[j] : disk.history[j][k].id = m.id
  BY <1>2
<1> DEFINE q == disk.history[j][k]
<1>3. q.job = j /\ disk.requests[m.id] = Response(q, k)
  BY DEF IInv, Sound, Agree
<1> HIDE DEF m, n, q
<1>4. Response(q, k) = Response(m, n)
  BY <1>1, <1>3 DEF Done
<1>5. k = n /\ requestHash(q) = requestHash(m)
  BY <1>4 DEF Response
<1>6. m.job = j
  BY <1>3, <1>5 DEF requestHash
<1> QED
  BY <1>5, <1>6 DEF m, n, q

(* ToldIsDurable: what was answered or read is in the file, for good.      *)
THEOREM ToldIsKept == Spec => []ToldIsDurable
BY DiskBearsOut, InductiveInvariant, PTL DEF ToldIsDurable

(* ReadsAreCurrent: the store's lock is free only when its copy in memory  *)
(* is what is in the file, so that a reader misses nothing that was told.  *)
THEOREM ReadersMissNothing == Spec => []ReadsAreCurrent
<1>1. IInv => ReadsAreCurrent
  <2> SUFFICES ASSUME IInv, mem # None, mutex = Free PROVE BearsOut(mem)
    BY DEF ReadsAreCurrent
  <2>1. \A h \in Handlers : pc[h] # "install"
    BY ProtocolAssumption DEF IInv, Held, Working
  <2>2. mem = disk
    BY <2>1 DEF IInv, Memory
  <2> QED
    BY <2>2, DiskBearsOut
<1> QED
  BY <1>1, InductiveInvariant, PTL

(* No two commands that a client sends under one id differ only in the     *)
(* operation they ask for.                                                 *)
OneOperationPerId ==
  \A c, d \in Commands : <<c.id, c.job, c.body>> = <<d.id, d.job, d.body>> => c.op = d.op

(* AnswersTheOperation: reuse of an id for another operation with the same *)
(* fields is the only way to an answer that is about something else; the   *)
(* hash of replay tells apart whatever else a client may confuse.          *)
THEOREM AnswersUnlessReused == OneOperationPerId => (Spec => []AnswersTheOperation)
<1> SUFFICES ASSUME OneOperationPerId PROVE Spec => []AnswersTheOperation
  OBVIOUS
<1>1. ASSUME NEW m \in Request, NEW q \in Request, requestHash(m) = requestHash(q)
      PROVE  m.op = q.op
  <2>1. PICK c \in Commands : m.id = c.id /\ m.op = c.op /\ m.job = c.job /\ m.body = c.body
    BY DEF Request
  <2>2. PICK d \in Commands : q.id = d.id /\ q.op = d.op /\ q.job = d.job /\ q.body = d.body
    BY DEF Request
  <2>3. m.id = q.id /\ m.job = q.job /\ m.body = q.body
    BY <1>1 DEF requestHash
  <2> QED
    BY <2>1, <2>2, <2>3 DEF OneOperationPerId
<1>2. IInv => AnswersTheOperation
  <2> SUFFICES ASSUME IInv, NEW r \in replies, r.reply.kind = "ok"
               PROVE  disk.history[r.request.job][r.reply.revision].op = r.request.op
    BY DEF AnswersTheOperation
  <2> DEFINE q == disk.history[r.request.job][r.reply.revision]
  <2>1. /\ r.reply.revision \in DOMAIN disk.history[r.request.job]
        /\ requestHash(q) = requestHash(r.request)
    BY DiskBearsOut DEF BearsOut
  <2>2. r.request \in Request /\ r.request.job \in Jobs
    BY RequestFacts DEF IInv, Told
  <2>3. q \in Request
    BY <2>1, <2>2, DataFacts DEF IInv, Sound
  <2> HIDE DEF q
  <2>4. q.op = r.request.op
    BY <1>1, <2>1, <2>2, <2>3
  <2> QED
    BY <2>4 DEF q
<1> QED
  BY <1>2, InductiveInvariant, PTL

(* ConflictIsFinal: a request that was told of a conflict has no effect,   *)
(* before or after.  A revision only grows, and what a digest confirms is  *)
(* the job at the revision that the request names.                         *)
THEOREM ConflictsAreFinal == Spec => []ConflictIsFinal
<1>1. IInv => ConflictIsFinal
  BY DEF IInv, Told, Answered, Final, ConflictIsFinal
<1> QED
  BY <1>1, InductiveInvariant, PTL

(* WaitsEnd: who holds a lock is at work or waits for one who is.          *)
THEOREM NobodyStuck == Spec => []WaitsEnd
<1>1. ASSUME IInv, NEW h \in Handlers, AwaitedBy(h) # Free
      PROVE  \E g \in Handlers \ {h} :
               /\ AwaitedBy(h) = g
               /\ pc[g] \in Working \cup {"update", "answer"}
               /\ pc[h] = "update" => pc[g] \in Working
  <2>1. CASE pc[h] = "lock"
    <3> DEFINE j == request[h].job
    <3>1. j \in Jobs
      BY <2>1, <1>1, BusyFacts
    <3>2. AwaitedBy(h) = jobLock[j] /\ jobLock[j] \in Handlers
      BY <1>1, <2>1, <3>1 DEF AwaitedBy, IInv, Typed
    <3>3. PICK g \in Handlers : jobLock[j] = g
      BY <3>2
    <3>4. pc[g] \notin {"idle", "lock"}
      BY <1>1, <3>1, <3>3 DEF IInv, Held
    <3>5. pc[g] \in Working \cup {"update", "answer"}
      BY <1>1, <3>4 DEF IInv, Typed
    <3> QED
      BY <2>1, <3>2, <3>3, <3>4, <3>5
  <2>2. CASE pc[h] = "update"
    <3>1. AwaitedBy(h) = mutex /\ mutex \in Handlers
      BY <1>1, <2>2 DEF AwaitedBy, IInv, Typed
    <3>2. PICK g \in Handlers : mutex = g
      BY <3>1
    <3>3. pc[g] \in Working
      BY <1>1, <3>2 DEF IInv, Held
    <3>4. g # h
      BY <2>2, <3>3 DEF Working
    <3> QED
      BY <3>1, <3>2, <3>3, <3>4
  <2> QED
    BY <1>1, <2>1, <2>2 DEF AwaitedBy
<1>2. ASSUME NEW g \in Handlers, pc[g] \in Working
      PROVE  AwaitedBy(g) = Free
  BY <1>2 DEF AwaitedBy, Working
<1>3. IInv => WaitsEnd
  <2> SUFFICES ASSUME IInv, NEW h \in Handlers, AwaitedBy(h) # Free
               PROVE  \E g \in Handlers \ {h} :
                        /\ AwaitedBy(h) = g
                        /\ pc[g] # "idle"
                        /\ AwaitedBy(g) # Free =>
                             \E f \in Handlers \ {g, h} :
                               AwaitedBy(g) = f /\ pc[f] # "idle" /\ AwaitedBy(f) = Free
    BY DEF WaitsEnd
  <2>1. PICK g \in Handlers \ {h} :
               /\ AwaitedBy(h) = g
               /\ pc[g] \in Working \cup {"update", "answer"}
    BY <1>1
  <2>2. pc[g] # "idle" /\ pc[g] # "lock"
    BY <2>1 DEF Working
  <2>3. ASSUME AwaitedBy(g) # Free
        PROVE  \E f \in Handlers \ {g, h} :
                 AwaitedBy(g) = f /\ pc[f] # "idle" /\ AwaitedBy(f) = Free
    <3>1. pc[g] = "update"
      BY <2>2, <2>3 DEF AwaitedBy
    <3>2. PICK f \in Handlers \ {g} : AwaitedBy(g) = f /\ pc[f] \in Working
      BY <1>1, <2>3, <3>1
    <3>3. AwaitedBy(f) = Free /\ pc[f] # "idle"
      BY <1>2, <3>2 DEF Working
    <3> QED
      BY <3>2, <3>3
  <2> QED
    BY <2>1, <2>2, <2>3
<1> QED
  BY <1>3, InductiveInvariant, PTL
===============================================================================
