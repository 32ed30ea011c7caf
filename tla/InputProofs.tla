------------------------------- MODULE InputProofs -------------------------------
(***************************************************************************)
(* Theorems about ReviewForm and BatchPreview, for forms and batches of    *)
(* every length.                                                           *)
(***************************************************************************)
EXTENDS ReviewForm, BatchPreview, FiniteSetTheorems, FunctionTheorems, TLAPS

-------------------------------------------------------------------------------
(* Forms                                                                    *)

IsForm(f) ==
  \E D \in SUBSET FormIds :
    f \in [decision : {"approve", "reject"}, samples : [D -> BOOLEAN],
          items : Seq(Conclusion)]

LEMMA FormFacts ==
  ASSUME NEW f, IsForm(f)
  PROVE  /\ IsFiniteSet(DOMAIN f.samples)
         /\ \A id \in DOMAIN f.samples : f.samples[id] \in BOOLEAN
         /\ Len(f.items) \in Nat
         /\ DOMAIN f.items = 1..Len(f.items)
         /\ f.items = <<>> <=> Len(f.items) = 0
         /\ IsFiniteSet(Sampled) /\ Cardinality(Sampled) \in Nat
<1>1. PICK D \in SUBSET FormIds : f.samples \in [D -> BOOLEAN]
  BY DEF IsForm
<1>2. IsFiniteSet(D) /\ IsFiniteSet(Sampled)
  BY FormAssumption, FS_Subset
<1>3. DOMAIN f.samples = D /\ \A id \in D : f.samples[id] \in BOOLEAN
  BY <1>1
<1>4. f.items \in Seq(Conclusion)
  BY DEF IsForm
<1>5. /\ Len(f.items) \in Nat /\ DOMAIN f.items = 1..Len(f.items)
      /\ f.items = <<>> <=> Len(f.items) = 0
  BY <1>4
<1> QED
  BY <1>2, <1>3, <1>5, FS_CardinalityType

(* A list without duplicates, on the sample and as long as it, has each    *)
(* point of the sample once.                                               *)
LEMMA OneConclusionEach ==
  ASSUME NEW f, IsForm(f), NoDuplicates(f), Len(f.items) = Cardinality(Sampled),
         \A i \in DOMAIN f.items : f.items[i].point \in Sampled
  PROVE  \A id \in Sampled : \E i \in DOMAIN f.items : f.items[i].point = id
<1> DEFINE n == Len(f.items)
           g == [i \in 1..n |-> f.items[i].point]
<1>1. DOMAIN f.items = 1..n /\ n \in Nat /\ IsFiniteSet(Sampled)
  BY FormFacts
<1>2. g \in Injection(1..n, Sampled)
  BY <1>1 DEF NoDuplicates, Injection, IsInjective
<1>3. Cardinality(1..n) = n
  BY <1>1, FS_Interval
<1>4. g \in Surjection(1..n, Sampled)
  BY <1>1, <1>2, <1>3, FS_Injection
<1> QED
  BY <1>1, <1>4 DEF Surjection

(* And the other way around: a list as long as the sample that has each of *)
(* its points has no duplicates.                                           *)
LEMMA EachConcludedOnce ==
  ASSUME NEW f, IsForm(f), Len(f.items) = Cardinality(Sampled),
         {f.items[i].point : i \in DOMAIN f.items} = Sampled
  PROVE  NoDuplicates(f)
<1> DEFINE n == Len(f.items)
           g == [i \in 1..n |-> f.items[i].point]
<1>1. DOMAIN f.items = 1..n /\ n \in Nat /\ IsFiniteSet(Sampled)
  BY FormFacts
<1>2. g \in Surjection(1..n, Sampled)
  BY <1>1 DEF Surjection
<1>3. IsFiniteSet(1..n) /\ Cardinality(1..n) = n
  BY <1>1, FS_Interval
<1>4. g \in Injection(1..n, Sampled)
  BY <1>2, <1>3, FS_Surjection
<1> QED
  BY <1>1, <1>4 DEF Injection, IsInjective, NoDuplicates

(* AcceptedIsVerdict: the checks of Review, which compare lengths, together *)
(* accept only forms that are verdicts on the sample.                       *)
LEMMA AcceptedFormIsVerdict == IsForm(form) => AcceptedIsVerdict
<1> SUFFICES ASSUME IsForm(form), Accepted(form)
             PROVE  /\ DOMAIN form.samples = Sampled
                    /\ Failed(form) = {id \in Sampled : ~form.samples[id]}
                    /\ \A id \in Failed(form) :
                         Cardinality({i \in DOMAIN form.items :
                                        form.items[i].point = id}) = 1
                    /\ form.decision = "approve" <=> \A id \in Sampled : form.samples[id]
  BY DEF AcceptedIsVerdict
<1> DEFINE short == form.items = <<>> /\ form.decision = "approve"
<1>1. DOMAIN form.samples = Sampled
  BY FormFacts, FS_Subset DEF Accepted
<1>2. \A c \in Items(form) :
        /\ c.point \in Sampled
        /\ form.samples[c.point] <=> c.result = "passed"
  BY <1>1 DEF Accepted, Agrees
<1>3. \A id \in Sampled : \E c \in Items(form) : c.point = id
  <2>1. CASE short
    <3>1. Items(form) = {[point |-> id, result |-> "passed"] : id \in Sampled}
      BY <2>1 DEF Items
    <3>2. ASSUME NEW id \in Sampled PROVE \E c \in Items(form) : c.point = id
      <4> DEFINE c == [point |-> id, result |-> "passed"]
      <4>1. c \in Items(form) /\ c.point = id
        BY <3>1
      <4> HIDE DEF c
      <4> QED
        BY <4>1
    <3> QED
      BY <3>2
  <2>2. CASE ~short
    <3>1. Items(form) = {form.items[i] : i \in DOMAIN form.items}
      BY <2>2 DEF Items
    <3>2. Len(form.items) = Cardinality(Sampled) /\ NoDuplicates(form)
      BY <2>2 DEF Accepted, ItemCount
    <3>3. \A i \in DOMAIN form.items : form.items[i].point \in Sampled
      BY <1>2, <3>1
    <3>4. \A id \in Sampled : \E i \in DOMAIN form.items : form.items[i].point = id
      BY <3>2, <3>3, OneConclusionEach
    <3> QED
      BY <3>1, <3>4
  <2> QED
    BY <2>1, <2>2
<1>4. Failed(form) = {id \in Sampled : ~form.samples[id]}
  BY <1>2, <1>3 DEF Failed
<1>5. ASSUME NEW id \in Failed(form)
      PROVE  Cardinality({i \in DOMAIN form.items : form.items[i].point = id}) = 1
  <2>1. ~short
    BY <1>5 DEF Failed, Items
  <2>2. Items(form) = {form.items[i] : i \in DOMAIN form.items}
    BY <2>1 DEF Items
  <2>3. PICK i \in DOMAIN form.items : form.items[i].point = id
    BY <1>5, <2>2 DEF Failed
  <2>4. {k \in DOMAIN form.items : form.items[k].point = id} = {i}
    BY <2>3 DEF Accepted, NoDuplicates
  <2> QED
    BY <2>4, FS_Singleton
<1>6. form.decision = "approve" <=> \A id \in Sampled : form.samples[id]
  BY <1>4 DEF Accepted
<1> QED
  BY <1>1, <1>4, <1>5, <1>6

(* VerdictIsAcceptable: no verdict is refused, in whatever order its       *)
(* conclusions come.                                                       *)
LEMMA VerdictIsAccepted == IsForm(form) => VerdictIsAcceptable
<1> DEFINE listed == {form.items[i].point : i \in DOMAIN form.items}
           short == form.items = <<>> /\ form.decision = "approve"
<1> SUFFICES ASSUME IsForm(form),
                    DOMAIN form.samples = Sampled,
                    short \/ (listed = Sampled /\ Len(form.items) = Cardinality(Sampled)),
                    \A i \in DOMAIN form.items :
                      form.items[i].result =
                        IF form.samples[form.items[i].point] THEN "passed" ELSE "failed",
                    form.decision = "approve" <=> \A id \in Sampled : form.samples[id]
             PROVE  Accepted(form)
  BY DEF VerdictIsAcceptable
<1>1. ItemCount(form) = Cardinality(Sampled)
  BY DEF ItemCount
<1>2. NoDuplicates(form)
  <2>1. CASE form.items = <<>>
    <3>1. DOMAIN form.items = {}
      BY <2>1
    <3> QED
      BY <3>1 DEF NoDuplicates
  <2>2. CASE form.items # <<>>
    BY <2>2, EachConcludedOnce
  <2> QED
    BY <2>1, <2>2
<1>3. \A c \in Items(form) :
        /\ c.point \in Sampled
        /\ c.result = IF form.samples[c.point] THEN "passed" ELSE "failed"
  <2>1. CASE short
    BY <2>1 DEF Items
  <2>2. CASE ~short
    <3>1. Items(form) = {form.items[i] : i \in DOMAIN form.items}
      BY <2>2 DEF Items
    <3> QED
      BY <2>2, <3>1
  <2> QED
    BY <2>1, <2>2
<1>4. \A id \in Sampled : \E c \in Items(form) : c.point = id
  <2>1. CASE short
    <3>1. Items(form) = {[point |-> id, result |-> "passed"] : id \in Sampled}
      BY <2>1 DEF Items
    <3>2. ASSUME NEW id \in Sampled PROVE \E c \in Items(form) : c.point = id
      <4> DEFINE c == [point |-> id, result |-> "passed"]
      <4>1. c \in Items(form) /\ c.point = id
        BY <3>1
      <4> HIDE DEF c
      <4> QED
        BY <4>1
    <3> QED
      BY <3>2
  <2>2. CASE ~short
    BY <2>2 DEF Items
  <2> QED
    BY <2>1, <2>2
<1>5. Agrees(form)
  BY <1>3 DEF Agrees
<1>6. Failed(form) = {id \in Sampled : ~form.samples[id]}
  BY <1>3, <1>4 DEF Failed
<1>7. form.decision = "approve" <=> Failed(form) = {}
  BY <1>6
<1> QED
  BY <1>1, <1>2, <1>5, <1>7 DEF Accepted

-------------------------------------------------------------------------------
(* Batches                                                                  *)

LEMMA RowFacts ==
  ASSUME NEW R \in Seq(Row)
  PROVE  /\ Len(R) \in Nat
         /\ DOMAIN R = 1..Len(R)
         /\ R = <<>> <=> Len(R) = 0
         /\ IsFiniteSet({R[i] : i \in DOMAIN R})
         /\ \A i \in DOMAIN R : R[i].fault \in {"none", "actor", "note"}
<1> DEFINE g == [i \in 1..Len(R) |-> R[i]]
           S == {R[i] : i \in DOMAIN R}
<1>1. Len(R) \in Nat /\ DOMAIN R = 1..Len(R) /\ (R = <<>> <=> Len(R) = 0)
  OBVIOUS
<1>2. IsFiniteSet(1..Len(R))
  BY <1>1, FS_Interval
<1>3. g \in Surjection(1..Len(R), S)
  BY <1>1 DEF Surjection
<1>4. IsFiniteSet(S)
  BY <1>2, <1>3, FS_Surjection
<1>5. ASSUME NEW i \in DOMAIN R PROVE R[i].fault \in {"none", "actor", "note"}
  <2>1. R[i] \in Row
    OBVIOUS
  <2> QED
    BY <2>1 DEF Row
<1> HIDE DEF S
<1>6. \A i \in DOMAIN R : R[i].fault \in {"none", "actor", "note"}
  BY <1>5
<1> QED
  BY <1>1, <1>4, <1>6 DEF S

(* The rows of a list have as many members as places exactly if no two     *)
(* places have the same row.                                               *)
LEMMA DistinctRows ==
  ASSUME NEW R \in Seq(Row)
  PROVE  Cardinality({R[i] : i \in DOMAIN R}) = Len(R) <=>
           \A i, k \in DOMAIN R : R[i] = R[k] => i = k
<1> DEFINE n == Len(R)
           g == [i \in 1..n |-> R[i]]
           S == {R[i] : i \in DOMAIN R}
<1>1. n \in Nat /\ DOMAIN R = 1..n
  BY RowFacts
<1>2. g \in Surjection(1..n, S)
  BY <1>1 DEF Surjection
<1>3. IsFiniteSet(1..n) /\ Cardinality(1..n) = n
  BY <1>1, FS_Interval
<1>4. Cardinality(S) = n <=> g \in Injection(1..n, S)
  BY <1>2, <1>3, FS_Surjection
<1>5. g \in Injection(1..n, S) <=> \A i, k \in 1..n : g[i] = g[k] => i = k
  <2>1. g \in [1..n -> S]
    BY <1>2 DEF Surjection
  <2> QED
    BY <2>1 DEF Injection, IsInjective
<1>6. \A i \in 1..n : g[i] = R[i]
  OBVIOUS
<1> HIDE DEF g, S, n
<1>7. Cardinality(S) = n <=> \A i, k \in DOMAIN R : R[i] = R[k] => i = k
  BY <1>1, <1>4, <1>5, <1>6
<1> QED
  BY <1>7 DEF S, n

(* A row without errors of its own. *)
OwnInOrder(r) ==
  /\ r.fault = "none"
  /\ r.id \notin ExistingIds \cup {NoRowId}
  /\ InBounds(r.pix)
  /\ r.pix \notin ExistingPixels

LEMMA OwnErrorsNone ==
  ASSUME NEW R \in Seq(Row), NEW i \in DOMAIN R
  PROVE  OwnErrors(R, i) = {} <=> OwnInOrder(R[i])
<1>1. R[i].fault \in {"none", "actor", "note"}
  BY RowFacts
<1> DEFINE r == R[i]
           C == (IF r.id = NoRowId THEN {"point_id_required"} ELSE {}) \cup
                (IF r.id \in ExistingIds THEN {"point_id_conflict"} ELSE {}) \cup
                (IF r.fault = "actor" THEN {"operator_invalid"} ELSE {}) \cup
                (IF r.fault = "note" THEN {"evidence_required"} ELSE {}) \cup
                (IF ~InBounds(r.pix) THEN {"pixel_out_of_bounds"} ELSE {}) \cup
                (IF r.pix \in ExistingPixels THEN {"pixel_conflict"} ELSE {})
<1>2. OwnErrors(R, i) = {<<i, code>> : code \in C}
  BY DEF OwnErrors
<1> HIDE DEF r
<1>3. C = {} <=> OwnInOrder(r)
  BY <1>1 DEF OwnInOrder, r
<1> HIDE DEF C
<1>4. OwnErrors(R, i) = {} <=> C = {}
  BY <1>2
<1> QED
  BY <1>3, <1>4 DEF r

LEMMA DuplicatesNone ==
  ASSUME NEW R
  PROVE  Duplicates(R) = {} <=>
           \A i, k \in DOMAIN R : i # k => R[i].id # R[k].id /\ R[i].pix # R[k].pix
  BY DEF Duplicates

(* ImportableAsSet: the walk over the list finds no error exactly if the   *)
(* rows are those of a set that may be added at once.                      *)
LEMMA ImportableIffSet == rows \in Seq(Row) => ImportableAsSet
<1> SUFFICES ASSUME rows \in Seq(Row) PROVE ImportableAsSet
  OBVIOUS
<1> DEFINE S == {rows[i] : i \in DOMAIN rows}
<1>1. Len(rows) \in Nat /\ (rows = <<>> <=> Len(rows) = 0)
  BY RowFacts
<1>2. SizeErrors(rows) = {} <=> Len(rows) \in 1..MaxBatch
  BY DEF SizeErrors
<1>3. (\A i \in DOMAIN rows : OwnErrors(rows, i) = {}) <=> \A r \in S : OwnInOrder(r)
  BY OwnErrorsNone
<1>4. Errors(rows) = {} <=>
        /\ Len(rows) \in 1..MaxBatch
        /\ \A r \in S : OwnInOrder(r)
        /\ Duplicates(rows) = {}
  <2>1. Errors(rows) = {} <=>
          /\ SizeErrors(rows) = {}
          /\ \A i \in DOMAIN rows : OwnErrors(rows, i) = {}
          /\ Duplicates(rows) = {}
    BY DEF Errors
  <2> HIDE DEF S
  <2> QED
    BY <1>2, <1>3, <2>1
<1>5. Duplicates(rows) = {} <=>
        /\ Cardinality(S) = Len(rows)
        /\ \A r, q \in S : r # q => r.id # q.id /\ r.pix # q.pix
  BY DistinctRows, DuplicatesNone
<1> QED
  BY <1>1, <1>4, <1>5 DEF ImportableAsSet, OwnInOrder

(* A row that the preview takes: in order, and like no other row. *)
Taken(R, i) ==
  /\ OwnInOrder(R[i])
  /\ \A k \in DOMAIN R : k # i => R[k].id # R[i].id /\ R[k].pix # R[i].pix

LEMMA ValidRowsAreTaken ==
  ASSUME NEW R \in Seq(Row), NEW i \in DOMAIN R
  PROVE  i \in ValidRows(R) <=> Taken(R, i)
<1>1. i \in Nat /\ i # 0 /\ DOMAIN R \subseteq Nat
  <2>1. Len(R) \in Nat /\ DOMAIN R = 1..Len(R)
    BY RowFacts
  <2> QED
    BY <2>1
<1>2. \A e \in SizeErrors(R) : e[1] # i
  BY <1>1 DEF SizeErrors
<1>3. (\A e \in Duplicates(R) : e[1] # i) <=>
        \A k \in DOMAIN R : k # i => R[k].id # R[i].id /\ R[k].pix # R[i].pix
  <2> DEFINE I == {m \in DOMAIN R : \E k \in DOMAIN R \ {m} : R[k].id = R[m].id}
             P == {m \in DOMAIN R : \E k \in DOMAIN R \ {m} : R[k].pix = R[m].pix}
  <2>1. Duplicates(R) = {<<m, "batch_point_id_duplicate">> : m \in I} \cup
                        {<<m, "batch_pixel_duplicate">> : m \in P}
    BY DEF Duplicates
  <2>2. i \notin I /\ i \notin P <=>
          \A k \in DOMAIN R : k # i => R[k].id # R[i].id /\ R[k].pix # R[i].pix
    OBVIOUS
  <2> HIDE DEF I, P
  <2>3. (\A e \in Duplicates(R) : e[1] # i) <=> i \notin I /\ i \notin P
    <3>1. \A m \in I : <<m, "batch_point_id_duplicate">> \in Duplicates(R)
      BY <2>1
    <3>2. \A m \in P : <<m, "batch_pixel_duplicate">> \in Duplicates(R)
      BY <2>1
    <3>3. \A e \in Duplicates(R) : e[1] \in I \/ e[1] \in P
      BY <2>1
    <3> QED
      BY <3>1, <3>2, <3>3
  <2> QED
    BY <2>2, <2>3
<1>4. ASSUME NEW k \in DOMAIN R
      PROVE  (\A e \in OwnErrors(R, k) : e[1] # i) <=>
               (k = i => OwnErrors(R, k) = {})
  BY DEF OwnErrors
<1>5. (\A e \in Errors(R) : e[1] # i) <=>
        /\ \A e \in SizeErrors(R) : e[1] # i
        /\ \A e \in Duplicates(R) : e[1] # i
        /\ \A k \in DOMAIN R : \A e \in OwnErrors(R, k) : e[1] # i
  BY DEF Errors
<1>6. i \in ValidRows(R) <=>
        OwnErrors(R, i) = {} /\ \A e \in Duplicates(R) : e[1] # i
  BY <1>2, <1>4, <1>5 DEF ValidRows
<1> QED
  BY <1>3, <1>6, OwnErrorsNone DEF Taken

(* ProjectionIsSound: what a preview projects has one point to an id and   *)
(* to a pixel, and is the same for the rows in reverse.                    *)
LEMMA RowsAreProjectedSoundly == rows \in Seq(Row) => ProjectionIsSound
<1> SUFFICES ASSUME rows \in Seq(Row) PROVE ProjectionIsSound
  OBVIOUS
<1> DEFINE n == Len(rows)
           reversed == [i \in 1..n |-> rows[n + 1 - i]]
           kept == {[id |-> p.id, pix |-> p.pix] : p \in {q \in Existing : q.active}}
           added(R) == {[id |-> R[i].id, pix |-> R[i].pix] : i \in ValidRows(R)}
<1>1. n \in Nat /\ DOMAIN rows = 1..n
  BY RowFacts
<1>2. ASSUME NEW i \in 1..n PROVE n + 1 - i \in 1..n /\ n + 1 - (n + 1 - i) = i
  BY <1>1
<1>3. \A i \in 1..n : rows[i] \in Row
  BY <1>1
<1>4. reversed \in Seq(Row) /\ DOMAIN reversed = 1..n
  BY <1>1, <1>2, <1>3
<1>5. \A i \in 1..n : reversed[i] = rows[n + 1 - i]
  OBVIOUS
<1>6. ASSUME NEW i \in 1..n
      PROVE  Taken(reversed, i) <=> Taken(rows, n + 1 - i)
  <2> DEFINE c == n + 1 - i
  <2>1. c \in 1..n /\ reversed[i] = rows[c]
    BY <1>2, <1>5
  <2>2. ASSUME Taken(reversed, i), NEW k \in 1..n, k # c
        PROVE  rows[k].id # rows[c].id /\ rows[k].pix # rows[c].pix
    <3>1. n + 1 - k \in 1..n /\ reversed[n + 1 - k] = rows[k]
      BY <1>2, <1>5
    <3>2. n + 1 - k # i
      BY <1>1, <2>2
    <3> QED
      BY <1>4, <2>1, <2>2, <3>1, <3>2 DEF Taken
  <2>3. ASSUME Taken(rows, c), NEW k \in 1..n, k # i
        PROVE  reversed[k].id # reversed[i].id /\ reversed[k].pix # reversed[i].pix
    <3>1. n + 1 - k \in 1..n /\ reversed[k] = rows[n + 1 - k]
      BY <1>2, <1>5
    <3>2. n + 1 - k # c
      BY <1>1, <2>3
    <3> QED
      BY <1>1, <2>1, <2>3, <3>1, <3>2 DEF Taken
  <2> HIDE DEF c, reversed
  <2>4. Taken(reversed, i) <=> Taken(rows, c)
    BY <1>1, <1>4, <2>1, <2>2, <2>3 DEF Taken
  <2> QED
    BY <2>4 DEF c
<1> HIDE DEF reversed
<1>7. added(reversed) = added(rows)
  <2>1. \A i \in 1..n : i \in ValidRows(rows) <=> Taken(rows, i)
    BY <1>1, ValidRowsAreTaken
  <2>2. \A i \in 1..n : i \in ValidRows(reversed) <=> Taken(reversed, i)
    BY <1>4, ValidRowsAreTaken
  <2>3. ValidRows(rows) \subseteq 1..n /\ ValidRows(reversed) \subseteq 1..n
    BY <1>1, <1>4 DEF ValidRows
  <2>4. ASSUME NEW x \in added(reversed) PROVE x \in added(rows)
    <3>1. PICK i \in ValidRows(reversed) :
            x = [id |-> reversed[i].id, pix |-> reversed[i].pix]
      OBVIOUS
    <3>2. i \in 1..n /\ n + 1 - i \in 1..n
      BY <1>2, <2>3
    <3>3. n + 1 - i \in ValidRows(rows)
      BY <1>6, <2>1, <2>2, <3>2
    <3> QED
      BY <1>5, <3>1, <3>2, <3>3
  <2>5. ASSUME NEW x \in added(rows) PROVE x \in added(reversed)
    <3>1. PICK i \in ValidRows(rows) :
            x = [id |-> rows[i].id, pix |-> rows[i].pix]
      OBVIOUS
    <3> DEFINE c == n + 1 - i
    <3>2. i \in 1..n /\ c \in 1..n /\ n + 1 - c = i
      BY <1>2, <2>3
    <3> HIDE DEF c
    <3>3. c \in ValidRows(reversed)
      BY <1>6, <2>1, <2>2, <3>2
    <3>4. reversed[c] = rows[i]
      BY <1>5, <3>2
    <3> QED
      BY <3>1, <3>3, <3>4
  <2> QED
    BY <2>4, <2>5
<1>8. Projected(reversed) = Projected(rows)
  <2>1. Projected(reversed) = kept \cup added(reversed)
    BY DEF Projected
  <2>2. Projected(rows) = kept \cup added(rows)
    BY DEF Projected
  <2> HIDE DEF kept, added
  <2> QED
    BY <1>7, <2>1, <2>2
<1>9. ASSUME NEW p \in Projected(rows), NEW q \in Projected(rows),
             p.id = q.id \/ p.pix = q.pix
      PROVE  p = q
  <2>1. p \in kept \/ p \in added(rows)
    BY DEF Projected
  <2>2. q \in kept \/ q \in added(rows)
    BY DEF Projected
  <2>3. ASSUME NEW x \in kept
        PROVE  \E e \in Existing : e.active /\ x = [id |-> e.id, pix |-> e.pix]
    OBVIOUS
  <2>4. ASSUME NEW x \in added(rows)
        PROVE  \E i \in DOMAIN rows :
                 Taken(rows, i) /\ x = [id |-> rows[i].id, pix |-> rows[i].pix]
    <3>1. PICK i \in ValidRows(rows) :
            x = [id |-> rows[i].id, pix |-> rows[i].pix]
      OBVIOUS
    <3>2. i \in DOMAIN rows
      BY DEF ValidRows
    <3> QED
      BY <3>1, <3>2, ValidRowsAreTaken
  <2> HIDE DEF kept, added
  <2>5. ASSUME NEW x \in kept, NEW y \in kept, x.id = y.id \/ x.pix = y.pix
        PROVE  x = y
    BY <2>3, <2>5, BatchAssumption
  <2>6. ASSUME NEW x \in added(rows), NEW y \in added(rows),
               x.id = y.id \/ x.pix = y.pix
        PROVE  x = y
    BY <2>4, <2>6 DEF Taken
  <2>7. ASSUME NEW x \in kept, NEW y \in added(rows)
        PROVE  x.id # y.id /\ x.pix # y.pix
    <3>1. x.id \in ExistingIds /\ x.pix \in ExistingPixels
      BY <2>3 DEF ExistingIds, ExistingPixels
    <3>2. y.id \notin ExistingIds /\ y.pix \notin ExistingPixels
      BY <2>4 DEF Taken, OwnInOrder
    <3> QED
      BY <3>1, <3>2
  <2> QED
    BY <1>9, <2>1, <2>2, <2>5, <2>6, <2>7
<1> HIDE DEF n
<1> QED
  BY <1>8, <1>9 DEF ProjectionIsSound, reversed, n

-------------------------------------------------------------------------------
(* A form as a reviewer fills it in, and a batch as it is typed.            *)

FormSpec ==
  /\ \E decision \in {"approve", "reject"} : form = BlankForm(decision)
  /\ [][Mark \/ Conclude]_form

BatchSpec == rows = <<>> /\ [][EnterRow]_rows

LEMMA FormStep == IsForm(form) /\ [Mark \/ Conclude]_form => IsForm(form)'
<1> SUFFICES ASSUME IsForm(form), [Mark \/ Conclude]_form PROVE IsForm(form)'
  OBVIOUS
<1>1. PICK D \in SUBSET FormIds :
        form \in [decision : {"approve", "reject"}, samples : [D -> BOOLEAN],
                  items : Seq(Conclusion)]
  BY DEF IsForm
<1>2. CASE Mark
  <2>1. PICK id \in FormIds, passed \in BOOLEAN :
          form' = [form EXCEPT !.samples =
                     [x \in DOMAIN form.samples \cup {id} |->
                        IF x = id THEN passed ELSE form.samples[x]]]
    BY <1>2 DEF Mark
  <2> DEFINE E == D \cup {id}
             marked == [x \in E |-> IF x = id THEN passed ELSE form.samples[x]]
  <2>2. E \in SUBSET FormIds /\ marked \in [E -> BOOLEAN]
    BY <1>1
  <2>3. form' = [form EXCEPT !.samples = marked]
    BY <1>1, <2>1
  <2> HIDE DEF E, marked
  <2>4. form' \in [decision : {"approve", "reject"}, samples : [E -> BOOLEAN],
                   items : Seq(Conclusion)]
    BY <1>1, <2>2, <2>3
  <2> QED
    BY <2>2, <2>4 DEF IsForm
<1>3. CASE Conclude
  <2>1. PICK c \in Conclusion : form' = [form EXCEPT !.items = Append(@, c)]
    BY <1>3 DEF Conclude
  <2>2. Append(form.items, c) \in Seq(Conclusion)
    BY <1>1
  <2>3. form' \in [decision : {"approve", "reject"}, samples : [D -> BOOLEAN],
                   items : Seq(Conclusion)]
    BY <1>1, <2>1, <2>2
  <2> QED
    BY <2>3 DEF IsForm
<1>4. CASE UNCHANGED form
  BY <1>4 DEF IsForm
<1> QED
  BY <1>2, <1>3, <1>4

LEMMA FormsAreForms == FormSpec => []IsForm(form)
<1>1. (\E decision \in {"approve", "reject"} : form = BlankForm(decision)) => IsForm(form)
  <2> SUFFICES ASSUME NEW decision \in {"approve", "reject"}, form = BlankForm(decision)
               PROVE  IsForm(form)
    OBVIOUS
  <2>1. [id \in {} |-> TRUE] \in [{} -> BOOLEAN] /\ <<>> \in Seq(Conclusion)
    OBVIOUS
  <2>2. form \in [decision : {"approve", "reject"}, samples : [{} -> BOOLEAN],
                  items : Seq(Conclusion)]
    BY <2>1 DEF BlankForm
  <2> QED
    BY <2>2 DEF IsForm
<1> QED
  BY <1>1, FormStep, PTL DEF FormSpec

LEMMA RowsAreRows == BatchSpec => [](rows \in Seq(Row))
<1>1. rows \in Seq(Row) /\ [EnterRow]_rows => (rows \in Seq(Row))'
  BY DEF EnterRow
<1>2. rows = <<>> => rows \in Seq(Row)
  OBVIOUS
<1> QED
  BY <1>1, <1>2, PTL DEF BatchSpec

(* AcceptedIsVerdict: what Review accepts tells of each sampled point once  *)
(* and the same in the map and in the list.                                 *)
THEOREM AcceptedFormsAreVerdicts == FormSpec => []AcceptedIsVerdict
  BY FormsAreForms, AcceptedFormIsVerdict, PTL

(* VerdictIsAcceptable: a verdict on the sample is not refused for the way  *)
(* it is written down.                                                      *)
THEOREM VerdictsAreAccepted == FormSpec => []VerdictIsAcceptable
  BY FormsAreForms, VerdictIsAccepted, PTL

(* ImportableAsSet: what buildBatchPreview finds without error is what      *)
(* Registration takes for a batch.                                          *)
THEOREM BatchesAreSets == BatchSpec => []ImportableAsSet
  BY RowsAreRows, ImportableIffSet, PTL

(* ProjectionIsSound: a preview projects one point to an id and to a pixel, *)
(* whatever is wrong with the other rows and in whatever order they come.   *)
THEOREM ProjectionsAreSound == BatchSpec => []ProjectionIsSound
  BY RowsAreRows, RowsAreProjectedSoundly, PTL
===============================================================================
