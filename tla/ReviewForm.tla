------------------------------ MODULE ReviewForm ------------------------------
(***************************************************************************)
(* The checks of a reviewer's form (app/review.go).  A form tells twice of *)
(* every sampled point whether it passed: in a map, and in a list of       *)
(* conclusions with the reasons; an approval may leave the list out.       *)
(* Registration has the outcome, the set of failed points.                 *)
(***************************************************************************)
EXTENDS Naturals, Sequences, FiniteSets

CONSTANTS
  Sampled,       \* the ids of the sample drawn from the points
  FormIds,       \* the ids that a form may name
  MaxConclusions \* bound of the model: the length of the list

ASSUME FormAssumption ==
  /\ Sampled \subseteq FormIds
  /\ IsFiniteSet(FormIds)
  /\ MaxConclusions >= Cardinality(Sampled)

VARIABLE form

(* "bare" is a failure without its issue type or without its note. *)
Conclusion == [point : FormIds, result : {"passed", "failed", "bare"}]

(* Samples is a partial map, Items a list, as in ReviewCommand. *)
BlankForm(decision) ==
  [decision |-> decision, samples |-> [id \in {} |-> TRUE], items |-> <<>>]

Mark ==
  \E id \in FormIds, passed \in BOOLEAN :
    /\ form.items = <<>>
    /\ id \notin DOMAIN form.samples
    /\ form' = [form EXCEPT !.samples =
                  [x \in DOMAIN form.samples \cup {id} |->
                     IF x = id THEN passed ELSE form.samples[x]]]

Conclude ==
  /\ Len(form.items) < MaxConclusions
  /\ \E c \in Conclusion : form' = [form EXCEPT !.items = Append(@, c)]

-------------------------------------------------------------------------------

(* An approval without a list approves every point of the sample. *)
Items(f) ==
  IF f.items = <<>> /\ f.decision = "approve"
  THEN {[point |-> id, result |-> "passed"] : id \in Sampled}
  ELSE {f.items[i] : i \in DOMAIN f.items}

(* Mistake: the list is counted as it came. *)
ListLength(f) == Len(f.items)

ItemCount(f) ==
  IF f.items = <<>> /\ f.decision = "approve"
  THEN Cardinality(Sampled) ELSE Len(f.items)

(* Mistake: as many conclusions as points are taken to be one of each. *)
AnyConclusions(f) == TRUE

(* No point is concluded twice. *)
NoDuplicates(f) ==
  \A i, k \in DOMAIN f.items : f.items[i].point = f.items[k].point => i = k

(* Each conclusion says what the map says, and a failure says why. *)
Agrees(f) ==
  \A c \in Items(f) :
    /\ c.point \in DOMAIN f.samples
    /\ f.samples[c.point] <=> c.result = "passed"
    /\ c.result # "bare"

Failed(f) == {c.point : c \in {d \in Items(f) : d.result # "passed"}}

(* Review gives its verdict on the form. *)
Accepted(f) ==
  /\ Cardinality(DOMAIN f.samples) = Cardinality(Sampled)
  /\ Sampled \subseteq DOMAIN f.samples
  /\ ItemCount(f) = Cardinality(Sampled)
  /\ NoDuplicates(f)
  /\ Agrees(f)
  /\ f.decision = "approve" <=> Failed(f) = {}

-------------------------------------------------------------------------------
(* An accepted form is a verdict: its map is defined on the sample and     *)
(* nothing else, every failed point has one instruction with its reasons   *)
(* and no other point has one, and it approves exactly if none failed.     *)
(* With lengths compared instead of sets this depends on all the checks    *)
(* together.                                                               *)
AcceptedIsVerdict ==
  Accepted(form) =>
    /\ DOMAIN form.samples = Sampled
    /\ Failed(form) = {id \in Sampled : ~form.samples[id]}
    /\ \A id \in Failed(form) :
         Cardinality({i \in DOMAIN form.items : form.items[i].point = id}) = 1
    /\ form.decision = "approve" <=> \A id \in Sampled : form.samples[id]

(* Every verdict has a form that is accepted: a map on the sample with a   *)
(* conclusion for each of its points, in any order, is never refused, nor  *)
(* is an approval without a list.                                          *)
VerdictIsAcceptable ==
  LET listed == {form.items[i].point : i \in DOMAIN form.items}
  IN /\ DOMAIN form.samples = Sampled
     /\ \/ form.items = <<>> /\ form.decision = "approve"
        \/ listed = Sampled /\ Len(form.items) = Cardinality(Sampled)
     /\ \A i \in DOMAIN form.items :
          form.items[i].result =
            IF form.samples[form.items[i].point] THEN "passed" ELSE "failed"
     /\ form.decision = "approve" <=> \A id \in Sampled : form.samples[id]
     => Accepted(form)
===============================================================================
