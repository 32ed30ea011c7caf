------------------------------- MODULE MCInputs -------------------------------
(***************************************************************************)
(* The page at work, and the pure algorithms on all small inputs: a state  *)
(* is one of Page, or the input of one of the algorithms, put together     *)
(* step by step, while everything else is as it was initially.             *)
(***************************************************************************)
EXTENDS MCPage, Georef, BatchPreview, ReviewForm

MCHashRank == <<3, 1, 5, 2, 4>>

(* "old" is out of use and left its pixel free, "act" is in use. *)
MCExisting == {[id |-> "old", pix |-> "left", active |-> FALSE],
               [id |-> "act", pix |-> "taken", active |-> TRUE]}
MCRowIds == {"", "old", "new", "new2"}
MCRowPixels == {"left", "taken", "free", "out"}
MCInBounds(x) == x # "out"

BlankForms == {BlankForm(d) : d \in {"approve", "reject"}}

inputs == <<points, rows, form>>

PageIsIdle ==
  /\ server \in [Jobs -> {[rev |-> 1, state |-> "draft", has |-> {}]}]
  /\ current = None
  /\ dialog = None
  /\ batch = EmptyBatch
  /\ sent = {}
  /\ answers = {}

InitAll ==
  /\ Init
  /\ points = <<>>
  /\ rows = <<>>
  /\ form \in BlankForms

UsePage ==
  /\ points = <<>> /\ rows = <<>> /\ form = BlankForm("approve")
  /\ Next
  /\ UNCHANGED inputs

EditPoints ==
  /\ PageIsIdle /\ rows = <<>> /\ form = BlankForm("approve")
  /\ AddPoint \/ DeactivatePoint
  /\ UNCHANGED <<vars, rows, form>>

EnterRows ==
  /\ PageIsIdle /\ points = <<>> /\ form = BlankForm("approve")
  /\ EnterRow
  /\ UNCHANGED <<vars, points, form>>

EditForm ==
  /\ PageIsIdle /\ points = <<>> /\ rows = <<>>
  /\ Mark \/ Conclude
  /\ UNCHANGED <<vars, points, rows>>

NextAll == UsePage \/ EditPoints \/ EnterRows \/ EditForm

SpecAll == InitAll /\ [][NextAll]_<<vars, inputs>>
===============================================================================
