CONSTANTS
  Jobs = {"j"}
  Commands <- Racing
  Confirms <- PreviewedFirst
  Handlers = {h1, h2}
  Free = Free
  None = None
SPECIFICATION Spec
INVARIANTS
  TypeOK
  ToldIsDurable
  ReadsAreCurrent
  ConflictIsFinal
PROPERTIES
  KeepsLedger
SYMMETRY Symmetry
