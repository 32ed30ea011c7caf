CONSTANTS
  Jobs = {"j"}
  Commands <- Reusing
  Confirms <- PreviewedFirst
  Handlers = {h1, h2}
  Free = Free
  None = None
SPECIFICATION Spec
INVARIANT AnswersTheOperation
