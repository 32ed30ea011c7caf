CONSTANTS
  Jobs = {"j", "k"}
  Commands <- Sharing
  Confirms <- PreviewedFirst
  Handlers = {h1, h2}
  Free = Free
  None = None
SPECIFICATION FairSpec
INVARIANT
  WaitsEnd
PROPERTIES
  KeepsLedger
  HandlersFinish
