CONSTANTS
  PointIds <- MCPointIds
  Pixels <- MCPixels
  Maps <- MCMaps
  Rows <- OneRows
  Batches <- OneBatches
  Baselines = {"one"}
  SamePixel <- MCSamePixel
  Evidenced <- MCEvidenced
  InImage <- MCInImage
  Quadrant <- MCQuadrant
  Regular <- MCRegular
  Finite <- MCFinite
  RMSEOver <- MCRMSEOver
  Outliers <- MCOutliers
  Sample <- MCSample
  Actors = {"op", "rev"}
  Operator = "op"
  MaxRevision = 12
  NoId = NoId
  None = None
SPECIFICATION Spec
INVARIANTS
  TypeOK
  Integrity
  SubmittedEvidence
  PublishedEvidence
  VerdictTracksSubmission
  OneItemPerPoint
  ReplacementLineage
  InstructionTracksItem
  NeedsFixHasCause
PROPERTIES
  KeepsPromise
  FollowsLifecycle
  EvidenceRetained
  StrandedForGood
CHECK_DEADLOCK FALSE
