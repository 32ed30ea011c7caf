CONSTANTS
  PointIds <- MCPointIds
  Pixels <- MCPixels
  Maps <- MCMaps
  Rows <- OneRows
  Batches <- OneBatches
  Baselines = {"one", "two"}
  SamePixel <- MCSamePixel
  Evidenced <- MCEvidenced
  InImage <- MCInImage
  Quadrant <- MCQuadrant
  Regular <- MCRegular
  Finite <- MCFinite
  RMSEOver <- MCRMSEOver
  Outliers <- MCOutliers
  Sample <- MCSample
  Actors = {"op", "rev"}
  Operator = "op"
  MaxRevision = 10
  NoId = NoId
  None = None
SPECIFICATION SpecNoRestart
INVARIANTS
  CurrentFresh
  EvaluationReproducible
  OffersMatchCommands
CHECK_DEADLOCK FALSE
