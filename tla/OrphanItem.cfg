CONSTANTS
  PointIds <- MCPointIds
  Pixels <- MCPixels
  Maps <- MCMaps
  Rows <- OneRows
  Batches <- OneBatches
  Baselines = {"one"}
  SamePixel <- MCSamePixel
  Evidenced <- MCEvidenced
  InImage <- MCInImage
  Quadrant <- MCQuadrant
  Regular <- MCRegular
  Finite <- MCFinite
  RMSEOver <- MCRMSEOver
  Outliers <- MCOutliers
  Sample <- MCSample
  Actors = {"op", "rev"}
  Operator = "op"
  MaxRevision = 10
  NoId = NoId
  None = None
SPECIFICATION Spec
INVARIANT OpenItemRemediable
CHECK_DEADLOCK FALSE
