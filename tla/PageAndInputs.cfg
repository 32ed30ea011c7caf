CONSTANTS
  Jobs = {j, k}
  Batches = {"some", "more"}
  Faulty <- MCFaulty
  MaxRevision = 2
  MaxInFlight = 2
  None = None
  Width = 2
  Height = 3
  Xs = {0, 1, 2}
  Ys = {0, 3}
  MaxPoints = 5
  HashRank <- MCHashRank
  Existing <- MCExisting
  RowIds <- MCRowIds
  NoRowId = ""
  RowPixels <- MCRowPixels
  InBounds <- MCInBounds
  MaxBatch = 2
  MaxRows = 3
  Sampled = {"a", "b"}
  FormIds = {"a", "b", "c"}
  MaxConclusions = 3
SPECIFICATION SpecAll
INVARIANTS
  ImportWasPreflighted
  LandsUnlessOvertaken
  CoverageAgrees
  ReadyFits
  SampleIsOfTheSet
  SampleSpreads
  ImportableAsSet
  ProjectionIsSound
  AcceptedIsVerdict
  VerdictIsAcceptable
SYMMETRY Symmetry
CHECK_DEADLOCK FALSE
