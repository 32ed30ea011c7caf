CONSTANTS
  Jobs = {j, k}
  Batches = {"some", "more"}
  Faulty <- MCFaulty
  MaxRevision = 2
  MaxInFlight = 2
  None = None
SPECIFICATION Spec
INVARIANT ConfirmedIsFrozen
SYMMETRY Symmetry
CHECK_DEADLOCK FALSE
