CONSTANTS
  Calls = {c1, c2, c3, c4}
  Limit = 2
  Window = 1
  MaxTime = 1
  Points = {p1, p2}
  None = None
  OthersMax = 1
  MaxInFlight = 2
  MaxFaults = 1
SPECIFICATION IngestionSpec
INVARIANTS IngestionTypeOK CopyMatchesRow AdmittedWithinLimit
PROPERTIES RefusedOnlyIfBusy SoleUploadStored
SYMMETRY Symmetric
\* Every upload may be over, and the clock at its bound.
CHECK_DEADLOCK FALSE
