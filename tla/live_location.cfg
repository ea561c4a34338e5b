SPECIFICATION LiveSpec
CONSTANTS
  MaxCalls = 2
  MaxFixes = 1
  Uploads = {u1}
INVARIANTS
  LiveTypeOK
  HiddenOnlyIfMisled
PROPERTIES
  OnlyRetriesAfterStop
  StopEndsUpdates
  StopIsForgotten
