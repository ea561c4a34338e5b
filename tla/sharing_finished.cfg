CONSTANTS
  Visitors = {v1}
  Guests = {v1}
  Host = host
  Worker = worker
  Slots = {s1, s2}
  Ops = {"Start", "Cancel", "Complete", "Join", "Grant", "Revoke", "StartSharing", "Leave", "Arrive", "Remove", "Upload", "StopAll", "Delete"}
  ExpiresAt = 1
  MaxTime = 2
  MaxRows = 2
SPECIFICATION Spec

PROPERTY FinishedVisitorStays
\* Both accounts may be deleted, and then nobody can send a request.
CHECK_DEADLOCK FALSE
