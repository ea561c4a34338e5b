CONSTANTS
  Visitors = {v1, v2}
  Guests = {v2}
  Host = host
  Worker = worker
  Slots = {s1, worker}
  Ops = {"Start", "Cancel", "Complete", "Join", "Grant", "Revoke", "StartSharing", "Leave", "Arrive", "Remove", "Upload", "StopAll", "Delete"}
  ExpiresAt = 1
  MaxTime = 2
  MaxRows = 2
SPECIFICATION Spec
INVARIANTS DeletionEndsSharing
PROPERTIES ContractHolds FinishedVisitorStays StopSharingAccepted
\* Every account may be deleted, and then nobody can send a request.
CHECK_DEADLOCK FALSE
