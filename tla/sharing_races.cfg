CONSTANTS
  Visitors = {v1}
  Guests = {}
  Host = host
  Worker = worker
  Slots = {s1, s2, worker}
  Ops = {"Start", "Join", "Grant", "Revoke", "StartSharing", "Arrive", "Upload", "Delete"}
  ExpiresAt = 1
  MaxTime = 1
  MaxRows = 2
SPECIFICATION HistorySpec
INVARIANTS TypeOK NoSharingWithoutConsent
PROPERTIES ConsentNeverRevived AcceptedWhileAuthorized StartedWhileInvited DeletionFinal RequestsAnswered
\* Both accounts may be deleted, and then nobody can send a request.
CHECK_DEADLOCK FALSE
