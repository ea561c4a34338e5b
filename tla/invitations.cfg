CONSTANTS
  Users = {u1}
  Guest = guest
  Slots = {s1, s2}
  MaxUses = 3
  MaxVisitors = 2
  MaxRows = 6
SPECIFICATION InvitationSpec
INVARIANTS UsesNeverOverstated VisitorsNearLimit AccountRowsFromOverlap
PROPERTIES VoidLinkRefused
\* The participants of the bound have joined and left.
CHECK_DEADLOCK FALSE
