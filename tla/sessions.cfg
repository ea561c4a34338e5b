CONSTANTS
  Calls = {c1, c2}
  User = user
  Slots = {c1, c2, user}
  MaxTokens = 3
SPECIFICATION SessionSpec
INVARIANTS AuthTypeOK NothingIssuedLate
PROPERTIES CallsSettle SignedOffUntilSignIn
\* The tokens run out.
CHECK_DEADLOCK FALSE
