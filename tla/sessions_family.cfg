CONSTANTS
  Slots = {s1, s2}
  MaxTokens = 4
SPECIFICATION AuthSpec
INVARIANT ExchangedOnce
\* The tokens run out.
CHECK_DEADLOCK FALSE
