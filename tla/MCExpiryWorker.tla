--------------------------- MODULE MCExpiryWorker ---------------------------
(* Two journeys, one of which expires before the other. *)
EXTENDS ExpiryWorker

CONSTANTS early, late

MCJourneys == {early, late}
MCExpiresAt == [j \in MCJourneys |-> IF j = early THEN 1 ELSE 2]

=============================================================================
