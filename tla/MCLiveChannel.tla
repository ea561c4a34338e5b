--------------------------- MODULE MCLiveChannel ---------------------------
(* Two journeys, one of which expires before the other; the later one has a *)
(* socket of its host and sockets of members.                               *)
EXTENDS LiveChannel

CONSTANTS early, late

MCJourneys == {early, late}
MCExpiresAt == [j \in MCJourneys |-> IF j = early THEN 1 ELSE 2]
MCJourneyOf == [k \in Sockets |-> late]

=============================================================================
