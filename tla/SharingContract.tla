--------------------------- MODULE SharingContract ---------------------------
(***************************************************************************)
(* What a client that sees one request after another can rely on: each     *)
(* operation of journey_service, participant_service, consent_service and  *)
(* location_service takes effect as a whole, on the current statuses.  A   *)
(* visitor shares from its first consent until it arrives, leaves or is    *)
(* removed, the journey completes with its last visitor, and a location is *)
(* accepted only under a live consent.                                     *)
(***************************************************************************)
EXTENDS Naturals, FiniteSets

CONSTANT Visitors

VARIABLES
  journey,    \* the journey's status
  pstatus,    \* each visitor's status, NONE before joining
  granted,    \* visitors with an active consent
  accepted,   \* visitors a location was accepted from
  lapsed      \* the journey's expiry time has come: no consent is active

contractVars == <<journey, pstatus, granted, accepted, lapsed>>

Live == {"INVITED", "ACTIVE"}
Pending == {"ACCEPTED", "ACTIVE"}

\* The consents left: those that are kept, or none once the journey has ended.  The
\* documents promise that none are (docs/privacy.md:23, and docs/api.md:47 of
\* completing), the services keep them all; the contract leaves it open.
Settle(kept) == granted' \in {kept, IF journey' \in Live THEN kept ELSE {}}

\* The journey completes when the visitor that finishes is the last one.
FinishVisitor(v, status) ==
  /\ pstatus' = [pstatus EXCEPT ![v] = status]
  /\ journey' = IF journey = "ACTIVE" /\ \A u \in Visitors \ {v} : pstatus[u] \notin Pending
                THEN "COMPLETED" ELSE journey
  /\ UNCHANGED <<accepted, lapsed>>

HostStarts ==
  /\ journey = "INVITED"
  /\ journey' = "ACTIVE"
  /\ UNCHANGED <<pstatus, granted, accepted, lapsed>>

HostEnds(status) ==
  /\ \/ status = "CANCELLED" /\ journey \in Live
     \/ status = "COMPLETED" /\ journey = "ACTIVE"
  /\ journey' = status
  /\ Settle(granted)
  /\ UNCHANGED <<pstatus, accepted, lapsed>>

VisitorJoins(v) ==
  /\ journey \in Live
  /\ pstatus[v] = "NONE"
  /\ pstatus' = [pstatus EXCEPT ![v] = "ACCEPTED"]
  /\ UNCHANGED <<journey, granted, accepted, lapsed>>

\* A consent given too late is recorded but is not active.
VisitorConsents(v) ==
  /\ journey \in Live
  /\ pstatus[v] # "NONE"
  /\ v \notin granted
  /\ granted' = IF lapsed THEN granted ELSE granted \cup {v}
  /\ pstatus' = [pstatus EXCEPT ![v] = IF @ = "ACCEPTED" THEN "ACTIVE" ELSE @]
  /\ UNCHANGED <<journey, accepted, lapsed>>

VisitorWithdraws(v) ==
  /\ v \in granted
  /\ granted' = granted \ {v}
  /\ UNCHANGED <<journey, pstatus, accepted, lapsed>>

\* docs/privacy.md:13 has leaving end the consent at once, the service keeps it; the
\* contract leaves this open too.
VisitorLeaves(v) ==
  /\ pstatus[v] \in Pending
  /\ FinishVisitor(v, "LEFT")
  /\ Settle(granted) \/ Settle(granted \ {v})

VisitorArrives(v) ==
  /\ pstatus[v] = "ACTIVE"
  /\ FinishVisitor(v, "ARRIVED")
  /\ Settle(granted \ {v})

HostRemoves(v) ==
  /\ pstatus[v] \in Pending
  /\ FinishVisitor(v, "REMOVED")
  /\ Settle(granted \ {v})

LocationAccepted(v) ==
  /\ journey = "ACTIVE"
  /\ pstatus[v] = "ACTIVE"
  /\ v \in granted
  /\ accepted' = accepted \cup {v}
  /\ UNCHANGED <<journey, pstatus, granted, lapsed>>

Lapse ==
  /\ ~lapsed
  /\ lapsed' = TRUE
  /\ granted' = {}
  /\ UNCHANGED <<journey, pstatus, accepted>>

ContractInit ==
  /\ journey = "INVITED"
  /\ pstatus = [v \in Visitors |-> "NONE"]
  /\ granted = {}
  /\ accepted = {}
  /\ lapsed \in BOOLEAN

ContractNext ==
  \/ HostStarts
  \/ \E status \in {"CANCELLED", "COMPLETED"} : HostEnds(status)
  \/ \E v \in Visitors :
       \/ VisitorJoins(v) \/ VisitorConsents(v) \/ VisitorWithdraws(v)
       \/ VisitorLeaves(v) \/ VisitorArrives(v) \/ HostRemoves(v)
       \/ LocationAccepted(v)
  \/ Lapse

ContractSpec == ContractInit /\ [][ContractNext]_contractVars

=============================================================================
