---------------------------- MODULE ExpiryWorker ----------------------------
(***************************************************************************)
(* The expiry worker (src/backend/app/workers/expiry_worker.py) over all   *)
(* journeys of the database.  A pass is one transaction of three steps and *)
(* a commit: mark the overdue open journeys EXPIRED, expire their          *)
(* participants, expire the overdue consents.  The second step reads       *)
(* journey.participants, which no query of the pass has loaded: with an    *)
(* asynchronous session that raises, and the whole pass is rolled back.    *)
(* main() logs the exception and tries again after 30 seconds.             *)
(*                                                                         *)
(* Meanwhile the API serves requests (JourneySharing has them in detail;   *)
(* here each is one step), and the worker may be restarted at any moment.  *)
(***************************************************************************)
EXTENDS Naturals, FiniteSets

CONSTANTS
  Journeys,
  ExpiresAt,     \* journey -> expires_at, of the journey and of its consents
  MaxTime,       \* bound on the clock
  MaxCrashes     \* bound on the restarts of the worker

ASSUME ExpiresAtAssumption == ExpiresAt \in [Journeys -> Nat]
ASSUME BoundsAssumption == MaxTime \in Nat /\ MaxCrashes \in Nat

VARIABLES
  clock,
  status,      \* journeys.status
  consent,     \* the consent a visitor of each journey has given
  pass,        \* the step the worker's transaction has reached
  marked,      \* journeys it has marked EXPIRED (flushed, row locks held)
  overdue,     \* consents it has read to be expired
  crashes

expiryVars == <<clock, status, consent, pass, marked, overdue, crashes>>

OpenStatus == {"INVITED", "ACTIVE"}

IsOverdue(j) == ExpiresAt[j] <= clock

OverdueJourneys == {j \in Journeys : status[j] \in OpenStatus /\ IsOverdue(j)}

Rollback == /\ pass' = "idle"
            /\ marked' = {}
            /\ overdue' = {}

-----------------------------------------------------------------------------
(* The API and time *)

\* A row the worker's transaction has updated cannot be written meanwhile.
HostStarts(j) ==
  /\ status[j] = "INVITED" /\ clock <= ExpiresAt[j] /\ j \notin marked
  /\ status' = [status EXCEPT ![j] = "ACTIVE"]
  /\ UNCHANGED <<clock, consent, pass, marked, overdue, crashes>>

\* Cancelled or completed by the host, or completed by the last visitor.
JourneyEnds(j) ==
  /\ status[j] \in OpenStatus /\ j \notin marked
  /\ status' = [status EXCEPT ![j] = "COMPLETED"]
  /\ UNCHANGED <<clock, consent, pass, marked, overdue, crashes>>

ConsentGiven(j) ==
  /\ status[j] \in OpenStatus /\ consent[j] = "NONE"
  /\ consent' = [consent EXCEPT ![j] = "GRANTED"]
  /\ UNCHANGED <<clock, status, pass, marked, overdue, crashes>>

ConsentWithdrawn(j) ==
  /\ consent[j] = "GRANTED"
  /\ consent' = [consent EXCEPT ![j] = "REVOKED"]
  /\ UNCHANGED <<clock, status, pass, marked, overdue, crashes>>

Tick ==
  /\ clock < MaxTime
  /\ clock' = clock + 1
  /\ UNCHANGED <<status, consent, pass, marked, overdue, crashes>>

-----------------------------------------------------------------------------
(* One pass of the worker *)

\* expire_journeys: a SELECT and the UPDATEs, which lock the rows.  Whatever
\* happens between the two is undone with them, see ExpireParticipants.
ExpireJourneys ==
  /\ pass = "idle"
  /\ pass' = "journeys"
  /\ marked' = OverdueJourneys
  /\ UNCHANGED <<clock, status, consent, overdue, crashes>>

\* expire_participants_of_expired_journeys: the journeys marked in this pass
\* are among those it selects, and so is any journey committed as EXPIRED.
ExpireParticipants ==
  /\ pass = "journeys"
  /\ IF marked \cup {j \in Journeys : status[j] = "EXPIRED"} # {}
     THEN Rollback
     ELSE /\ pass' = "participants"
          /\ UNCHANGED <<marked, overdue>>
  /\ UNCHANGED <<clock, status, consent, crashes>>

\* Faulty variant of ExpireConsents: consents of ended journeys as well.
ExpireUnusedConsents ==
  /\ pass = "participants"
  /\ pass' = "consents"
  /\ overdue' = {j \in Journeys : consent[j] = "GRANTED"
                                    /\ (IsOverdue(j) \/ status[j] \notin OpenStatus)}
  /\ UNCHANGED <<clock, status, consent, marked, crashes>>

\* expire_consents
ExpireConsents ==
  /\ pass = "participants"
  /\ pass' = "consents"
  /\ overdue' = {j \in Journeys : consent[j] = "GRANTED" /\ IsOverdue(j)}
  /\ UNCHANGED <<clock, status, consent, marked, crashes>>

\* Faulty variant of Commit: the session is closed without a commit.
CloseOnly ==
  /\ pass = "consents"
  /\ Rollback
  /\ UNCHANGED <<clock, status, consent, crashes>>

\* run_once commits the pass.
Commit ==
  /\ pass = "consents"
  /\ status' = [j \in Journeys |-> IF j \in marked THEN "EXPIRED" ELSE status[j]]
  /\ consent' = [j \in Journeys |-> IF j \in overdue THEN "EXPIRED" ELSE consent[j]]
  /\ Rollback
  /\ UNCHANGED <<clock, crashes>>

\* The worker's process stops in the middle of a pass and is started again.
Restart ==
  /\ crashes < MaxCrashes
  /\ pass # "idle"
  /\ crashes' = crashes + 1
  /\ Rollback
  /\ UNCHANGED <<clock, status, consent>>

WorkerStep == ExpireJourneys \/ ExpireParticipants \/ ExpireConsents \/ Commit

-----------------------------------------------------------------------------
ExpiryInit ==
  /\ clock = 0
  /\ status = [j \in Journeys |-> "INVITED"]
  /\ consent = [j \in Journeys |-> "NONE"]
  /\ pass = "idle"
  /\ marked = {}
  /\ overdue = {}
  /\ crashes = 0

ExpiryNext ==
  \/ \E j \in Journeys :
       HostStarts(j) \/ JourneyEnds(j) \/ ConsentGiven(j) \/ ConsentWithdrawn(j)
  \/ WorkerStep
  \/ Restart
  \/ Tick

\* The worker's loop goes on for ever and time passes; users need do nothing.
ExpirySpec ==
  ExpiryInit /\ [][ExpiryNext]_expiryVars /\ WF_expiryVars(WorkerStep) /\ WF_expiryVars(Tick)

-----------------------------------------------------------------------------
(* Properties *)

\* Whatever the worker read before others committed, a consent is EXPIRED only
\* once its time has come, and a journey only together with it.
ExpiresOnlyOverdue ==
  \A j \in Journeys :
    consent[j] = "EXPIRED" \/ status[j] = "EXPIRED" \/ j \in marked => IsOverdue(j)

\* An overdue consent is expired in the end, restarts notwithstanding, as long
\* as no open journey anywhere in the database is overdue.
OverdueConsentsExpire ==
  \A j \in Journeys :
    consent[j] = "GRANTED" /\ IsOverdue(j)
      ~> consent[j] # "GRANTED" \/ OverdueJourneys # {}

\* "Expiry worker: expires journeys and consents" (expiry_worker.py:1): an
\* overdue journey does not stay open.
OverdueJourneysExpire ==
  \A j \in Journeys : j \in OverdueJourneys ~> status[j] \notin OpenStatus

=============================================================================
