--------------------------- MODULE JourneySharing ---------------------------
(***************************************************************************)
(* One journey of the JourneyNG backend: its status, its visitors, their   *)
(* consent rows and their last known locations, under concurrent HTTP      *)
(* requests (src/backend/app/services).                                    *)
(*                                                                         *)
(* A request owns one database session.  It reads the journey, then the    *)
(* participants, then (some operations) the consent rows, and commits its  *)
(* writes at the end; a rejected request rolls everything back.  Nothing   *)
(* is read twice, no read locks a row and no write checks that what was    *)
(* read still holds, so between any two of these steps another request may *)
(* commit.  Slots is the number of requests in flight at a time: with one  *)
(* slot requests are served one after another.                             *)
(***************************************************************************)
EXTENDS Naturals, FiniteSets

CONSTANTS
  Visitors,     \* people who may take part in the journey
  Guests,       \* the visitors who join through a guest session
  Host,         \* the account that created the journey
  Worker,       \* the expiry worker, a process of its own
  Slots,        \* request slots of the API server, Worker among them or not
  Ops,          \* the operations that clients request (bounds the clients)
  ExpiresAt,    \* journey.expires_at
  MaxTime,      \* bound on the clock
  MaxRows       \* bound on the consent rows of one visitor

ASSUME GuestsAssumption == Guests \subseteq Visitors
ASSUME ActorsAssumption == Host \notin Visitors /\ Worker \notin Visitors /\ Host # Worker
ASSUME TimeAssumption == ExpiresAt \in Nat /\ MaxTime \in Nat
ASSUME RowsAssumption == MaxRows \in Nat

VARIABLES
  clock,        \* wall-clock time
  journey,      \* journeys.status
  pstatus,      \* journey_participants.status of each visitor, NONE: no row
  consent,      \* location_consents.status of each row, NONE: no row
  located,      \* visitors that have a location_latest row
  deleted,      \* accounts with users.status = DELETED
  req           \* what the request in each slot has read so far

vars == <<clock, journey, pstatus, consent, located, deleted, req>>

-----------------------------------------------------------------------------
(* Statuses and transition tables *)

JourneyStatus == {"INVITED", "ACTIVE", "COMPLETED", "CANCELLED", "EXPIRED"}

JourneyTransitions(s) ==
  CASE s = "INVITED" -> {"ACTIVE", "CANCELLED", "EXPIRED"}
    [] s = "ACTIVE"  -> {"COMPLETED", "CANCELLED", "EXPIRED"}
    [] OTHER         -> {}

ParticipantStatus ==
  {"NONE", "INVITED", "ACCEPTED", "ACTIVE", "ARRIVED",
   "DECLINED", "LEFT", "REMOVED", "EXPIRED"}

TerminalStatuses == {"DECLINED", "LEFT", "REMOVED", "EXPIRED"}

ParticipantTransitions(s) ==
  CASE s = "INVITED"  -> {"ACCEPTED", "DECLINED", "EXPIRED"}
    [] s = "ACCEPTED" -> {"ACTIVE", "LEFT"}
    [] s = "ACTIVE"   -> {"ARRIVED", "LEFT", "REMOVED", "EXPIRED"}
    [] OTHER          -> {}

ConsentStatus == {"NONE", "GRANTED", "REVOKED", "EXPIRED"}

\* Every consent row expires together with the journey.
Rows == Visitors \X (1 .. MaxRows)

IsActive(c) == consent[c] = "GRANTED" /\ clock < ExpiresAt

RowsOf(v) == {c \in Rows : c[1] = v}

GrantedRows(v) == {c \in RowsOf(v) : consent[c] = "GRANTED"}

HasActiveConsent(v) == \E c \in RowsOf(v) : IsActive(c)

\* What GET /locations and the socket's first message show to the host.
VisibleLocations == {v \in located : pstatus[v] = "ACTIVE"}

-----------------------------------------------------------------------------
(* Requests *)

HostOps   == {"Start", "Cancel", "Complete"}
MemberOps == {"Grant", "Revoke", "StartSharing", "Leave", "Arrive", "Upload"}
AccountOps == {"StopAll", "Delete"}       \* address no journey
AllOps == HostOps \cup MemberOps \cup AccountOps \cup {"Join", "Remove", "Expire"}

\* Operations that read consent rows before they write.
ConsentOps == {"Grant", "Revoke", "StartSharing", "Arrive", "Upload", "Remove"}

Actors == Visitors \cup {Host, Worker}

Request ==
  [op : AllOps, who : Actors, phase : {"idle", "begun", "loaded", "ready"},
   journey : JourneyStatus,   \* the journey's status as read
   accepted : BOOLEAN,        \* the participant was ACCEPTED as read
   last : BOOLEAN,            \* finishing the participant completes the journey
   rows : SUBSET Rows]        \* the GRANTED rows read

Idle == [op |-> "Expire", who |-> Worker, phase |-> "idle", journey |-> "INVITED",
         accepted |-> FALSE, last |-> FALSE, rows |-> {}]

Is(r, op, phase) == req[r].op = op /\ req[r].phase = phase

Finish(r) == req' = [req EXCEPT ![r] = Idle]

\* Faulty variant of Locked: the row is locked when it is loaded.
LockedOnLoad(v, r) ==
  \E s \in Slots \ {r} : /\ req[s].op \in {"Arrive", "Remove"}
                         /\ req[s].phase \in {"loaded", "ready"}
                         /\ req[s].who = v

\* mark_arrived and remove_participant flush the participant's UPDATE before
\* they read consents: they hold that row's lock until they commit.
Locked(v, r) ==
  \E s \in Slots \ {r} : /\ req[s].op \in {"Arrive", "Remove"}
                         /\ req[s].phase = "ready"
                         /\ req[s].who = v

Open == {"INVITED", "ACTIVE"}

\* _expire_if_needed: the status the handler goes on with (never persisted,
\* because every caller raises on EXPIRED and the session is rolled back).
Effective(status) ==
  IF status = "INVITED" /\ clock > ExpiresAt THEN "EXPIRED" ELSE status

\* Faulty variant of Startable: a journey that is under way is started again.
StartableWhileOpen(status) == status \in Open

\* start_journey
Startable(status) == status = "INVITED" /\ "ACTIVE" \in JourneyTransitions(status)

\* Faulty variant of Admits: an upload is checked against the journey only.
AdmitsAnyMember(q, s) ==
  \/ q.op = "Start" /\ Startable(q.journey)
  \/ q.op \in {"Cancel", "Complete"} /\ q.journey \in Open
  \/ q.op = "Join" /\ q.journey \in Open /\ s = "NONE"
  \/ q.op = "Grant" /\ q.journey \in Open /\ s # "NONE"
  \/ q.op = "Revoke" /\ s # "NONE"
  \/ q.op \in {"StartSharing", "Leave"} /\ s \in {"ACCEPTED", "ACTIVE"}
  \/ q.op = "Arrive" /\ s = "ACTIVE"
  \/ q.op = "Remove" /\ s \in {"INVITED", "ACCEPTED", "ACTIVE"}
  \/ q.op = "Upload" /\ q.journey = "ACTIVE" /\ s # "NONE"

\* What a handler requires of the journey and of the participant's status s.
Admits(q, s) ==
  \/ q.op = "Start" /\ Startable(Effective(q.journey))
  \/ q.op = "Cancel" /\ "CANCELLED" \in JourneyTransitions(Effective(q.journey))
  \/ q.op = "Complete" /\ "COMPLETED" \in JourneyTransitions(Effective(q.journey))
  \/ q.op = "Join" /\ q.journey \in Open /\ s = "NONE"
  \/ q.op = "Grant" /\ q.journey \in Open /\ s # "NONE"
  \/ q.op = "Revoke" /\ s # "NONE"
  \/ q.op = "StartSharing" /\ s \in {"ACCEPTED", "ACTIVE"}
  \/ q.op = "Leave" /\ s \in {"ACCEPTED", "ACTIVE"} /\ "LEFT" \in ParticipantTransitions(s)
  \/ q.op = "Arrive" /\ s = "ACTIVE" /\ "ARRIVED" \in ParticipantTransitions(s)
  \/ q.op = "Remove" /\ s \in {"INVITED", "ACCEPTED", "ACTIVE"}
  \/ q.op = "Upload" /\ q.journey = "ACTIVE" /\ s = "ACTIVE"

\* Faulty variant of LastOne: the other visitors are forgotten.
LastOneAlways(q) == q.journey = "ACTIVE"

\* maybe_complete_journey: no visitor but the request's own is still to finish.
LastOne(q) ==
  /\ q.journey = "ACTIVE"
  /\ \A u \in Visitors \ {q.who} :
       pstatus[u] \in TerminalStatuses \cup {"ARRIVED", "NONE"}

\* Faulty variant of EndsAtConsent: starting and uploading skip the consent gate.
EndsWithoutGate(op, rows) ==
  \/ op # "Remove" /\ Cardinality(rows) > 1
  \/ op = "Revoke" /\ rows = {}
  \/ op = "Grant" /\ \E c \in rows : IsActive(c)

\* Faulty variant of EndsAtConsent: a grant does not look for an active row.
EndsWithoutLookup(op, rows) ==
  \/ op # "Remove" /\ Cardinality(rows) > 1
  \/ op = "Revoke" /\ rows = {}
  \/ op \in {"StartSharing", "Upload"} /\ ~ \E c \in rows : IsActive(c)

\* The consent lookups that end a request: scalar_one_or_none raises on two
\* rows, the gates reject, and a grant returns the active row it finds.
EndsAtConsent(op, rows) ==
  \/ op # "Remove" /\ Cardinality(rows) > 1
  \/ op = "Revoke" /\ rows = {}
  \/ op \in {"StartSharing", "Upload"} /\ ~ \E c \in rows : IsActive(c)
  \/ op = "Grant" /\ \E c \in rows : IsActive(c)

-----------------------------------------------------------------------------
(* Steps every request takes *)

Authenticated(op, v) ==
  \/ op = "Join" /\ v \in Guests
  \/ op \in HostOps /\ v = Host /\ Host \notin deleted
  \/ op = "Remove" /\ v \in Visitors /\ pstatus[v] # "NONE" /\ Host \notin deleted
  \/ op \in MemberOps /\ v \in Guests /\ pstatus[v] # "NONE" /\ clock <= ExpiresAt
  \/ op \in MemberOps \cup {"Join", "StopAll"} /\ v \in (Visitors \ Guests) \ deleted
  \/ op = "Delete" /\ v \in ((Visitors \ Guests) \cup {Host}) \ deleted

\* Bounds: a visitor joins once, and asks for no more rows than MaxRows.
InFlight(op, v) == {s \in Slots : req[s].phase # "idle" /\ req[s].op = op /\ req[s].who = v}

WithinBounds(op, v) ==
  /\ op = "Join" => pstatus[v] = "NONE" /\ InFlight("Join", v) = {}
  /\ op = "Grant" => Cardinality({c \in RowsOf(v) : consent[c] # "NONE"})
                       + Cardinality(InFlight("Grant", v)) < MaxRows

\* The SELECT of the journey.  Of the operations on an account only the host's
\* deletion finds it, which looks for the journeys that the account hosts.
Received(op, v) ==
  [Idle EXCEPT !.op = op, !.who = v, !.phase = "begun",
               !.journey = IF op \in AccountOps /\ v # Host THEN @ ELSE journey]

\* The request is authenticated and SELECTs the journey.
Begin(r, op, v) ==
  /\ r # Worker
  /\ req[r].phase = "idle"
  /\ Authenticated(op, v)
  /\ WithinBounds(op, v)
  /\ req' = [req EXCEPT ![r] = Received(op, v)]
  /\ UNCHANGED <<clock, journey, pstatus, consent, located, deleted>>

\* The participants are SELECTed and the handler's guards run on what was read;
\* the slot keeps only what the rest of the handler still looks at.
Load(r) ==
  /\ req[r].phase = "begun"
  /\ req[r].op \notin AccountOps \cup {"Expire"}
  /\ LET q == req[r]
         s == IF q.who \in Visitors THEN pstatus[q.who] ELSE "NONE"
     IN  IF Admits(q, s)
         THEN req' = [req EXCEPT ![r] =
                [q EXCEPT !.phase = "loaded",
                          !.journey = Idle.journey,
                          !.accepted = q.op \in {"Grant", "StartSharing"} /\ s = "ACCEPTED",
                          !.last = q.op \in {"Leave", "Arrive", "Remove"} /\ LastOne(q)]]
         ELSE Finish(r)
  /\ UNCHANGED <<clock, journey, pstatus, consent, located, deleted>>

\* The visitor's GRANTED rows are SELECTed.
ReadConsents(r) ==
  /\ req[r].op \in ConsentOps
  /\ req[r].phase = "loaded"
  /\ req[r].op \in {"Arrive", "Remove"} => ~Locked(req[r].who, r)
  /\ LET rows == GrantedRows(req[r].who)
     IN  IF EndsAtConsent(req[r].op, rows)
         THEN Finish(r)
         ELSE req' = [req EXCEPT
                        ![r].phase = "ready",
                        ![r].rows = IF Cardinality(rows) > 1 THEN {} ELSE rows]
  /\ UNCHANGED <<clock, journey, pstatus, consent, located, deleted>>

\* Faulty variant of ReadAllConsents: the look-up expects one row.
ReadOneConsent(r) ==
  /\ req[r].op \in AccountOps
  /\ req[r].phase = "begun"
  /\ LET rows == GrantedRows(req[r].who)
     IN  req' = [req EXCEPT ![r].phase = "ready",
                            ![r].rows = IF Cardinality(rows) > 1 THEN {} ELSE rows]
  /\ UNCHANGED <<clock, journey, pstatus, consent, located, deleted>>

\* stop_all_sharing reads every GRANTED row of the user's participants.
ReadAllConsents(r) ==
  /\ req[r].op \in AccountOps
  /\ req[r].phase = "begun"
  /\ req' = [req EXCEPT ![r].phase = "ready",
                        ![r].rows = GrantedRows(req[r].who)]
  /\ UNCHANGED <<clock, journey, pstatus, consent, located, deleted>>

-----------------------------------------------------------------------------
(* Commits, one action per operation *)

SetRows(rows, status) ==
  consent' = [c \in Rows |-> IF c \in rows THEN status ELSE consent[c]]

CompleteIf(b) == journey' = IF b THEN "COMPLETED" ELSE journey

Start(r) ==
  /\ Is(r, "Start", "loaded")
  /\ journey' = "ACTIVE"
  /\ Finish(r)
  /\ UNCHANGED <<clock, pstatus, consent, located, deleted>>

Cancel(r) ==
  /\ Is(r, "Cancel", "loaded")
  /\ journey' = "CANCELLED"
  /\ Finish(r)
  /\ UNCHANGED <<clock, pstatus, consent, located, deleted>>

Complete(r) ==
  /\ Is(r, "Complete", "loaded")
  /\ journey' = "COMPLETED"
  /\ Finish(r)
  /\ UNCHANGED <<clock, pstatus, consent, located, deleted>>

Join(r) ==
  /\ Is(r, "Join", "loaded")
  /\ pstatus' = [pstatus EXCEPT ![req[r].who] = "ACCEPTED"]
  /\ Finish(r)
  /\ UNCHANGED <<clock, journey, consent, located, deleted>>

\* Faulty variant of Activate: whoever consents is sharing.
ActivateAnyone(r) ==
  /\ ~Locked(req[r].who, r)
  /\ pstatus' = [pstatus EXCEPT ![req[r].who] = "ACTIVE"]

\* ACCEPTED -> ACTIVE, from the status as it was read.
Activate(r) ==
  IF req[r].accepted
  THEN /\ ~Locked(req[r].who, r)
       /\ pstatus' = [pstatus EXCEPT ![req[r].who] = "ACTIVE"]
  ELSE UNCHANGED pstatus

\* Faulty variant of Grant: an ended consent is granted again in place.
GrantInPlace(r) ==
  /\ Is(r, "Grant", "ready")
  /\ \E i \in 1 .. MaxRows :
       /\ consent[<<req[r].who, i>>] # "GRANTED"
       /\ \A j \in 1 .. i - 1 : consent[<<req[r].who, j>>] = "GRANTED"
       /\ SetRows({<<req[r].who, i>>}, "GRANTED")
  /\ Activate(r)
  /\ Finish(r)
  /\ UNCHANGED <<clock, journey, located, deleted>>

Grant(r) ==
  /\ Is(r, "Grant", "ready")
  /\ \E i \in 1 .. MaxRows :
       /\ consent[<<req[r].who, i>>] = "NONE"
       /\ \A j \in 1 .. i - 1 : consent[<<req[r].who, j>>] # "NONE"
       /\ SetRows({<<req[r].who, i>>}, "GRANTED")
  /\ Activate(r)
  /\ Finish(r)
  /\ UNCHANGED <<clock, journey, located, deleted>>

Revoke(r) ==
  /\ Is(r, "Revoke", "ready")
  /\ SetRows(req[r].rows, "REVOKED")
  /\ Finish(r)
  /\ UNCHANGED <<clock, journey, pstatus, located, deleted>>

StartSharing(r) ==
  /\ Is(r, "StartSharing", "ready")
  /\ Activate(r)
  /\ Finish(r)
  /\ UNCHANGED <<clock, journey, consent, located, deleted>>

Leave(r) ==
  /\ Is(r, "Leave", "loaded")
  /\ ~Locked(req[r].who, r)
  /\ pstatus' = [pstatus EXCEPT ![req[r].who] = "LEFT"]
  /\ CompleteIf(req[r].last)
  /\ Finish(r)
  /\ UNCHANGED <<clock, consent, located, deleted>>

\* Faulty variant of Arrive: the last visitor's arrival stores a status of its own.
ArriveDone(r) ==
  /\ Is(r, "Arrive", "ready")
  /\ pstatus' = [pstatus EXCEPT ![req[r].who] = IF req[r].last THEN "DONE" ELSE "ARRIVED"]
  /\ SetRows(req[r].rows, "REVOKED")
  /\ CompleteIf(req[r].last)
  /\ Finish(r)
  /\ UNCHANGED <<clock, located, deleted>>

Arrive(r) ==
  /\ Is(r, "Arrive", "ready")
  /\ pstatus' = [pstatus EXCEPT ![req[r].who] = "ARRIVED"]
  /\ SetRows(req[r].rows, "REVOKED")
  /\ CompleteIf(req[r].last)
  /\ Finish(r)
  /\ UNCHANGED <<clock, located, deleted>>

Remove(r) ==
  /\ Is(r, "Remove", "ready")
  /\ pstatus' = [pstatus EXCEPT ![req[r].who] = "REMOVED"]
  /\ SetRows(req[r].rows, "REVOKED")
  /\ CompleteIf(req[r].last)
  /\ Finish(r)
  /\ UNCHANGED <<clock, located, deleted>>

Upload(r) ==
  /\ Is(r, "Upload", "ready")
  /\ located' = located \cup {req[r].who}
  /\ Finish(r)
  /\ UNCHANGED <<clock, journey, pstatus, consent, deleted>>

StopAll(r) ==
  /\ Is(r, "StopAll", "ready")
  /\ SetRows(req[r].rows, "REVOKED")
  /\ Finish(r)
  /\ UNCHANGED <<clock, journey, pstatus, located, deleted>>

\* Faulty variant of Delete: the sharing of the deleted account goes on.
DeleteKeepsSharing(r) ==
  /\ Is(r, "Delete", "ready")
  /\ journey' = IF req[r].who = Host /\ req[r].journey \in Open
                THEN "CANCELLED" ELSE journey
  /\ deleted' = deleted \cup {req[r].who}
  /\ Finish(r)
  /\ UNCHANGED <<clock, pstatus, consent, located>>

\* delete_me cancels the journeys the account hosts and stops its sharing.
Delete(r) ==
  /\ Is(r, "Delete", "ready")
  /\ journey' = IF req[r].who = Host /\ req[r].journey \in Open
                THEN "CANCELLED" ELSE journey
  /\ SetRows(req[r].rows, "REVOKED")
  /\ deleted' = deleted \cup {req[r].who}
  /\ Finish(r)
  /\ UNCHANGED <<clock, pstatus, located>>

-----------------------------------------------------------------------------
(* The expiry worker and time *)

\* A pass that meets an overdue open journey raises in its second step (the
\* participants are not loaded) and rolls back, so only a pass that meets none
\* goes on to read the overdue consents.
BeginExpire ==
  /\ Worker \in Slots
  /\ req[Worker].phase = "idle"
  /\ ~(journey \in Open /\ ExpiresAt <= clock)
  /\ req' = [req EXCEPT ![Worker] =
               [Idle EXCEPT !.phase = "ready",
                            !.rows = {c \in Rows : consent[c] = "GRANTED"
                                                     /\ ExpiresAt <= clock}]]
  /\ UNCHANGED <<clock, journey, pstatus, consent, located, deleted>>

Expire ==
  /\ Worker \in Slots
  /\ Is(Worker, "Expire", "ready")
  /\ SetRows(req[Worker].rows, "EXPIRED")
  /\ Finish(Worker)
  /\ UNCHANGED <<clock, journey, pstatus, located, deleted>>

Tick ==
  /\ clock < MaxTime
  /\ clock' = clock + 1
  /\ UNCHANGED <<journey, pstatus, consent, located, deleted, req>>

-----------------------------------------------------------------------------
(* Specification *)

\* create_journey has committed: the journey is INVITED and has no visitor.
Init ==
  /\ clock = 0
  /\ journey = "INVITED"
  /\ pstatus = [v \in Visitors |-> "NONE"]
  /\ consent = [c \in Rows |-> "NONE"]
  /\ located = {}
  /\ deleted = {}
  /\ req = [r \in Slots |-> Idle]

\* What the server does with a request once it has been received.
Serve(r) ==
  \/ Load(r) \/ ReadConsents(r) \/ ReadAllConsents(r)
  \/ Start(r) \/ Cancel(r) \/ Complete(r) \/ Join(r)
  \/ Grant(r) \/ Revoke(r) \/ StartSharing(r) \/ Leave(r) \/ Arrive(r) \/ Remove(r)
  \/ Upload(r) \/ StopAll(r) \/ Delete(r)

Next ==
  \/ \E r \in Slots, op \in Ops, v \in Visitors \cup {Host} : Begin(r, op, v)
  \/ \E r \in Slots : Serve(r)
  \/ BeginExpire
  \/ Expire
  \/ Tick

Spec == Init /\ [][Next]_vars

\* The server goes on with every request it has accepted.  Clients need not
\* call, the clock need not advance and the worker need not run.
FairSpec == Spec /\ \A r \in Slots : WF_vars(Serve(r))

-----------------------------------------------------------------------------
(* Properties *)

TypeOK ==
  /\ clock \in Nat
  /\ journey \in JourneyStatus
  /\ pstatus \in [Visitors -> ParticipantStatus]
  /\ consent \in [Rows -> ConsentStatus]
  /\ located \subseteq Visitors
  /\ deleted \subseteq Visitors \cup {Host}
  /\ req \in [Slots -> Request]

-----------------------------------------------------------------------------
(* Properties of every interleaving *)

\* Nobody is ever marked as sharing, and no location is ever stored, for a
\* visitor who has not granted consent for this journey at some time: the
\* consent gates of participant_service and location_service hold although
\* they run on stale reads.
NoSharingWithoutConsent ==
  \A v \in Visitors :
    v \in located \/ pstatus[v] \in {"ACTIVE", "ARRIVED"}
      => \E c \in RowsOf(v) : consent[c] # "NONE"

\* A consent that was revoked or has expired never authorizes again, whatever
\* stale request, grant or worker pass commits afterwards.
ConsentNeverRevived ==
  [][\A c \in Rows : consent[c] \in {"REVOKED", "EXPIRED"}
       => consent'[c] \in {"REVOKED", "EXPIRED"}]_vars

\* Every request is answered: the row lock that arrival and removal hold while
\* they look for the consent can delay other requests but blocks none for good.
RequestsAnswered ==
  \A r \in Slots \ {Worker} : req[r].phase # "idle" ~> req[r].phase = "idle"

-----------------------------------------------------------------------------
(* What the documentation says and the code does not keep *)

\* A consent authorizes what the host is shown: "no active GRANTED consent
\* record => no location accepted or shown" (README.md:93).
ShownOnlyUnderConsent == \A v \in VisibleLocations : HasActiveConsent(v)

\* A visitor who has left, arrived or was removed does not become active again:
\* "test_left_is_terminal", "test_removed_is_terminal"
\* (src/backend/tests/unit/test_state_machines.py:61).
FinishedVisitorStays ==
  [][\A v \in Visitors :
       (pstatus[v] \in {"LEFT", "REMOVED", "ARRIVED"}) => (pstatus'[v] # "ACTIVE")]_vars

\* A visitor under an active consent can stop sharing: "Revocation: Stop
\* Sharing ... immediate, server-enforced" (docs/privacy.md:13).
StopSharingAccepted ==
  [][\A r \in Slots :
       (/\ Is(r, "Revoke", "loaded")
        /\ HasActiveConsent(req[r].who)
        /\ ReadConsents(r)) => (req'[r].phase = "ready")]_vars

=============================================================================
