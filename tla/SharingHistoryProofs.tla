------------------------ MODULE SharingHistoryProofs ------------------------
(***************************************************************************)
(* Proofs about SharingHistory, for any visitors and any number of         *)
(* requests in flight: what an upload and the start of a journey have      *)
(* found, read by read, was true while they were in flight, and what a     *)
(* deletion has read is all there is unless a request is in flight beside  *)
(* it.                                                                     *)
(***************************************************************************)
EXTENDS SharingHistory, JourneySharingProofs

\* What a request in flight has found so far is among what it could observe:
\* each read of an upload adds one element, and the only read of a start its.
SeenWhatWasRead(r) ==
  /\ req[r].op = "Upload" =>
       /\ req[r].phase = "begun" /\ req[r].journey = "ACTIVE" => "journey" \in seen[r]
       /\ req[r].phase = "loaded" => {"journey", "participant"} \subseteq seen[r]
       /\ req[r].phase = "ready" => UploadNeeds \subseteq seen[r]
  /\ req[r].op = "Start" =>
       /\ req[r].phase = "begun" /\ req[r].journey = "INVITED" => "invited" \in seen[r]
       /\ req[r].phase = "loaded" => "invited" \in seen[r]

ReadsSeen == \A r \in Slots : SeenWhatWasRead(r)

HistoryInv == TypeInv /\ ReadsSeen

-----------------------------------------------------------------------------

\* What a slot has seen is kept while its request is in flight.
LEMMA SeenGrows ==
  ASSUME HistoryNext, NEW r \in Slots, req'[r].phase # "idle"
  PROVE  seen[r] \cup (Authorized(req[r]) \cup Overlaps(req[r]))' \subseteq seen'[r]
  BY DEF HistoryNext

\* A slot that a step leaves alone or frees keeps the invariant.
LEMMA SlotKept ==
  ASSUME HistoryNext, NEW r \in Slots, SeenWhatWasRead(r),
         req'[r] = req[r] \/ req'[r] = Idle
  PROVE  SeenWhatWasRead(r)'
  <1>1. CASE req'[r].phase = "idle"
    BY <1>1 DEF SeenWhatWasRead
  <1>2. CASE req'[r] = req[r] /\ req'[r].phase # "idle"
    <2>1. seen[r] \subseteq seen'[r]
      BY <1>2, SeenGrows
    <2> QED BY <1>2, <2>1 DEF SeenWhatWasRead
  <1> QED BY <1>1, <1>2 DEF Idle

\* The SELECT of the journey sees what the request may then rely on.
LEMMA BeginSeen ==
  ASSUME HistoryNext, TypeInv, ReadsSeen,
         NEW s \in Slots, NEW op, NEW v \in Visitors \cup {Host}, Begin(s, op, v)
  PROVE  ReadsSeen'
  <1> SUFFICES ASSUME NEW r \in Slots PROVE SeenWhatWasRead(r)'
    BY DEF ReadsSeen
  <1>1. CASE r # s
    <2>1. req'[r] = req[r]
      BY <1>1 DEF Begin, TypeInv, TypeOK
    <2> QED BY <2>1, SlotKept DEF ReadsSeen
  <1>2. CASE r = s
    <2>1. /\ req'[r].op = op /\ req'[r].phase = "begun"
          /\ op \in {"Upload", "Start"} => req'[r].journey = journey
          /\ journey' = journey
      BY <1>2, BegunFields DEF Begin, AccountOps
    <2>2. Authorized(req[r])' \subseteq seen'[r]
      BY <2>1, SeenGrows
    <2>3. op = "Upload" /\ journey = "ACTIVE" => "journey" \in Authorized(req[r])'
      BY <2>1 DEF Authorized, UploadNeeds
    <2>4. op = "Start" /\ journey = "INVITED" => "invited" \in Authorized(req[r])'
      BY <2>1 DEF Authorized
    <2> QED BY <2>1, <2>2, <2>3, <2>4 DEF SeenWhatWasRead
  <1> QED BY <1>1, <1>2

\* The SELECT of the participants, for a request that is then admitted.
LEMMA LoadSeen ==
  ASSUME HistoryNext, TypeInv, ReadsSeen, NEW s \in Slots, Load(s)
  PROVE  ReadsSeen'
  <1> SUFFICES ASSUME NEW r \in Slots PROVE SeenWhatWasRead(r)'
    BY DEF ReadsSeen
  <1> DEFINE q == req[r]
             st == IF q.who \in Visitors THEN pstatus[q.who] ELSE "NONE"
  <1>1. CASE r # s
    <2>1. req'[r] = req[r]
      BY <1>1 DEF Load, Finish, TypeInv, TypeOK
    <2> QED BY <2>1, SlotKept DEF ReadsSeen
  <1>2. CASE r = s /\ ~Admits(q, st)
    <2>1. req'[r] = Idle
      BY <1>2 DEF Load, Finish, TypeInv, TypeOK
    <2> QED BY <2>1, SlotKept DEF ReadsSeen
  <1>3. CASE r = s /\ Admits(q, st)
    <2>1. /\ req'[r].op = q.op /\ req'[r].who = q.who /\ req'[r].phase = "loaded"
          /\ q.phase = "begun" /\ pstatus' = pstatus
      <3> DEFINE n == [q EXCEPT
                        !.phase = "loaded", !.journey = Idle.journey,
                        !.accepted = q.op \in {"Grant", "StartSharing"} /\ st = "ACCEPTED",
                        !.last = q.op \in {"Leave", "Arrive", "Remove"} /\ LastOne(q)]
      <3>1. req' = [req EXCEPT ![r] = n] /\ q.phase = "begun" /\ pstatus' = pstatus
        BY <1>3 DEF Load
      <3>2. q \in Request /\ LastOne(q) \in BOOLEAN
        BY DEF TypeInv, TypeOK, LastOne
      <3>3. n.op = q.op /\ n.who = q.who /\ n.phase = "loaded"
        BY <3>2 DEF Request
      <3> HIDE DEF n
      <3> QED BY <3>1, <3>3 DEF TypeInv, TypeOK
    <2>2. seen[r] \cup Authorized(req[r])' \subseteq seen'[r]
      BY <2>1, SeenGrows
    <2>3. CASE q.op = "Upload"
      <3>1. q.journey = "ACTIVE" /\ st = "ACTIVE"
        BY <1>3, <2>3 DEF Admits
      <3>2. "participant" \in Authorized(req[r])'
        BY <2>1, <2>3, <3>1 DEF Authorized, UploadNeeds
      <3>3. "journey" \in seen[r]
        BY <2>1, <2>3, <3>1 DEF ReadsSeen, SeenWhatWasRead
      <3> QED BY <2>1, <2>2, <2>3, <3>2, <3>3 DEF SeenWhatWasRead
    <2>4. CASE q.op = "Start"
      <3>1. q.journey = "INVITED"
        BY <1>3, <2>4 DEF Admits, Startable, Effective
      <3>2. "invited" \in seen[r]
        BY <2>1, <2>4, <3>1 DEF ReadsSeen, SeenWhatWasRead
      <3> QED BY <2>1, <2>2, <2>4, <3>2 DEF SeenWhatWasRead
    <2>5. CASE q.op \notin {"Upload", "Start"}
      BY <2>1, <2>5 DEF SeenWhatWasRead
    <2> QED BY <2>3, <2>4, <2>5
  <1> QED BY <1>1, <1>2, <1>3

\* The SELECT of the consents: an upload goes on only with an active one.
LEMMA ReadConsentsSeen ==
  ASSUME HistoryNext, TypeInv, ReadsSeen, NEW s \in Slots, ReadConsents(s)
  PROVE  ReadsSeen'
  <1> SUFFICES ASSUME NEW r \in Slots PROVE SeenWhatWasRead(r)'
    BY DEF ReadsSeen
  <1> DEFINE q == req[r]
             rows == GrantedRows(q.who)
  <1>1. CASE r # s
    <2>1. req'[r] = req[r]
      BY <1>1 DEF ReadConsents, Finish, TypeInv, TypeOK
    <2> QED BY <2>1, SlotKept DEF ReadsSeen
  <1>2. CASE r = s /\ EndsAtConsent(q.op, rows)
    <2>1. req'[r] = Idle
      BY <1>2 DEF ReadConsents, Finish, TypeInv, TypeOK
    <2> QED BY <2>1, SlotKept DEF ReadsSeen
  <1>3. CASE r = s /\ ~EndsAtConsent(q.op, rows)
    <2>1. /\ req'[r].op = q.op /\ req'[r].who = q.who /\ req'[r].phase = "ready"
          /\ q.phase = "loaded" /\ q.op \in ConsentOps
          /\ consent' = consent /\ clock' = clock
      BY <1>3 DEF ReadConsents, TypeInv, TypeOK, Request
    <2>2. seen[r] \cup Authorized(req[r])' \subseteq seen'[r]
      BY <2>1, SeenGrows
    <2>3. CASE q.op = "Upload"
      <3>1. PICK c \in rows : IsActive(c)
        BY <1>3, <2>3 DEF EndsAtConsent
      <3>2. q.who \in Visitors
        BY <2>3 DEF TypeInv, ActorsOK, MemberOps
      <3>3. c \in RowsOf(q.who) /\ IsActive(c)'
        BY <2>1, <3>1 DEF GrantedRows, IsActive
      <3>4. HasActiveConsent(req[r].who)'
        BY <2>1, <3>3 DEF HasActiveConsent, RowsOf
      <3>5. "consent" \in Authorized(req[r])'
        BY <2>1, <2>3, <3>2, <3>4 DEF Authorized, UploadNeeds
      <3>6. {"journey", "participant"} \subseteq seen[r]
        BY <2>1, <2>3 DEF ReadsSeen, SeenWhatWasRead
      <3> QED BY <2>1, <2>2, <2>3, <3>5, <3>6 DEF SeenWhatWasRead, UploadNeeds
    <2>4. CASE q.op # "Upload"
      BY <2>1, <2>4 DEF SeenWhatWasRead, ConsentOps
    <2> QED BY <2>3, <2>4
  <1> QED BY <1>1, <1>2, <1>3

\* The other steps leave a slot alone, free it, or belong to the worker or to
\* an operation on a whole account.
LEMMA OthersSeen ==
  ASSUME HistoryNext, TypeInv, ReadsSeen,
         \/ \E s \in Slots :
              \/ ReadAllConsents(s)
              \/ Start(s) \/ Cancel(s) \/ Complete(s) \/ Join(s) \/ Grant(s) \/ Revoke(s)
              \/ StartSharing(s) \/ Leave(s) \/ Arrive(s) \/ Remove(s) \/ Upload(s)
              \/ StopAll(s) \/ Delete(s)
         \/ BeginExpire \/ Expire \/ Tick \/ UNCHANGED vars
  PROVE  ReadsSeen'
  <1> SUFFICES ASSUME NEW r \in Slots PROVE SeenWhatWasRead(r)'
    BY DEF ReadsSeen
  <1>1. CASE \E s \in Slots : ReadAllConsents(s)
    <2> PICK s \in Slots : ReadAllConsents(s)
      BY <1>1
    <2>1. req'[r] = req[r] \/ req'[r].op \in AccountOps
      BY DEF ReadAllConsents, TypeInv, TypeOK, Request
    <2> QED BY <2>1, SlotKept DEF ReadsSeen, SeenWhatWasRead, AccountOps
  <1>2. CASE BeginExpire
    <2>1. req'[r] = req[r] \/ req'[r].op = "Expire"
      BY <1>2 DEF BeginExpire, TypeInv, TypeOK, Idle
    <2> QED BY <2>1, SlotKept DEF ReadsSeen, SeenWhatWasRead
  <1>3. CASE Tick \/ UNCHANGED vars
    BY <1>3, SlotKept DEF Tick, vars, ReadsSeen
  <1>4. CASE \E s \in Slots : Finish(s)
    <2>1. req'[r] = req[r] \/ req'[r] = Idle
      BY <1>4 DEF Finish, TypeInv, TypeOK
    <2> QED BY <2>1, SlotKept DEF ReadsSeen
  <1> QED
    BY <1>1, <1>2, <1>3, <1>4
    DEF Start, Cancel, Complete, Join, Grant, Revoke, StartSharing, Leave, Arrive, Remove,
        Upload, StopAll, Delete, Expire

-----------------------------------------------------------------------------

\* The types of JourneySharing hold in its specification with history.
LEMMA HistoryTyped == HistorySpec => []TypeInv
<1>1. HistorySpec => Spec
  <2>1. HistoryInit => Init
    BY DEF HistoryInit
  <2>2. [HistoryNext]_historyVars => [Next]_vars
    BY DEF HistoryNext, historyVars
  <2> QED BY <2>1, <2>2, PTL DEF HistorySpec, Spec
<1> QED BY <1>1, TypeCorrect, PTL DEF TypeInv

\* What every request in flight has read, it has seen.
LEMMA HistoryInvariant == HistorySpec => []HistoryInv
<1>1. HistoryInit => ReadsSeen
  BY DEF HistoryInit, Init, Idle, ReadsSeen, SeenWhatWasRead
<1>2. ASSUME TypeInv, ReadsSeen, [HistoryNext]_historyVars PROVE ReadsSeen'
  <2>1. CASE HistoryNext
    BY <1>2, <2>1, BeginSeen, LoadSeen, ReadConsentsSeen, OthersSeen DEF HistoryNext, Next, Serve
  <2>2. CASE UNCHANGED historyVars
    BY <1>2, <2>2 DEF historyVars, vars, ReadsSeen, SeenWhatWasRead
  <2> QED BY <1>2, <2>1, <2>2
<1> QED BY <1>1, <1>2, HistoryTyped, PTL DEF HistorySpec, HistoryInv

\* AcceptedWhileAuthorized for every number of visitors, requests and rows: the
\* three gates of an upload, run at three moments, each held at its moment.
THEOREM AcceptedWhileAuthorizedHolds == HistorySpec => AcceptedWhileAuthorized
<1>1. HistoryInv => \A r \in Slots : Upload(r) => UploadNeeds \subseteq seen[r]
  BY DEF HistoryInv, ReadsSeen, SeenWhatWasRead, Upload, Is
<1> QED BY <1>1, HistoryInvariant, PTL DEF AcceptedWhileAuthorized

\* StartedWhileInvited for every number of requests: the one stale read of
\* start_journey was true while the request was in flight.
THEOREM StartedWhileInvitedHolds == HistorySpec => StartedWhileInvited
<1>1. HistoryInv => \A r \in Slots : Start(r) => "invited" \in seen[r]
  BY DEF HistoryInv, ReadsSeen, SeenWhatWasRead, Start, Is
<1> QED BY <1>1, HistoryInvariant, PTL DEF StartedWhileInvited

-----------------------------------------------------------------------------
(* Deletion *)

\* What a step does to one slot.
LEMMA SlotStep ==
  ASSUME TypeInv, [Next]_vars, NEW r \in Slots
  PROVE  \/ req'[r] = req[r] \/ req'[r] = Idle
         \/ \E op \in Ops, v \in Visitors \cup {Host} : Begin(r, op, v)
         \/ /\ Load(r) \/ ReadConsents(r) \/ ReadAllConsents(r)
            /\ req'[r].op = req[r].op /\ req'[r].who = req[r].who
            /\ req[r].phase # "idle"
         \/ req'[r].op = "Expire"
  <1>1. req \in [Slots -> Request]
    BY DEF TypeInv, TypeOK
  <1>2. ASSUME NEW s \in Slots, Finish(s)
        PROVE  req'[r] = req[r] \/ req'[r] = Idle
    BY <1>1, <1>2 DEF Finish
  <1>3. ASSUME NEW s \in Slots, s # r, \/ \E op \in Ops, v \in Visitors \cup {Host} : Begin(s, op, v)
                                       \/ Load(s) \/ ReadConsents(s) \/ ReadAllConsents(s)
        PROVE  req'[r] = req[r]
    BY <1>1, <1>3 DEF Begin, Load, ReadConsents, ReadAllConsents, Finish
  <1>4. CASE Load(r)
    <2> DEFINE t == IF req[r].who \in Visitors THEN pstatus[req[r].who] ELSE "NONE"
               n == [req[r] EXCEPT
                      !.phase = "loaded", !.journey = Idle.journey,
                      !.accepted = req[r].op \in {"Grant", "StartSharing"} /\ t = "ACCEPTED",
                      !.last = req[r].op \in {"Leave", "Arrive", "Remove"} /\ LastOne(req[r])]
    <2>1. n.op = req[r].op /\ n.who = req[r].who
      BY <1>1 DEF Request
    <2>2. (req' = [req EXCEPT ![r] = n] \/ Finish(r)) /\ req[r].phase # "idle"
      BY <1>4 DEF Load
    <2> HIDE DEF n
    <2> QED BY <1>1, <1>2, <1>4, <2>1, <2>2
  <1>5. CASE ReadConsents(r) \/ ReadAllConsents(r)
    <2>1. ASSUME NEW rows, req' = [req EXCEPT ![r].phase = "ready", ![r].rows = rows]
          PROVE  req'[r].op = req[r].op /\ req'[r].who = req[r].who
      BY <1>1, <2>1 DEF Request
    <2> QED BY <1>2, <1>5, <2>1 DEF ReadConsents, ReadAllConsents
  <1>6. CASE BeginExpire
    BY <1>1, <1>6 DEF BeginExpire, Idle
  <1>7. CASE UNCHANGED req
    BY <1>7
  <1> QED
    BY <1>2, <1>3, <1>4, <1>5, <1>6, <1>7
    DEF Next, Serve, vars, Tick, Expire, Start, Cancel, Complete, Join, Grant, Revoke,
        StartSharing, Leave, Arrive, Remove, Upload, StopAll, Delete

\* Only a request that begins adds to the requests of a kind in flight.
LEMMA InFlightFromBegin ==
  ASSUME TypeInv, [Next]_vars, NEW op \in {"Grant", "Start"}, NEW v \in Visitors \cup {Host},
         \A s \in Slots : ~Begin(s, op, v)
  PROVE  InFlight(op, v)' \subseteq InFlight(op, v)
  <1> SUFFICES ASSUME NEW s \in Slots, req'[s].phase # "idle", req'[s].op = op, req'[s].who = v
               PROVE  s \in InFlight(op, v)
    BY DEF InFlight
  <1>1. ~ \E o \in Ops, u \in Visitors \cup {Host} : Begin(s, o, u)
    BY BegunFields
  <1>2. req'[s] # Idle /\ req'[s].op # "Expire"
    BY DEF Idle
  <1> QED BY <1>1, <1>2, SlotStep DEF InFlight

\* Only the commit of a grant makes a consent GRANTED, or active.
LEMMA GrantedByGrant ==
  ASSUME TypeInv, [Next]_vars, NEW v, \A s \in Slots : ~(Grant(s) /\ req[s].who = v)
  PROVE  /\ GrantedRows(v)' \subseteq GrantedRows(v)
         /\ HasActiveConsent(v)' => HasActiveConsent(v)
  <1>1. \A c \in RowsOf(v) : consent'[c] = "GRANTED" => consent[c] = "GRANTED"
    <2> SUFFICES ASSUME NEW c \in RowsOf(v)
                 PROVE  consent'[c] = "GRANTED" => consent[c] = "GRANTED"
      OBVIOUS
    <2>1. c \in Rows /\ c[1] = v
      BY DEF RowsOf
    <2>2. ASSUME NEW s \in Slots, Grant(s) PROVE consent'[c] = consent[c]
      BY <2>1, <2>2 DEF Grant, SetRows
    <2>3. ASSUME NEW rows, NEW status \in {"REVOKED", "EXPIRED"}, SetRows(rows, status)
          PROVE  consent'[c] = "GRANTED" => consent[c] = "GRANTED"
      BY <2>1, <2>3 DEF SetRows
    <2>4. ASSUME UNCHANGED consent PROVE consent'[c] = consent[c]
      BY <2>4
    <2> QED
      BY <2>2, <2>3, <2>4
      DEF Next, Serve, vars, Begin, Load, ReadConsents, ReadAllConsents, BeginExpire, Expire,
          Tick, Start, Cancel, Complete, Join, Revoke, StartSharing, Leave, Arrive, Remove,
          Upload, StopAll, Delete
  <1>2. clock' < ExpiresAt => clock < ExpiresAt
    <2>1. clock \in Nat /\ (clock' = clock \/ clock' = clock + 1)
      BY DEF TypeInv, TypeOK, Next, Serve, vars, Begin, Load, ReadConsents, ReadAllConsents,
             BeginExpire, Expire, Tick, Start, Cancel, Complete, Join, Grant, Revoke,
             StartSharing, Leave, Arrive, Remove, Upload, StopAll, Delete
    <2> QED BY <2>1, TimeAssumption
  <1> QED BY <1>1, <1>2 DEF GrantedRows, HasActiveConsent, IsActive, RowsOf

\* Only the commit of a start opens a journey.
LEMMA OpenedByStart ==
  ASSUME [Next]_vars, \A s \in Slots : ~Start(s)
  PROVE  journey' \in Open => journey \in Open
  BY DEF Next, Serve, vars, Begin, Load, ReadConsents, ReadAllConsents, BeginExpire, Expire,
         Tick, Cancel, Complete, Join, Grant, Revoke, StartSharing, Leave, Arrive, Remove,
         Upload, StopAll, Delete, CompleteIf, Open

\* What a deletion in flight has read is still all there is, unless a grant of the
\* visitor or a start of the host has been in flight beside it, which it has seen.
DeletionReads(r) ==
  req[r].op = "Delete" /\ req[r].phase # "idle" =>
    /\ req[r].who \notin Guests
    /\ Overlaps(req[r]) \subseteq seen[r]
    /\ req[r].phase = "ready" /\ "grant" \notin seen[r] => GrantedRows(req[r].who) \subseteq req[r].rows
    /\ req[r].who = Host /\ "start" \notin seen[r] /\ journey \in Open => req[r].journey \in Open

DeletionInv ==
  /\ deleted \cap Guests = {}
  /\ \A r \in Slots : req[r].op = "Start" => req[r].who = Host
  /\ \A r \in Slots : DeletionReads(r)

\* With no grant, or start, seen so far, none commits now.
LEMMA NoneCommits ==
  ASSUME TypeInv, NEW r \in Slots, req[r].op = "Delete", Overlaps(req[r]) \subseteq seen[r],
         \A s \in Slots : req[s].op = "Start" => req[s].who = Host
  PROVE  /\ "grant" \notin seen[r] =>
              InFlight("Grant", req[r].who) = {}
                /\ \A s \in Slots : ~(Grant(s) /\ req[s].who = req[r].who)
         /\ "start" \notin seen[r] /\ req[r].who = Host =>
              InFlight("Start", Host) = {} /\ \A s \in Slots : ~Start(s)
  BY DEF Overlaps, InFlight, Grant, Start, Is

LEMMA DeletionReadsKept ==
  ASSUME TypeInv, DeletionInv, HistoryNext, NEW r \in Slots
  PROVE  DeletionReads(r)'
  <1> SUFFICES ASSUME req'[r].op = "Delete", req'[r].phase # "idle"
               PROVE  DeletionReads(r)'
    BY DEF DeletionReads
  <1>1. [Next]_vars /\ Overlaps(req[r])' \subseteq seen'[r] /\ seen[r] \subseteq seen'[r]
    BY SeenGrows DEF HistoryNext
  <1>2. ASSUME NEW op \in Ops, NEW v \in Visitors \cup {Host}, Begin(r, op, v)
        PROVE  DeletionReads(r)'
    <2>1. op = "Delete" /\ req'[r].who = v /\ req'[r].phase = "begun" /\ journey' = journey
      BY <1>2, BegunFields DEF Begin
    <2>2. v \notin Guests
      BY <1>2, <2>1, ActorsAssumption, GuestsAssumption DEF Begin, Authenticated, HostOps, MemberOps
    <2>3. v = Host => req'[r].journey = journey
      BY <1>2, BegunFields
    <2> QED BY <1>1, <2>1, <2>2, <2>3 DEF DeletionReads
  <1>3. ASSUME req[r].op = "Delete", req[r].phase # "idle", req'[r].who = req[r].who,
               req'[r].journey = req[r].journey,
               \/ req'[r].phase = req[r].phase /\ req'[r].rows = req[r].rows
               \/ req'[r].rows = GrantedRows(req[r].who) /\ consent' = consent
        PROVE  DeletionReads(r)'
    <2> PICK v \in Visitors \cup {Host} : v = req[r].who
      BY <1>3 DEF TypeInv, ActorsOK, AccountOps
    <2>1. /\ v \notin Guests /\ Overlaps(req[r]) \subseteq seen[r] /\ DeletionReads(r)
          /\ \A s \in Slots : req[s].op = "Start" => req[s].who = Host
      BY <1>3 DEF DeletionInv, DeletionReads
    <2>2. ASSUME req'[r].phase = "ready", "grant" \notin seen'[r]
          PROVE  GrantedRows(v)' \subseteq req'[r].rows
      <3>1. \A s \in Slots : ~(Grant(s) /\ req[s].who = v)
        BY <1>1, <1>3, <2>1, <2>2, NoneCommits
      <3>2. GrantedRows(v)' \subseteq GrantedRows(v)
        BY <1>1, <3>1, GrantedByGrant
      <3>3. CASE req'[r].phase = req[r].phase /\ req'[r].rows = req[r].rows
        BY <1>1, <1>3, <2>1, <2>2, <3>2, <3>3 DEF DeletionReads
      <3>4. CASE req'[r].rows = GrantedRows(req[r].who)
        BY <3>2, <3>4
      <3> QED BY <1>3, <3>3, <3>4
    <2>3. ASSUME v = Host, "start" \notin seen'[r], journey' \in Open
          PROVE  req'[r].journey \in Open
      <3>1. \A s \in Slots : ~Start(s)
        BY <1>1, <1>3, <2>1, <2>3, NoneCommits
      <3>2. journey \in Open
        BY <1>1, <2>3, <3>1, OpenedByStart
      <3> QED BY <1>1, <1>3, <2>1, <2>3, <3>2 DEF DeletionReads
    <2>4. req'[r].who = v
      BY <1>3
    <2> QED BY <1>1, <2>1, <2>2, <2>3, <2>4 DEF DeletionReads, GrantedRows
  <1>4. CASE req'[r] = req[r]
    BY <1>3, <1>4
  <1>5. CASE (Load(r) \/ ReadConsents(r) \/ ReadAllConsents(r)) /\ req'[r].op = req[r].op
               /\ req'[r].who = req[r].who /\ req[r].phase # "idle"
    <2>1. ReadAllConsents(r)
      BY <1>5 DEF Load, ReadConsents, AccountOps, ConsentOps
    <2>2. req'[r].rows = GrantedRows(req[r].who) /\ req'[r].journey = req[r].journey
          /\ consent' = consent
      BY <2>1 DEF ReadAllConsents, TypeInv, TypeOK, Request
    <2> QED BY <1>3, <1>5, <2>2
  <1> QED BY <1>1, <1>2, <1>4, <1>5, SlotStep DEF Idle

LEMMA DeletionInvKept ==
  ASSUME TypeInv, DeletionInv, [HistoryNext]_historyVars
  PROVE  DeletionInv'
  <1>1. CASE HistoryNext
    <2>1. [Next]_vars
      BY <1>1 DEF HistoryNext
    <2>2. \A r \in Slots : DeletionReads(r)'
      BY <1>1, DeletionReadsKept
    <2>3. ASSUME NEW r \in Slots, req'[r].op = "Start" PROVE req'[r].who = Host
      <3>1. ASSUME NEW op \in Ops, NEW v \in Visitors \cup {Host}, Begin(r, op, v)
            PROVE  req'[r].who = Host
        <4>1. op = "Start" /\ req'[r].who = v
          BY <2>3, <3>1, BegunFields
        <4> QED BY <3>1, <4>1 DEF Begin, Authenticated, MemberOps
      <3> QED BY <2>1, <2>3, <3>1, SlotStep DEF DeletionInv, Idle
    <2>4. deleted' \cap Guests = {}
      <3>1. CASE UNCHANGED deleted
        BY <3>1 DEF DeletionInv
      <3>2. ASSUME NEW s \in Slots, Delete(s) PROVE deleted' \cap Guests = {}
        BY <3>2 DEF Delete, Is, DeletionInv, DeletionReads
      <3> QED
        BY <2>1, <3>1, <3>2
        DEF Next, Serve, vars, Begin, Load, ReadConsents, ReadAllConsents, BeginExpire, Expire,
            Tick, Start, Cancel, Complete, Join, Grant, Revoke, StartSharing, Leave, Arrive,
            Remove, Upload, StopAll
    <2> QED BY <2>2, <2>3, <2>4 DEF DeletionInv
  <1>2. CASE UNCHANGED historyVars
    BY <1>2 DEF historyVars, vars, DeletionInv, DeletionReads, Overlaps, InFlight, GrantedRows, RowsOf
  <1> QED BY <1>1, <1>2

\* The sharing of a deleted account that has ended does not begin again.
LEMMA EndedStays ==
  ASSUME TypeInv, DeletionInv, [Next]_vars, NEW a \in Visitors \cup {Host}, a \in deleted, Ended(a)
  PROVE  Ended(a)'
  <1>1. ASSUME a = Host PROVE journey' \notin Open /\ InFlight("Start", Host)' = {}
    <2>1. \A s \in Slots : ~Begin(s, "Start", Host)
      BY <1>1, ActorsAssumption, GuestsAssumption DEF Begin, Authenticated, MemberOps
    <2>2. \A s \in Slots : ~Start(s)
      BY <1>1 DEF Start, Is, Ended, InFlight, DeletionInv
    <2> QED BY <1>1, <2>1, <2>2, InFlightFromBegin, OpenedByStart DEF Ended
  <1>2. ASSUME a \in Visitors PROVE ~HasActiveConsent(a)' /\ InFlight("Grant", a)' = {}
    <2>1. \A s \in Slots : ~Begin(s, "Grant", a)
      BY <1>2 DEF Begin, Authenticated, HostOps, DeletionInv
    <2>2. \A s \in Slots : ~(Grant(s) /\ req[s].who = a)
      BY <1>2 DEF Grant, Is, Ended, InFlight
    <2> QED BY <1>2, <2>1, <2>2, InFlightFromBegin, GrantedByGrant DEF Ended
  <1> QED BY <1>1, <1>2 DEF Ended

\* A deletion that saw no grant, or start, beside it ends the sharing.
LEMMA DeletionEnds ==
  ASSUME TypeInv, DeletionInv, [Next]_vars, NEW a \in Visitors \cup {Host},
         NEW r \in Slots, req[r].who = a, Delete(r), seen[r] \cap {"grant", "start"} = {}
  PROVE  Ended(a)'
  <1>1. /\ Is(r, "Delete", "ready") /\ SetRows(req[r].rows, "REVOKED") /\ Finish(r)
        /\ journey' = IF req[r].who = Host /\ req[r].journey \in Open THEN "CANCELLED" ELSE journey
    BY DEF Delete
  <1>2. /\ DeletionReads(r) /\ Overlaps(req[r]) \subseteq seen[r]
        /\ \A s \in Slots : req[s].op = "Start" => req[s].who = Host
    BY <1>1 DEF DeletionInv, DeletionReads, Is
  <1>3. \A s \in Slots, op \in {"Grant", "Start"} : ~Begin(s, op, a)
    <2> SUFFICES ASSUME NEW s \in Slots, NEW op \in {"Grant", "Start"}, Begin(s, op, a)
                 PROVE  FALSE
      OBVIOUS
    <2>1. req[s].phase = "idle" /\ req'[s].phase = "begun"
      BY BegunFields DEF Begin
    <2>2. req'[s] = req[s] \/ req'[s] = Idle
      BY <1>1 DEF Finish, TypeInv, TypeOK
    <2> QED BY <2>1, <2>2 DEF Idle
  <1>4. ASSUME a = Host PROVE journey' \notin Open /\ InFlight("Start", Host)' = {}
    <2>1. InFlight("Start", Host) = {}
      BY <1>1, <1>2, <1>4, NoneCommits DEF Is
    <2>2. journey' \notin Open
      BY <1>1, <1>2, <1>4 DEF DeletionReads, Is, Open
    <2> QED BY <1>3, <1>4, <2>1, <2>2, InFlightFromBegin
  <1>5. ASSUME a \in Visitors PROVE ~HasActiveConsent(a)' /\ InFlight("Grant", a)' = {}
    <2>1. InFlight("Grant", a) = {} /\ GrantedRows(a) \subseteq req[r].rows
      BY <1>1, <1>2, NoneCommits DEF DeletionReads, Is
    <2>2. ~HasActiveConsent(a)'
      BY <1>1, <2>1 DEF SetRows, HasActiveConsent, IsActive, GrantedRows, RowsOf
    <2> QED BY <1>3, <1>5, <2>1, <2>2, InFlightFromBegin
  <1> QED BY <1>4, <1>5 DEF Ended

\* DeletionFinal for any number of requests in flight: what a deletion has read can
\* only have been added to by a request that it has seen beside it, and a deleted
\* account begins none.
THEOREM DeletionFinalHolds == HistorySpec => DeletionFinal
<1>1. HistoryInit => DeletionInv
  BY DEF HistoryInit, Init, DeletionInv, DeletionReads, Idle
<1>2. TypeInv /\ DeletionInv /\ [HistoryNext]_historyVars => DeletionInv'
  BY DeletionInvKept
<1>3. TypeInv /\ DeletionInv /\ [HistoryNext]_historyVars =>
        [\A a \in Visitors \cup {Host} :
           \/ a \in deleted /\ Ended(a)
           \/ \E r \in Slots : req[r].who = a /\ Delete(r) /\ seen[r] \cap {"grant", "start"} = {}
           => Ended(a)']_historyVars
  <2>1. [HistoryNext]_historyVars => [Next]_vars
    BY DEF HistoryNext, historyVars
  <2> QED BY <2>1, EndedStays, DeletionEnds
<1> QED BY <1>1, <1>2, <1>3, HistoryTyped, PTL DEF HistorySpec, DeletionFinal

=============================================================================
