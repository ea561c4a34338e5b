------------------------ MODULE JourneySharingProofs ------------------------
(***************************************************************************)
(* Proofs about JourneySharing, for any visitors, any number of requests   *)
(* in flight and any number of consent rows: its type invariant, that      *)
(* nobody shares without having consented, and that an ended consent       *)
(* never authorizes again.                                                 *)
(***************************************************************************)
EXTENDS JourneySharing, TLAPS

\* A request acts for an actor that may issue it.
ActorsOK ==
  \A r \in Slots :
    /\ req[r].op \in MemberOps \cup {"Join", "Remove", "StopAll"} => req[r].who \in Visitors
    /\ req[r].op \in AccountOps => req[r].who \in Visitors \cup {Host}

Consented(v) == \E c \in RowsOf(v) : consent[c] # "NONE"

\* What a request has read about its visitor implies an earlier consent: the
\* strengthening that makes NoSharingWithoutConsent inductive, for the read and
\* the write of one request are different steps.
ReadsImplyConsent ==
  \A r \in Slots :
    \/ Is(r, "Arrive", "loaded")
    \/ Is(r, "Arrive", "ready")
    \/ Is(r, "Upload", "loaded")
    \/ Is(r, "Upload", "ready")
    \/ Is(r, "StartSharing", "ready")
    => Consented(req[r].who)

TypeInv == TypeOK /\ ActorsOK

SharingInv == TypeInv /\ NoSharingWithoutConsent /\ ReadsImplyConsent

-----------------------------------------------------------------------------
(* Type correctness *)

LEMMA IdleIsRequest == Idle \in Request
  BY DEF Idle, Request, AllOps, HostOps, MemberOps, AccountOps, Actors, JourneyStatus

LEMMA ReceivedFields ==
  ASSUME NEW op \in AllOps, NEW v \in Visitors \cup {Host}, journey \in JourneyStatus
  PROVE  /\ Received(op, v) \in Request
         /\ Received(op, v).op = op /\ Received(op, v).who = v
         /\ Received(op, v).phase = "begun" /\ Received(op, v).rows = {}
         /\ ~(op \in AccountOps /\ v # Host) => Received(op, v).journey = journey
  <1>1. CASE op \in AccountOps /\ v # Host
    BY <1>1 DEF Received, Idle, Request, Actors, JourneyStatus
  <1>2. CASE ~(op \in AccountOps /\ v # Host)
    BY <1>2 DEF Received, Idle, Request, Actors
  <1> QED BY <1>1, <1>2

\* A request that begins is for an operation and an actor the slots know.
LEMMA BegunFields ==
  ASSUME TypeInv, NEW r \in Slots, NEW op, NEW v \in Visitors \cup {Host}, Begin(r, op, v)
  PROVE  /\ op \in AllOps /\ Received(op, v) \in Request
         /\ req'[r] = Received(op, v)
         /\ req'[r].op = op /\ req'[r].who = v
         /\ req'[r].phase = "begun" /\ req'[r].rows = {}
         /\ ~(op \in AccountOps /\ v # Host) => req'[r].journey = journey
  <1>1. op \in AllOps
    BY DEF Begin, Authenticated, AllOps, HostOps, MemberOps, AccountOps
  <1>2. req'[r] = Received(op, v) /\ journey \in JourneyStatus
    BY DEF Begin, TypeInv, TypeOK
  <1> QED BY <1>1, <1>2, ReceivedFields

\* A step that writes a well-typed record into one slot keeps all slots typed.
LEMMA SlotTyped ==
  ASSUME NEW r \in Slots, NEW q \in Request, req \in [Slots -> Request],
         req' = [req EXCEPT ![r] = q]
  PROVE  req' \in [Slots -> Request]
  OBVIOUS

LEMMA FinishTyped ==
  ASSUME NEW r \in Slots, TypeInv, Finish(r)
  PROVE  req' \in [Slots -> Request] /\ ActorsOK'
  <1>1. req' \in [Slots -> Request]
    BY IdleIsRequest DEF Finish, TypeInv, TypeOK
  <1>2. ActorsOK'
    BY DEF ActorsOK, Finish, TypeInv, TypeOK, Idle, MemberOps, AccountOps
  <1> QED BY <1>1, <1>2

LEMMA SetRowsTyped ==
  ASSUME NEW rows, NEW status \in ConsentStatus, consent \in [Rows -> ConsentStatus],
         SetRows(rows, status)
  PROVE  consent' \in [Rows -> ConsentStatus]
  BY DEF SetRows

\* Every status and every request record stays within its type, and a request
\* acts for a visitor or account that may issue it.
THEOREM TypeCorrect == Spec => [](TypeOK /\ ActorsOK)
<1>1. Init => TypeInv
  BY IdleIsRequest, TimeAssumption
  DEF Init, TypeInv, TypeOK, ActorsOK, Idle, JourneyStatus, ParticipantStatus,
      ConsentStatus, MemberOps, AccountOps
<1>2. ASSUME TypeInv, [Next]_vars PROVE TypeInv'
  <2> USE <1>2 DEF TypeInv
  <2>1. ASSUME NEW r \in Slots, NEW op \in Ops, NEW v \in Visitors \cup {Host}, Begin(r, op, v)
        PROVE  TypeInv'
    <3> DEFINE q == Received(op, v)
    <3>2. q \in Request /\ q.op = op /\ q.who = v
      BY <2>1, BegunFields
    <3> HIDE DEF q
    <3>3. req' = [req EXCEPT ![r] = q] /\ req' \in [Slots -> Request]
      BY <2>1, <3>2 DEF Begin, TypeOK, q
    <3>4. /\ op \in MemberOps \cup {"Join", "Remove", "StopAll"} => v \in Visitors
          /\ q.op = op /\ q.who = v
      BY <2>1, <3>2, ActorsAssumption, GuestsAssumption DEF Begin, Authenticated, HostOps, MemberOps
    <3>5. ActorsOK'
      BY <3>3, <3>4 DEF ActorsOK, TypeOK
    <3> QED BY <2>1, <3>3, <3>5 DEF Begin, TypeOK
  <2>2. ASSUME NEW r \in Slots, Load(r) PROVE TypeInv'
    <3> DEFINE q == req[r]
               s == IF q.who \in Visitors THEN pstatus[q.who] ELSE "NONE"
               n == [q EXCEPT
                      !.phase = "loaded", !.journey = Idle.journey,
                      !.accepted = q.op \in {"Grant", "StartSharing"} /\ s = "ACCEPTED",
                      !.last = q.op \in {"Leave", "Arrive", "Remove"} /\ LastOne(q)]
    <3>1. CASE Admits(q, s)
      <4>1. req' = [req EXCEPT ![r] = n]
        BY <2>2, <3>1 DEF Load
      <4>2. LastOne(q) \in BOOLEAN
        BY DEF LastOne
      <4>3. n \in Request /\ n.op = q.op /\ n.who = q.who
        BY <4>2 DEF TypeOK, Request, Idle, JourneyStatus
      <4> HIDE DEF q, n
      <4>4. req' \in [Slots -> Request]
        BY <4>1, <4>3 DEF TypeOK
      <4>5. ActorsOK'
        BY <4>1, <4>3 DEF ActorsOK, TypeOK, q
      <4> QED BY <4>4, <4>5, <2>2 DEF Load, TypeOK
    <3>2. CASE ~Admits(q, s)
      BY <3>2, <2>2, FinishTyped DEF Load, TypeOK
    <3> QED BY <3>1, <3>2
  <2>3. ASSUME NEW r \in Slots, ReadConsents(r) PROVE TypeInv'
    <3> DEFINE rows == GrantedRows(req[r].who)
    <3>1. CASE EndsAtConsent(req[r].op, rows)
      BY <3>1, <2>3, FinishTyped DEF ReadConsents, TypeOK
    <3>2. CASE ~EndsAtConsent(req[r].op, rows)
      <4> DEFINE kept == IF Cardinality(rows) > 1 THEN {} ELSE rows
                 n == [req[r] EXCEPT !.phase = "ready", !.rows = kept]
      <4>1. req' = [req EXCEPT ![r] = n]
        BY <2>3, <3>2 DEF ReadConsents, TypeOK, Request
      <4>2. kept \subseteq Rows
        BY DEF GrantedRows, RowsOf
      <4>3. n \in Request /\ n.op = req[r].op /\ n.who = req[r].who
        BY <4>2 DEF TypeOK, Request
      <4> HIDE DEF n
      <4>4. req' \in [Slots -> Request] /\ ActorsOK'
        BY <4>1, <4>3 DEF ActorsOK, TypeOK
      <4> QED BY <4>4, <2>3 DEF ReadConsents, TypeOK
    <3> QED BY <3>1, <3>2
  <2>4. ASSUME NEW r \in Slots, ReadAllConsents(r) PROVE TypeInv'
    <3> DEFINE rows == GrantedRows(req[r].who)
               n == [req[r] EXCEPT !.phase = "ready", !.rows = rows]
    <3>1. req' = [req EXCEPT ![r] = n]
      BY <2>4 DEF ReadAllConsents, TypeOK, Request
    <3>2. rows \subseteq Rows
      BY DEF GrantedRows, RowsOf
    <3>3. n \in Request /\ n.op = req[r].op /\ n.who = req[r].who
      BY <3>2 DEF TypeOK, Request
    <3> HIDE DEF n
    <3>4. req' \in [Slots -> Request] /\ ActorsOK'
      BY <3>1, <3>3 DEF ActorsOK, TypeOK
    <3> QED BY <3>4, <2>4 DEF ReadAllConsents, TypeOK
  <2>5. ASSUME NEW r \in Slots, Start(r) \/ Cancel(r) \/ Complete(r) PROVE TypeInv'
    BY <2>5, FinishTyped DEF Start, Cancel, Complete, TypeOK, JourneyStatus
  <2>6. ASSUME NEW r \in Slots, Join(r) PROVE TypeInv'
    BY <2>6, FinishTyped DEF Join, TypeOK, ParticipantStatus
  <2>7. ASSUME NEW r \in Slots, Grant(r) PROVE TypeInv'
    <3>1. consent' \in [Rows -> ConsentStatus]
      BY <2>7, SetRowsTyped DEF Grant, TypeOK, ConsentStatus
    <3>2. pstatus' \in [Visitors -> ParticipantStatus]
      BY <2>7 DEF Grant, Activate, TypeOK, ParticipantStatus
    <3> QED BY <3>1, <3>2, <2>7, FinishTyped DEF Grant, TypeOK
  <2>8. ASSUME NEW r \in Slots, Revoke(r) \/ StopAll(r) PROVE TypeInv'
    <3>1. consent' \in [Rows -> ConsentStatus]
      BY <2>8, SetRowsTyped DEF Revoke, StopAll, TypeOK, ConsentStatus
    <3> QED BY <3>1, <2>8, FinishTyped DEF Revoke, StopAll, TypeOK
  <2>9. ASSUME NEW r \in Slots, StartSharing(r) PROVE TypeInv'
    BY <2>9, FinishTyped DEF StartSharing, Activate, TypeOK, ParticipantStatus
  <2>10. ASSUME NEW r \in Slots, Leave(r) PROVE TypeInv'
    BY <2>10, FinishTyped DEF Leave, CompleteIf, TypeOK, ParticipantStatus, JourneyStatus
  <2>11. ASSUME NEW r \in Slots, Arrive(r) \/ Remove(r) PROVE TypeInv'
    <3>1. consent' \in [Rows -> ConsentStatus]
      BY <2>11, SetRowsTyped DEF Arrive, Remove, TypeOK, ConsentStatus
    <3> QED BY <3>1, <2>11, FinishTyped
            DEF Arrive, Remove, CompleteIf, TypeOK, ParticipantStatus, JourneyStatus
  <2>12. ASSUME NEW r \in Slots, Upload(r) PROVE TypeInv'
    <3>1. req[r].who \in Visitors
      BY <2>12 DEF Upload, Is, ActorsOK, MemberOps
    <3> QED BY <3>1, <2>12, FinishTyped DEF Upload, TypeOK
  <2>13. ASSUME NEW r \in Slots, Delete(r) PROVE TypeInv'
    <3>1. consent' \in [Rows -> ConsentStatus]
      BY <2>13, SetRowsTyped DEF Delete, TypeOK, ConsentStatus
    <3>2. req[r].who \in Visitors \cup {Host}
      BY <2>13 DEF Delete, Is, ActorsOK, AccountOps
    <3> QED BY <3>1, <3>2, <2>13, FinishTyped DEF Delete, TypeOK, JourneyStatus
  <2>14. CASE BeginExpire
    <3> DEFINE n == [Idle EXCEPT !.phase = "ready",
                       !.rows = {c \in Rows : consent[c] = "GRANTED" /\ ExpiresAt <= clock}]
    <3>1. Worker \in Slots /\ req' = [req EXCEPT ![Worker] = n]
      BY <2>14 DEF BeginExpire
    <3>2. n \in Request /\ n.op = "Expire"
      BY IdleIsRequest DEF Idle, Request
    <3> HIDE DEF n
    <3>3. req' \in [Slots -> Request] /\ ActorsOK'
      BY <3>1, <3>2 DEF ActorsOK, TypeOK, MemberOps, AccountOps
    <3> QED BY <3>3, <2>14 DEF BeginExpire, TypeOK
  <2>15. CASE Expire
    <3>1. consent' \in [Rows -> ConsentStatus]
      BY <2>15, SetRowsTyped DEF Expire, TypeOK, ConsentStatus
    <3> QED BY <3>1, <2>15, FinishTyped DEF Expire, TypeOK
  <2>16. CASE Tick
    BY <2>16 DEF Tick, TypeOK, ActorsOK
  <2>17. CASE UNCHANGED vars
    BY <2>17 DEF vars, TypeOK, ActorsOK
  <2> QED
    BY <2>1, <2>2, <2>3, <2>4, <2>5, <2>6, <2>7, <2>8, <2>9, <2>10, <2>11, <2>12, <2>13,
       <2>14, <2>15, <2>16, <2>17
    DEF Next, Serve
<1> QED BY <1>1, <1>2, PTL DEF Spec, TypeInv

-----------------------------------------------------------------------------
(* Consent rows *)

\* No step unmakes a row, and no step revives an ended one: only a grant writes
\* GRANTED, and only into a row that does not exist yet.
LEMMA RowsKept ==
  ASSUME TypeInv, [Next]_vars, NEW c \in Rows
  PROVE  /\ consent[c] # "NONE" => consent'[c] # "NONE"
         /\ consent[c] \in {"REVOKED", "EXPIRED"} => consent'[c] \in {"REVOKED", "EXPIRED"}
<1> DEFINE Kept ==
      /\ consent[c] # "NONE" => consent'[c] # "NONE"
      /\ consent[c] \in {"REVOKED", "EXPIRED"} => consent'[c] \in {"REVOKED", "EXPIRED"}
<1>1. ASSUME NEW r \in Slots, Grant(r) PROVE Kept
  <2>1. PICK i \in 1 .. MaxRows : /\ consent[<<req[r].who, i>>] = "NONE"
                                  /\ SetRows({<<req[r].who, i>>}, "GRANTED")
    BY <1>1 DEF Grant
  <2> QED BY <2>1 DEF SetRows
<1>2. ASSUME NEW rows, NEW status \in {"REVOKED", "EXPIRED"}, SetRows(rows, status)
      PROVE  Kept
  BY <1>2 DEF SetRows
<1>3. ASSUME NEW r \in Slots,
             Revoke(r) \/ StopAll(r) \/ Arrive(r) \/ Remove(r) \/ Delete(r)
      PROVE  Kept
  BY <1>2, <1>3 DEF Revoke, StopAll, Arrive, Remove, Delete
<1>4. ASSUME Expire PROVE Kept
  BY <1>2, <1>4 DEF Expire
<1>5. ASSUME UNCHANGED consent PROVE Kept
  BY <1>5
<1> QED
  BY <1>1, <1>3, <1>4, <1>5
  DEF Next, Serve, vars, Begin, Load, ReadConsents, ReadAllConsents, Start, Cancel,
      Complete, Join, StartSharing, Leave, Upload, BeginExpire, Tick

\* A consent that was revoked or has expired never authorizes again.
THEOREM ConsentNeverRevivedHolds == Spec => ConsentNeverRevived
<1>1. TypeInv /\ [Next]_vars
        => [\A c \in Rows : consent[c] \in {"REVOKED", "EXPIRED"}
              => consent'[c] \in {"REVOKED", "EXPIRED"}]_vars
  BY RowsKept
<1> QED BY <1>1, TypeCorrect, PTL DEF Spec, TypeInv, ConsentNeverRevived

-----------------------------------------------------------------------------
(* Nobody shares without having consented *)

LEMMA ConsentedStays ==
  ASSUME TypeInv, [Next]_vars, NEW v, Consented(v)
  PROVE  Consented(v)'
  BY RowsKept DEF Consented, RowsOf

\* The disjuncts of ReadsImplyConsent survive a step that only frees a slot.
LEMMA FreedSlot ==
  ASSUME SharingInv, [Next]_vars, NEW r \in Slots, Finish(r)
  PROVE  ReadsImplyConsent'
  BY ConsentedStays DEF SharingInv, TypeInv, TypeOK, ReadsImplyConsent, Finish, Idle, Is

\* A status or a location left alone keeps the consent it rests on.
LEMMA SharingKept ==
  ASSUME SharingInv, [Next]_vars, UNCHANGED <<pstatus, located>>
  PROVE  NoSharingWithoutConsent'
  BY ConsentedStays DEF SharingInv, NoSharingWithoutConsent, Consented, RowsOf

\* Nobody is ever active or arrived, and no location is ever stored, without a
\* consent of that visitor, however the requests interleave.
THEOREM NoSharingWithoutConsentHolds == Spec => []NoSharingWithoutConsent
<1>1. Init => SharingInv
  BY TimeAssumption, IdleIsRequest
  DEF Init, SharingInv, TypeInv, TypeOK, ActorsOK, Idle, JourneyStatus, ParticipantStatus,
      ConsentStatus, MemberOps, AccountOps, NoSharingWithoutConsent, ReadsImplyConsent, Is
<1>2. ASSUME SharingInv, TypeInv', [Next]_vars PROVE SharingInv'
  <2> USE <1>2
  <2> DEFINE Kept == NoSharingWithoutConsent' /\ ReadsImplyConsent'
  <2> SUFFICES Kept
    BY DEF SharingInv
  <2>1. ASSUME NEW r \in Slots, NEW op \in Ops, NEW v \in Visitors \cup {Host}, Begin(r, op, v)
        PROVE  Kept
    <3>1. ReadsImplyConsent'
      BY <2>1, ConsentedStays, BegunFields
      DEF Begin, SharingInv, TypeInv, TypeOK, ReadsImplyConsent, Is
    <3> QED BY <3>1, <2>1, SharingKept DEF Begin
  <2>2. ASSUME NEW r \in Slots, Load(r) PROVE Kept
    <3> DEFINE q == req[r]
               t == IF q.who \in Visitors THEN pstatus[q.who] ELSE "NONE"
               n == [q EXCEPT
                      !.phase = "loaded", !.journey = Idle.journey,
                      !.accepted = q.op \in {"Grant", "StartSharing"} /\ t = "ACCEPTED",
                      !.last = q.op \in {"Leave", "Arrive", "Remove"} /\ LastOne(q)]
               Loaded ==
                 /\ \A s \in Slots \ {r} : req'[s] = req[s]
                 /\ req'[r].phase = "loaded" =>
                      /\ req'[r].op = q.op /\ req'[r].who = q.who
                      /\ q.op \in {"Arrive", "Upload"} => q.who \in Visitors /\ t = "ACTIVE"
                 /\ req'[r].phase \in {"loaded", "idle"}
    <3>1. ASSUME Admits(q, t) PROVE Loaded
      <4>1. req' = [req EXCEPT ![r] = n]
        BY <2>2, <3>1 DEF Load
      <4>2. n.op = q.op /\ n.who = q.who /\ n.phase = "loaded"
        BY DEF SharingInv, TypeInv, TypeOK, Request
      <4>3. q.op \in {"Arrive", "Upload"} => t = "ACTIVE"
        BY <3>1 DEF Admits
      <4>4. q.op \in {"Arrive", "Upload"} => q.who \in Visitors
        BY DEF SharingInv, TypeInv, ActorsOK, MemberOps
      <4> HIDE DEF n
      <4>5. req'[r] = n /\ \A s \in Slots \ {r} : req'[s] = req[s]
        BY <4>1 DEF SharingInv, TypeInv, TypeOK
      <4> QED BY <4>2, <4>3, <4>4, <4>5
    <3>2. ASSUME ~Admits(q, t) PROVE Loaded
      <4>1. Finish(r)
        BY <2>2, <3>2 DEF Load
      <4> QED BY <4>1 DEF Finish, Idle, SharingInv, TypeInv, TypeOK
    <3>3. Loaded
      BY <3>1, <3>2
    <3>4. req'[r].phase = "loaded" /\ req'[r].op \in {"Arrive", "Upload"}
            => Consented(q.who)
      BY <3>3 DEF SharingInv, NoSharingWithoutConsent, Consented
    <3>5. ReadsImplyConsent'
      BY <3>3, <3>4, ConsentedStays DEF SharingInv, ReadsImplyConsent, Is
    <3> QED BY <3>5, <2>2, SharingKept DEF Load
  <2>3. ASSUME NEW r \in Slots, ReadConsents(r) PROVE Kept
    <3> DEFINE rows == GrantedRows(req[r].who)
               n == [req[r] EXCEPT !.phase = "ready",
                                   !.rows = IF Cardinality(rows) > 1 THEN {} ELSE rows]
               Looked ==
                 /\ \A s \in Slots \ {r} : req'[s] = req[s]
                 /\ req'[r].phase = "ready" =>
                      /\ req'[r].op = req[r].op /\ req'[r].who = req[r].who
                      /\ ~EndsAtConsent(req[r].op, rows)
                 /\ req'[r].phase \in {"ready", "idle"}
                 /\ req[r].phase = "loaded"
    <3>1. Looked
      <4>1. ASSUME EndsAtConsent(req[r].op, rows) PROVE Looked
        BY <2>3, <4>1 DEF ReadConsents, Finish, Idle, SharingInv, TypeInv, TypeOK
      <4>2. ASSUME ~EndsAtConsent(req[r].op, rows) PROVE Looked
        <5>1. req' = [req EXCEPT ![r] = n] /\ req[r].phase = "loaded"
          BY <2>3, <4>2 DEF ReadConsents, SharingInv, TypeInv, TypeOK, Request
        <5>2. n.op = req[r].op /\ n.who = req[r].who /\ n.phase = "ready"
          BY DEF SharingInv, TypeInv, TypeOK, Request
        <5> HIDE DEF n
        <5> QED BY <4>2, <5>1, <5>2 DEF SharingInv, TypeInv, TypeOK
      <4> QED BY <4>1, <4>2
    <3>2. req[r].op \in {"StartSharing", "Upload"} /\ ~EndsAtConsent(req[r].op, rows)
            => Consented(req[r].who)
      BY DEF EndsAtConsent, IsActive, GrantedRows, Consented
    <3>3. ReadsImplyConsent'
      BY <3>1, <3>2, ConsentedStays DEF SharingInv, ReadsImplyConsent, Is
    <3> QED BY <3>3, <2>3, SharingKept DEF ReadConsents
  <2>4. ASSUME NEW r \in Slots, ReadAllConsents(r) PROVE Kept
    <3>1. ReadsImplyConsent'
      BY <2>4, ConsentedStays
      DEF ReadAllConsents, SharingInv, TypeInv, TypeOK, Request, ReadsImplyConsent,
          AccountOps, Is
    <3> QED BY <3>1, <2>4, SharingKept DEF ReadAllConsents
  <2>5. ASSUME NEW r \in Slots,
               \/ Start(r) \/ Cancel(r) \/ Complete(r) \/ Revoke(r) \/ StopAll(r) \/ Delete(r)
        PROVE  Kept
    BY <2>5, FreedSlot, SharingKept DEF Start, Cancel, Complete, Revoke, StopAll, Delete
  <2>6. ASSUME NEW r \in Slots, Join(r) \/ Leave(r) \/ Remove(r) PROVE Kept
    <3>1. /\ Finish(r)
          /\ located' = located
          /\ \A v \in Visitors : pstatus'[v] \in {"ACTIVE", "ARRIVED"} => pstatus'[v] = pstatus[v]
      BY <2>6 DEF Join, Leave, Remove, SharingInv, TypeInv, TypeOK
    <3>2. NoSharingWithoutConsent'
      BY <3>1, ConsentedStays DEF SharingInv, NoSharingWithoutConsent, Consented, RowsOf
    <3> QED BY <3>1, <3>2, FreedSlot
  <2>7. ASSUME NEW r \in Slots, Grant(r) PROVE Kept
    <3>1. PICK i \in 1 .. MaxRows : SetRows({<<req[r].who, i>>}, "GRANTED")
      BY <2>7 DEF Grant
    <3>2. PICK w \in Visitors : w = req[r].who
      BY <2>7 DEF Grant, Is, SharingInv, TypeInv, ActorsOK, MemberOps
    <3>3. Consented(w)'
      BY <3>1, <3>2 DEF SetRows, Consented, RowsOf, Rows
    <3>4. /\ Finish(r)
          /\ located' = located
          /\ \A v \in Visitors \ {w} : pstatus'[v] = pstatus[v]
      BY <2>7, <3>2 DEF Grant, Activate, SharingInv, TypeInv, TypeOK
    <3>5. NoSharingWithoutConsent'
      BY <3>3, <3>4, ConsentedStays DEF SharingInv, NoSharingWithoutConsent, Consented, RowsOf
    <3> QED BY <3>4, <3>5, FreedSlot
  <2>8. ASSUME NEW r \in Slots, StartSharing(r) \/ Arrive(r) \/ Upload(r) PROVE Kept
    <3>1. Consented(req[r].who)
      BY <2>8 DEF StartSharing, Arrive, Upload, Is, SharingInv, ReadsImplyConsent
    <3>2. /\ Finish(r)
          /\ \A v \in Visitors \ {req[r].who} :
               pstatus'[v] = pstatus[v] /\ (v \in located' => v \in located)
      BY <2>8 DEF StartSharing, Activate, Arrive, Upload, SharingInv, TypeInv, TypeOK
    <3>3. NoSharingWithoutConsent'
      BY <3>1, <3>2, ConsentedStays DEF SharingInv, NoSharingWithoutConsent, Consented, RowsOf
    <3> QED BY <3>2, <3>3, FreedSlot
  <2>9. CASE BeginExpire
    <3>1. ReadsImplyConsent'
      BY <2>9, ConsentedStays
      DEF BeginExpire, SharingInv, TypeInv, TypeOK, ReadsImplyConsent, Idle, Is
    <3> QED BY <3>1, <2>9, SharingKept DEF BeginExpire
  <2>10. CASE Expire
    BY <2>10, FreedSlot, SharingKept DEF Expire
  <2>11. CASE Tick \/ UNCHANGED vars
    <3>1. UNCHANGED req
      BY <2>11 DEF Tick, vars
    <3>2. ReadsImplyConsent'
      BY <3>1, ConsentedStays DEF SharingInv, ReadsImplyConsent, Is
    <3> QED BY <3>2, <2>11, SharingKept DEF Tick, vars
  <2> QED
    BY <2>1, <2>2, <2>3, <2>4, <2>5, <2>6, <2>7, <2>8, <2>9, <2>10, <2>11 DEF Next, Serve
<1>3. SharingInv => NoSharingWithoutConsent
  BY DEF SharingInv
<1> QED BY <1>1, <1>2, <1>3, TypeCorrect, PTL DEF Spec, TypeInv

=============================================================================
