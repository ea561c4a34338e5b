------------------------ MODULE SerialSharingProofs ------------------------
(***************************************************************************)
(* Proofs about SerialSharing, for any visitors, consent rows and times:   *)
(* requests served one after another implement SharingContract, whatever   *)
(* the worker does in between, and a deletion ends the account's sharing.  *)
(* A request commits what it decided on earlier reads.  The invariant says *)
(* that with no other request in flight those reads are still true, as far *)
(* as the operation rests on them.                                         *)
(***************************************************************************)
EXTENDS SerialSharing, JourneySharingProofs, FiniteSetTheorems

Clients == Slots \ {Worker}

\* What was read of the journey is its status, or is as the guards required.
JourneyRead(r) ==
  /\ req[r].phase = "begun" /\ req[r].op \notin AccountOps => req[r].journey = journey
  /\ req[r].phase \in {"begun", "ready"} /\ req[r].op \in AccountOps /\ req[r].who = Host
       => req[r].journey = journey
  /\ Is(r, "Start", "loaded") => journey = "INVITED"
  /\ req[r].op \in {"Cancel", "Join", "Grant"} /\ req[r].phase \in {"loaded", "ready"}
       => journey \in Open
  /\ Is(r, "Complete", "loaded") \/ Is(r, "Upload", "loaded") => journey = "ACTIVE"

\* The visitor is the last one, as maybe_complete_journey would find now.
LastNow(v) ==
  journey = "ACTIVE" /\ \A u \in Visitors \ {v} : pstatus[u] \notin Contract!Pending

\* What was read of the participants is so still.
StatusRead(r) ==
  req[r].phase \in {"loaded", "ready"} =>
    /\ req[r].op = "Join" => pstatus[req[r].who] = "NONE"
    /\ req[r].op \in {"Grant", "StartSharing"} =>
         /\ pstatus[req[r].who] # "NONE"
         /\ req[r].accepted <=> pstatus[req[r].who] = "ACCEPTED"
    /\ req[r].op \in {"Leave", "Remove"} => pstatus[req[r].who] \in Contract!Pending
    /\ req[r].op = "Arrive" \/ Is(r, "Upload", "loaded") => pstatus[req[r].who] = "ACTIVE"
    /\ req[r].op \in {"Leave", "Arrive", "Remove"} => (req[r].last <=> LastNow(req[r].who))

\* No consent of the visitor is active but those among the rows read, and what
\* a gate found to be missing or present is so still.
RowsRead(r) ==
  req[r].phase = "ready" =>
    /\ req[r].rows \subseteq RowsOf(req[r].who)
    /\ req[r].op = "Grant" => ~HasActiveConsent(req[r].who)
    /\ req[r].op = "StartSharing" => ~req[r].accepted
    /\ req[r].op \in {"Revoke", "Arrive", "Remove", "StopAll", "Delete"} =>
         \A c \in RowsOf(req[r].who) : IsActive(c) => c \in req[r].rows

\* The account that asks is not deleted, and guests have none to delete.
AccountRead(r) ==
  /\ req[r].phase # "idle" /\ req[r].op = "Delete" => req[r].who \notin Guests
  /\ req[r].phase # "idle" /\ req[r].op = "Grant" => req[r].who \notin deleted

ReadsHold(r) == JourneyRead(r) /\ StatusRead(r) /\ RowsRead(r) /\ AccountRead(r)

\* The worker has found rows to expire only when the time had come.
WorkerReads ==
  Worker \in Slots => /\ req[Worker].op = "Expire"
                      /\ req[Worker].rows # {} => Lapsed

\* A visitor consents after joining, and the first consent activates.
ConsentsFollowJoin ==
  \A v \in Visitors :
    /\ pstatus[v] # "INVITED"
    /\ pstatus[v] \in {"NONE", "ACCEPTED"} => \A c \in RowsOf(v) : consent[c] = "NONE"

\* Two active consents of one visitor take two grants in flight.
OneActive == \A c, d \in Rows : IsActive(c) /\ IsActive(d) /\ c[1] = d[1] => c = d

StoreInv ==
  /\ ConsentsFollowJoin /\ OneActive
  /\ deleted \cap Guests = {}
  /\ DeletionEndsSharing

AloneInv == StoreInv /\ WorkerReads /\ \A r \in Clients : ReadsHold(r)

\* Rows that a request or the worker has read exist.
RowsMade == \A r \in Slots : \A c \in req[r].rows : consent[c] # "NONE"

SerialInv == TypeInv /\ RowsMade /\ AloneInv

-----------------------------------------------------------------------------
(* The rows of a visitor *)

\* More than one GRANTED row of a visitor means that the time has come.
LEMMA OneGranted ==
  ASSUME OneActive, NEW v, clock \in Nat, ~Lapsed
  PROVE  ~(Cardinality(GrantedRows(v)) > 1)
  <1>1. \A c, d \in GrantedRows(v) : c = d
    BY TimeAssumption DEF OneActive, GrantedRows, RowsOf, IsActive, Lapsed
  <1>2. CASE GrantedRows(v) = {}
    BY <1>2, FS_EmptySet
  <1>3. CASE GrantedRows(v) # {}
    <2>1. PICK c : GrantedRows(v) = {c}
      BY <1>1, <1>3
    <2> QED BY <2>1, FS_Singleton
  <1> QED BY <1>2, <1>3

\* Writing an end into some rows makes no row active and these inactive.
LEMMA RowsEnded ==
  ASSUME NEW rows, NEW status \in {"REVOKED", "EXPIRED"}, SetRows(rows, status), clock' = clock
  PROVE  \A c \in Rows : IsActive(c)' <=> IsActive(c) /\ c \notin rows
  BY DEF SetRows, IsActive

LEMMA ActiveKept ==
  ASSUME UNCHANGED <<clock, consent>>
  PROVE  Granted' = Granted /\ \A c \in Rows : IsActive(c)' <=> IsActive(c)
  <1>1. \A c \in Rows : IsActive(c)' <=> IsActive(c)
    BY DEF IsActive
  <1> QED BY <1>1 DEF Granted, HasActiveConsent, RowsOf

\* The revocation of the rows that a request has read ends the consent of its
\* visitor and no other.
LEMMA Withdrawn ==
  ASSUME NEW r \in Slots, RowsRead(r), req[r].phase = "ready",
         req[r].op \in {"Revoke", "Arrive", "Remove", "StopAll", "Delete"},
         SetRows(req[r].rows, "REVOKED"), clock' = clock
  PROVE  Granted' = Granted \ {req[r].who}
  <1>1. \A c \in Rows : IsActive(c)' <=> IsActive(c) /\ c \notin req[r].rows
    BY RowsEnded
  <1>2. \A v \in Visitors : HasActiveConsent(v)' <=> HasActiveConsent(v) /\ v # req[r].who
    <2> TAKE v \in Visitors
    <2>1. CASE v = req[r].who
      BY <1>1, <2>1 DEF HasActiveConsent, RowsOf, RowsRead
    <2>2. CASE v # req[r].who
      BY <1>1, <2>2 DEF HasActiveConsent, RowsOf, RowsRead
    <2> QED BY <2>1, <2>2
  <1> QED BY <1>2 DEF Granted

-----------------------------------------------------------------------------
(* One request at a time *)

\* What a step leaves in the slots: the request's own is given, the worker's is
\* as it was, and there is no other.
LEMMA OwnSlot ==
  ASSUME SerialInv, NEW r \in Clients, NEW q \in Request, req' = [req EXCEPT ![r] = q],
         clock' = clock
  PROVE  /\ req'[r] = q
         /\ \A s \in Clients : s = r
         /\ WorkerReads'
  <1>1. req \in [Slots -> Request]
    BY DEF SerialInv, TypeInv, TypeOK
  <1>2. req'[r] = q /\ \A s \in Slots \ {r} : req'[s] = req[s]
    BY <1>1 DEF Clients
  <1> QED BY <1>2, SerialAssumption DEF SerialInv, AloneInv, WorkerReads, Clients, Lapsed

\* A commit frees the slot; what remains is what it has written.
LEMMA Committed ==
  ASSUME SerialInv, NEW r \in Clients, Finish(r), clock' = clock
  PROVE  WorkerReads' /\ \A s \in Clients : ReadsHold(s)'
  <1>1. req'[r] = Idle /\ (\A s \in Clients : s = r) /\ WorkerReads'
    BY OwnSlot, IdleIsRequest DEF Finish
  <1>2. ReadsHold(r)'
    BY <1>1 DEF ReadsHold, JourneyRead, StatusRead, RowsRead, AccountRead, Idle, Is
  <1> QED BY <1>1, <1>2

\* A step that writes nothing of this keeps it.
LEMMA StoreKept ==
  ASSUME SerialInv, UNCHANGED <<clock, journey, pstatus, consent, deleted>>
  PROVE  StoreInv'
  BY ActiveKept
  DEF SerialInv, AloneInv, StoreInv, ConsentsFollowJoin, OneActive, DeletionEndsSharing,
      HasActiveConsent, RowsOf

LEMMA BeginAlone ==
  ASSUME SerialInv, NEW r \in Slots, NEW op \in Ops, NEW v \in Visitors \cup {Host},
         Begin(r, op, v)
  PROVE  AloneInv'
  <1> DEFINE q == Received(op, v)
  <1>1. r \in Clients /\ op \in AllOps
    BY BegunFields DEF Begin, Clients, SerialInv
  <1>2. q \in Request
    BY BegunFields DEF SerialInv
  <1>3. /\ q.op = op /\ q.who = v /\ q.phase = "begun"
        /\ ~(op \in AccountOps /\ v # Host) => q.journey = journey
    BY <1>1, ReceivedFields DEF SerialInv, TypeInv, TypeOK
  <1>4. req' = [req EXCEPT ![r] = q]
    BY DEF Begin
  <1> HIDE DEF q
  <1>5. req'[r] = q /\ (\A s \in Clients : s = r) /\ WorkerReads'
    BY <1>1, <1>2, <1>4, OwnSlot DEF Begin
  <1>6. /\ op = "Delete" => v \notin Guests
        /\ op = "Grant" => v \notin deleted
    BY GuestsAssumption, ActorsAssumption
    DEF Begin, Authenticated, HostOps, MemberOps, SerialInv, AloneInv, StoreInv
  <1>7. ReadsHold(r)'
    BY <1>3, <1>5, <1>6
    DEF Begin, ReadsHold, JourneyRead, StatusRead, RowsRead, AccountRead, Is
  <1> QED BY <1>5, <1>7, StoreKept DEF Begin, AloneInv

LEMMA LoadAlone ==
  ASSUME SerialInv, NEW r \in Slots, Load(r)
  PROVE  AloneInv'
  <1> DEFINE q == req[r]
             t == IF q.who \in Visitors THEN pstatus[q.who] ELSE "NONE"
             n == [q EXCEPT
                    !.phase = "loaded", !.journey = Idle.journey,
                    !.accepted = q.op \in {"Grant", "StartSharing"} /\ t = "ACCEPTED",
                    !.last = q.op \in {"Leave", "Arrive", "Remove"} /\ LastOne(q)]
  <1>1. r \in Clients
    BY DEF Load, SerialInv, AloneInv, WorkerReads, Clients
  <1>2. CASE ~Admits(q, t)
    <2>1. Finish(r)
      BY <1>2 DEF Load
    <2> QED BY <1>1, <2>1, Committed, StoreKept DEF Load, AloneInv
  <1>3. CASE Admits(q, t)
    <2>1. req' = [req EXCEPT ![r] = n]
      BY <1>3 DEF Load
    <2>2. q \in Request /\ q.phase = "begun" /\ q.journey = journey
      BY <1>1 DEF Load, SerialInv, TypeInv, TypeOK, AloneInv, ReadsHold, JourneyRead
    <2>3. /\ n.op = q.op /\ n.who = q.who /\ n.phase = "loaded" /\ n.rows = q.rows
          /\ n.accepted = (q.op \in {"Grant", "StartSharing"} /\ t = "ACCEPTED")
          /\ n.last = (q.op \in {"Leave", "Arrive", "Remove"} /\ LastOne(q))
          /\ n \in Request
      <3>1. LastOne(q) \in BOOLEAN
        BY DEF LastOne
      <3> QED BY <2>2, <3>1 DEF Request, Idle, JourneyStatus
    <2>4. q.op \in MemberOps \cup {"Join", "Remove"} => q.who \in Visitors /\ t = pstatus[q.who]
      BY DEF SerialInv, TypeInv, ActorsOK
    <2>5. q.op \in {"Leave", "Arrive", "Remove"} => (LastOne(q) <=> LastNow(q.who))
      BY <2>2, <2>4
      DEF LastOne, LastNow, Contract!Pending, TerminalStatuses, SerialInv, AloneInv, StoreInv,
          ConsentsFollowJoin, TypeInv, TypeOK, ParticipantStatus
    <2>6. /\ q.op = "Start" => journey = "INVITED"
          /\ q.op \in {"Cancel", "Join", "Grant"} => journey \in Open
          /\ q.op \in {"Complete", "Upload"} => journey = "ACTIVE"
      BY <1>3, <2>2 DEF Admits, Startable, Effective, JourneyTransitions, Open
    <2>7. /\ q.op = "Join" => t = "NONE"
          /\ q.op \in {"Grant", "StartSharing"} => t # "NONE"
          /\ q.op = "Leave" => t \in Contract!Pending
          /\ q.op = "Remove" => t \in Contract!Pending \cup {"INVITED"}
          /\ q.op \in {"Arrive", "Upload"} => t = "ACTIVE"
      BY <1>3 DEF Admits, Contract!Pending
    <2>8. q.op = "Remove" => t # "INVITED"
      BY <2>4 DEF SerialInv, AloneInv, StoreInv, ConsentsFollowJoin
    <2>9. AccountRead(r)
      BY <1>1 DEF SerialInv, AloneInv, ReadsHold
    <2> HIDE DEF n
    <2>10. req'[r] = n /\ (\A s \in Clients : s = r) /\ WorkerReads'
      BY <1>1, <2>1, <2>3, OwnSlot DEF Load
    <2>11. JourneyRead(r)'
      BY <2>3, <2>6, <2>10 DEF Load, JourneyRead, Is
    <2>12. StatusRead(r)'
      BY <2>3, <2>4, <2>5, <2>7, <2>8, <2>10 DEF Load, StatusRead, LastNow, Is, MemberOps
    <2>13. RowsRead(r)' /\ AccountRead(r)'
      BY <2>2, <2>3, <2>9, <2>10 DEF Load, RowsRead, AccountRead
    <2>14. StoreInv'
      BY StoreKept DEF Load
    <2> QED BY <2>10, <2>11, <2>12, <2>13, <2>14 DEF AloneInv, ReadsHold
  <1> QED BY <1>2, <1>3

LEMMA RowsMadeKept ==
  ASSUME TypeInv, RowsMade, [Next]_vars
  PROVE  RowsMade'
  <1>1. \A r \in Slots : req'[r].rows \subseteq {c \in Rows : consent[c] # "NONE"}
    <2> SUFFICES ASSUME NEW r \in Slots
                 PROVE  \A c \in req'[r].rows : c \in Rows /\ consent[c] # "NONE"
      OBVIOUS
    <2>1. req \in [Slots -> Request] /\ \A c \in req[r].rows : c \in Rows /\ consent[c] # "NONE"
      BY DEF TypeInv, TypeOK, Request, RowsMade
    <2>2. ASSUME NEW s \in Slots, NEW q, q.rows = req[s].rows \/ q.rows = {} \/
                   \A c \in q.rows : c \in Rows /\ consent[c] = "GRANTED",
                 req' = [req EXCEPT ![s] = q]
          PROVE  \A c \in req'[r].rows : c \in Rows /\ consent[c] # "NONE"
      BY <2>1, <2>2 DEF RowsMade, TypeInv, TypeOK, Request
    <2>3. ASSUME NEW s \in Slots, Finish(s)
          PROVE  \A c \in req'[r].rows : c \in Rows /\ consent[c] # "NONE"
      BY <2>2, <2>3 DEF Finish, Idle
    <2>4. ASSUME NEW s \in Slots, NEW op \in Ops, NEW v \in Visitors \cup {Host}, Begin(s, op, v)
          PROVE  \A c \in req'[r].rows : c \in Rows /\ consent[c] # "NONE"
      <3>1. Received(op, v).rows = {}
        BY <2>4, BegunFields
      <3> QED BY <2>2, <2>4, <3>1 DEF Begin
    <2>5. ASSUME NEW s \in Slots, Load(s)
          PROVE  \A c \in req'[r].rows : c \in Rows /\ consent[c] # "NONE"
      <3> DEFINE t == IF req[s].who \in Visitors THEN pstatus[req[s].who] ELSE "NONE"
                 n == [req[s] EXCEPT
                        !.phase = "loaded", !.journey = Idle.journey,
                        !.accepted = req[s].op \in {"Grant", "StartSharing"} /\ t = "ACCEPTED",
                        !.last = req[s].op \in {"Leave", "Arrive", "Remove"} /\ LastOne(req[s])]
      <3>1. CASE Finish(s)
        BY <2>3, <3>1
      <3>2. CASE req' = [req EXCEPT ![s] = n]
        <4>1. n.rows = req[s].rows
          BY <2>1 DEF Request
        <4> QED BY <2>2, <3>2, <4>1
      <3> QED BY <2>5, <3>1, <3>2 DEF Load
    <2>6. ASSUME NEW s \in Slots, ReadConsents(s) \/ ReadAllConsents(s)
          PROVE  \A c \in req'[r].rows : c \in Rows /\ consent[c] # "NONE"
      <3> DEFINE g == GrantedRows(req[s].who)
      <3>1. \A c \in g : c \in Rows /\ consent[c] = "GRANTED"
        BY DEF GrantedRows, RowsOf
      <3>2. CASE Finish(s)
        BY <2>3, <3>2
      <3>3. ASSUME NEW kept, kept = {} \/ kept = g,
                   req' = [req EXCEPT ![s].phase = "ready", ![s].rows = kept]
            PROVE  \A c \in req'[r].rows : c \in Rows /\ consent[c] # "NONE"
        <4> DEFINE n == [req[s] EXCEPT !.phase = "ready", !.rows = kept]
        <4>1. req' = [req EXCEPT ![s] = n] /\ n.rows = kept
          BY <2>1, <3>3 DEF Request
        <4> HIDE DEF n, g
        <4>2. n.rows = {} \/ \A c \in n.rows : c \in Rows /\ consent[c] = "GRANTED"
          BY <3>1, <3>3, <4>1
        <4> QED BY <2>2, <4>1, <4>2
      <3>4. CASE ReadConsents(s)
        BY <3>2, <3>3, <3>4 DEF ReadConsents
      <3>5. CASE ReadAllConsents(s)
        BY <3>3, <3>5 DEF ReadAllConsents
      <3> QED BY <2>6, <3>4, <3>5
    <2>7. CASE BeginExpire
      BY <2>2, <2>7 DEF BeginExpire, Idle
    <2>8. CASE Expire
      BY <2>3, <2>8 DEF Expire
    <2>9. CASE UNCHANGED req
      BY <2>1, <2>9
    <2> QED
      BY <2>3, <2>4, <2>5, <2>6, <2>7, <2>8, <2>9
      DEF Next, Serve, vars, Tick, Start, Cancel, Complete, Join, Grant, Revoke, StartSharing,
          Leave, Arrive, Remove, Upload, StopAll, Delete
  <1> QED BY <1>1, RowsKept DEF RowsMade

LEMMA ReadConsentsAlone ==
  ASSUME SerialInv, NEW r \in Slots, ReadConsents(r)
  PROVE  AloneInv'
  <1> DEFINE q == req[r]
             rows == GrantedRows(q.who)
             kept == IF Cardinality(rows) > 1 THEN {} ELSE rows
             n == [q EXCEPT !.phase = "ready", !.rows = kept]
  <1>1. r \in Clients /\ StoreInv'
    BY StoreKept DEF ReadConsents, ConsentOps, SerialInv, AloneInv, WorkerReads, Clients
  <1>2. CASE EndsAtConsent(q.op, rows)
    BY <1>1, <1>2, Committed DEF ReadConsents, AloneInv
  <1>3. CASE ~EndsAtConsent(q.op, rows)
    <2>1. /\ q \in Request /\ q.op \in ConsentOps /\ q.phase = "loaded"
          /\ ReadsHold(r) /\ q.who \in Visitors
      BY <1>1
      DEF ReadConsents, ConsentOps, MemberOps, SerialInv, TypeInv, TypeOK, ActorsOK, AloneInv
    <2>2. req' = [req EXCEPT ![r] = n]
      BY <1>3, <2>1 DEF ReadConsents, SerialInv, TypeInv, TypeOK, Request
    <2>3. /\ n.op = q.op /\ n.who = q.who /\ n.phase = "ready" /\ n.rows = kept
          /\ n.accepted = q.accepted /\ n.last = q.last /\ n \in Request
      BY <2>1 DEF Request, GrantedRows, RowsOf
    <2>4. kept \subseteq RowsOf(q.who)
      BY DEF GrantedRows
    <2>5. \A c \in RowsOf(q.who) : IsActive(c) => c \in rows
      BY DEF IsActive, GrantedRows
    <2>6. q.op = "Grant" => ~HasActiveConsent(q.who)
      BY <1>3, <2>5 DEF EndsAtConsent, HasActiveConsent
    <2>7. q.op = "StartSharing" => ~q.accepted
      <3> SUFFICES ASSUME q.op = "StartSharing", q.accepted
                   PROVE  FALSE
        OBVIOUS
      <3>1. pstatus[q.who] = "ACCEPTED"
        BY <2>1 DEF ReadsHold, StatusRead
      <3>2. PICK c \in rows : IsActive(c)
        BY <1>3 DEF EndsAtConsent
      <3> QED BY <2>1, <3>1, <3>2
              DEF SerialInv, AloneInv, StoreInv, ConsentsFollowJoin, GrantedRows, IsActive
    <2>8. ASSUME q.op \in {"Revoke", "Arrive", "Remove"}, NEW c \in RowsOf(q.who), IsActive(c)
          PROVE  c \in kept
      <3>1. ~(Cardinality(rows) > 1)
        <4>1. CASE q.op = "Remove"
          <5>1. OneActive /\ clock \in Nat /\ ~Lapsed
            BY <2>8, TimeAssumption
            DEF IsActive, Lapsed, SerialInv, TypeInv, TypeOK, AloneInv, StoreInv
          <5> QED BY <5>1, OneGranted
        <4>2. CASE q.op # "Remove"
          BY <1>3, <4>2 DEF EndsAtConsent
        <4> QED BY <4>1, <4>2
      <3> QED BY <2>5, <2>8, <3>1
    <2>9. UNCHANGED <<clock, journey, pstatus, consent, deleted>>
      BY DEF ReadConsents
    <2> HIDE DEF n, kept, rows
    <2>10. req'[r] = n /\ (\A s \in Clients : s = r) /\ WorkerReads'
      BY <1>1, <2>2, <2>3, <2>9, OwnSlot
    <2>11. JourneyRead(r)' /\ AccountRead(r)'
      BY <2>1, <2>3, <2>9, <2>10
      DEF ReadsHold, JourneyRead, AccountRead, ConsentOps, AccountOps, Is
    <2>12. StatusRead(r)'
      BY <2>1, <2>3, <2>9, <2>10 DEF ReadsHold, StatusRead, LastNow, Is
    <2>13. RowsRead(r)'
      BY <2>1, <2>3, <2>4, <2>6, <2>7, <2>8, <2>9, <2>10
      DEF RowsRead, HasActiveConsent, RowsOf, IsActive, ConsentOps, MemberOps
    <2> QED BY <1>1, <2>10, <2>11, <2>12, <2>13 DEF AloneInv, ReadsHold
  <1> QED BY <1>2, <1>3

LEMMA ReadAllConsentsAlone ==
  ASSUME SerialInv, NEW r \in Slots, ReadAllConsents(r)
  PROVE  AloneInv'
  <1> DEFINE q == req[r]
             rows == GrantedRows(q.who)
             n == [q EXCEPT !.phase = "ready", !.rows = rows]
  <1>1. r \in Clients /\ StoreInv'
    BY StoreKept DEF ReadAllConsents, AccountOps, SerialInv, AloneInv, WorkerReads, Clients
  <1>2. /\ q \in Request /\ q.op \in AccountOps /\ q.phase = "begun" /\ ReadsHold(r)
    BY <1>1 DEF ReadAllConsents, SerialInv, TypeInv, TypeOK, AloneInv
  <1>3. req' = [req EXCEPT ![r] = n]
    BY <1>2 DEF ReadAllConsents, SerialInv, TypeInv, TypeOK, Request
  <1>4. /\ n.op = q.op /\ n.who = q.who /\ n.phase = "ready" /\ n.rows = rows
        /\ n.journey = q.journey /\ n \in Request
    BY <1>2 DEF Request, GrantedRows, RowsOf
  <1>5. rows \subseteq RowsOf(q.who) /\ \A c \in RowsOf(q.who) : IsActive(c) => c \in rows
    BY DEF IsActive, GrantedRows
  <1>6. UNCHANGED <<clock, journey, pstatus, consent, deleted>>
    BY DEF ReadAllConsents
  <1> HIDE DEF n, rows
  <1>7. req'[r] = n /\ (\A s \in Clients : s = r) /\ WorkerReads'
    BY <1>1, <1>3, <1>4, <1>6, OwnSlot
  <1>8. JourneyRead(r)' /\ AccountRead(r)' /\ StatusRead(r)'
    BY <1>2, <1>4, <1>6, <1>7 DEF ReadsHold, JourneyRead, AccountRead, StatusRead, AccountOps, Is
  <1>9. RowsRead(r)'
    BY <1>2, <1>4, <1>5, <1>6, <1>7 DEF RowsRead, AccountOps, RowsOf, IsActive
  <1> QED BY <1>1, <1>7, <1>8, <1>9 DEF AloneInv, ReadsHold

-----------------------------------------------------------------------------
(* Commits *)

LEMMA CommitAlone ==
  ASSUME SerialInv, NEW r \in Slots, req[r].op # "Expire", Finish(r), clock' = clock, StoreInv'
  PROVE  AloneInv'
  BY Committed DEF AloneInv, SerialInv, WorkerReads, Clients

\* Ending rows that exist makes nobody's consent active and unmakes no row.
LEMMA EndingKeeps ==
  ASSUME SerialInv, NEW rows, NEW status \in {"REVOKED", "EXPIRED"}, SetRows(rows, status),
         \A c \in rows : consent[c] # "NONE", clock' = clock,
         \A v \in Visitors : /\ pstatus'[v] # "INVITED"
                             /\ \/ pstatus'[v] = pstatus[v]
                                \/ pstatus'[v] \notin {"NONE", "ACCEPTED"}
  PROVE  /\ ConsentsFollowJoin' /\ OneActive'
         /\ \A v \in Visitors : ~HasActiveConsent(v) => ~HasActiveConsent(v)'
  <1>1. \A c \in Rows : IsActive(c)' <=> IsActive(c) /\ c \notin rows
    BY RowsEnded
  <1>2. OneActive' /\ \A v \in Visitors : ~HasActiveConsent(v) => ~HasActiveConsent(v)'
    BY <1>1 DEF SerialInv, AloneInv, StoreInv, OneActive, HasActiveConsent, RowsOf
  <1>3. \A c \in Rows : consent[c] = "NONE" => consent'[c] = "NONE"
    BY DEF SetRows
  <1>4. ConsentsFollowJoin'
    BY <1>3 DEF SerialInv, AloneInv, StoreInv, ConsentsFollowJoin, RowsOf
  <1> QED BY <1>2, <1>4

\* A step that writes no consent and keeps what the statuses say about them.
LEMMA StatusKeeps ==
  ASSUME SerialInv, UNCHANGED <<clock, consent, deleted>>,
         \A v \in Visitors :
           /\ pstatus'[v] # "INVITED"
           /\ \/ pstatus'[v] = pstatus[v]
              \/ pstatus[v] = "NONE"
              \/ pstatus'[v] \notin {"NONE", "ACCEPTED"},
         journey' = journey \/ journey' \notin Open \/ Host \notin deleted
  PROVE  StoreInv'
  <1>1. (\A c \in Rows : IsActive(c)' <=> IsActive(c)) /\ Granted' = Granted
    BY ActiveKept
  <1>2. ConsentsFollowJoin'
    BY DEF SerialInv, AloneInv, StoreInv, ConsentsFollowJoin, RowsOf
  <1>3. OneActive' /\ DeletionEndsSharing'
    BY <1>1
    DEF SerialInv, AloneInv, StoreInv, OneActive, DeletionEndsSharing, HasActiveConsent, RowsOf
  <1> QED BY <1>2, <1>3 DEF SerialInv, AloneInv, StoreInv

\* The request that commits is the only one, and what it read holds.
LEMMA Lone ==
  ASSUME SerialInv, NEW r \in Slots, req[r].op # "Expire"
  PROVE  /\ r \in Clients /\ ReadsHold(r)
         /\ \A v \in Visitors : pstatus[v] # "INVITED"
  BY DEF SerialInv, AloneInv, StoreInv, ConsentsFollowJoin, WorkerReads, Clients

LEMMA CommitsStatus ==
  ASSUME SerialInv, NEW r \in Slots,
         \/ Start(r) \/ Cancel(r) \/ Complete(r) \/ Join(r)
         \/ StartSharing(r) \/ Leave(r) \/ Upload(r)
  PROVE  AloneInv'
  <1>1. req[r].op # "Expire" /\ Finish(r) /\ UNCHANGED <<clock, consent, deleted>>
    BY DEF Start, Cancel, Complete, Join, StartSharing, Leave, Upload, Is
  <1>2. ReadsHold(r) /\ pstatus \in [Visitors -> ParticipantStatus]
    BY <1>1, Lone DEF SerialInv, TypeInv, TypeOK
  <1>3. journey' = journey \/ journey' \notin Open \/ Host \notin deleted
    <2>1. CASE Start(r)
      BY <1>2, <2>1 DEF Start, Is, ReadsHold, JourneyRead, SerialInv, AloneInv, StoreInv,
                        DeletionEndsSharing, Open
    <2>2. CASE Cancel(r) \/ Complete(r) \/ Leave(r)
      BY <2>2 DEF Cancel, Complete, Leave, CompleteIf, Open
    <2>3. CASE Join(r) \/ StartSharing(r) \/ Upload(r)
      BY <2>3 DEF Join, StartSharing, Upload
    <2> QED BY <2>1, <2>2, <2>3
  <1>4. \A v \in Visitors :
           /\ pstatus'[v] # "INVITED"
           /\ \/ pstatus'[v] = pstatus[v]
              \/ pstatus[v] = "NONE"
              \/ pstatus'[v] \notin {"NONE", "ACCEPTED"}
    <2>1. \A v \in Visitors : pstatus[v] # "INVITED"
      BY <1>1, Lone
    <2>2. CASE Join(r)
      BY <1>2, <2>1, <2>2 DEF Join, Is, ReadsHold, StatusRead
    <2>3. CASE Leave(r) \/ StartSharing(r)
      BY <1>2, <2>1, <2>3 DEF Leave, StartSharing, Activate
    <2>4. CASE UNCHANGED pstatus
      BY <2>1, <2>4
    <2> QED BY <2>2, <2>3, <2>4 DEF Start, Cancel, Complete, Upload
  <1>5. StoreInv'
    BY <1>1, <1>3, <1>4, StatusKeeps
  <1> QED BY <1>1, <1>5, CommitAlone

LEMMA CommitsGrant ==
  ASSUME SerialInv, NEW r \in Slots, Grant(r)
  PROVE  AloneInv'
  <1>1. req[r].op # "Expire" /\ Finish(r) /\ Is(r, "Grant", "ready")
        /\ UNCHANGED <<clock, journey, deleted>>
    BY DEF Grant, Is
  <1>2. PICK v \in Visitors : v = req[r].who
    BY <1>1 DEF Is, SerialInv, TypeInv, ActorsOK, MemberOps
  <1>3. /\ pstatus[v] \notin {"NONE", "INVITED"} /\ ~HasActiveConsent(v) /\ v \notin deleted
        /\ req[r].accepted <=> pstatus[v] = "ACCEPTED"
    BY <1>1, <1>2, Lone DEF Is, ReadsHold, StatusRead, RowsRead, AccountRead
  <1>4. PICK i \in 1 .. MaxRows : SetRows({<<v, i>>}, "GRANTED")
    BY <1>2 DEF Grant
  <1>5. \A c \in Rows : c # <<v, i>> => consent'[c] = consent[c] /\ (IsActive(c)' <=> IsActive(c))
    BY <1>1, <1>4 DEF SetRows, IsActive
  <1>6. /\ \A u \in Visitors \ {v} : pstatus'[u] = pstatus[u]
        /\ pstatus'[v] \notin {"NONE", "ACCEPTED", "INVITED"}
    BY <1>2, <1>3 DEF Grant, Activate, SerialInv, TypeInv, TypeOK
  <1>7. ConsentsFollowJoin'
    BY <1>5, <1>6 DEF SerialInv, AloneInv, StoreInv, ConsentsFollowJoin, RowsOf, Rows
  <1>8. OneActive'
    BY <1>3, <1>5 DEF SerialInv, AloneInv, StoreInv, OneActive, HasActiveConsent, RowsOf
  <1>9. DeletionEndsSharing'
    BY <1>1, <1>3, <1>5
    DEF SerialInv, AloneInv, StoreInv, DeletionEndsSharing, HasActiveConsent, RowsOf
  <1>10. StoreInv'
    BY <1>1, <1>7, <1>8, <1>9 DEF SerialInv, AloneInv, StoreInv
  <1> QED BY <1>1, <1>10, CommitAlone

LEMMA CommitsEnding ==
  ASSUME SerialInv, NEW r \in Slots,
         Revoke(r) \/ StopAll(r) \/ Arrive(r) \/ Remove(r) \/ Delete(r)
  PROVE  AloneInv'
  <1>1. /\ req[r].op # "Expire" /\ Finish(r) /\ clock' = clock
        /\ SetRows(req[r].rows, "REVOKED") /\ req[r].phase = "ready"
    BY DEF Revoke, StopAll, Arrive, Remove, Delete, Is
  <1>2. /\ ReadsHold(r) /\ \A c \in req[r].rows : consent[c] # "NONE"
        /\ \A v \in Visitors : pstatus[v] # "INVITED"
    BY <1>1, Lone DEF SerialInv, RowsMade
  <1>3. \A v \in Visitors : /\ pstatus'[v] # "INVITED"
                            /\ \/ pstatus'[v] = pstatus[v]
                               \/ pstatus'[v] \notin {"NONE", "ACCEPTED"}
    <2>1. CASE Arrive(r) \/ Remove(r)
      BY <1>2, <2>1 DEF Arrive, Remove, SerialInv, TypeInv, TypeOK
    <2>2. CASE UNCHANGED pstatus
      BY <1>2, <2>2
    <2> QED BY <2>1, <2>2 DEF Revoke, StopAll, Delete
  <1>4. /\ ConsentsFollowJoin' /\ OneActive'
        /\ \A v \in Visitors : ~HasActiveConsent(v) => ~HasActiveConsent(v)'
    BY <1>1, <1>2, <1>3, EndingKeeps
  <1>5. StoreInv'
    <2>1. CASE UNCHANGED deleted /\ (journey' = journey \/ journey' \notin Open)
      BY <1>4, <2>1 DEF SerialInv, AloneInv, StoreInv, DeletionEndsSharing
    <2>2. CASE Delete(r)
      <3>1. /\ Is(r, "Delete", "ready") /\ deleted' = deleted \cup {req[r].who}
            /\ journey' = IF req[r].who = Host /\ journey \in Open THEN "CANCELLED" ELSE journey
            /\ req[r].who \notin Guests
        BY <1>2, <2>2 DEF Delete, Is, ReadsHold, JourneyRead, AccountRead, AccountOps
      <3>2. \A v \in Visitors : v = req[r].who => ~HasActiveConsent(v)'
        <4>1. Granted' = Granted \ {req[r].who}
          BY <1>1, <1>2, <3>1, Withdrawn DEF ReadsHold, Is
        <4> QED BY <4>1 DEF Granted
      <3> QED BY <1>4, <3>1, <3>2 DEF SerialInv, AloneInv, StoreInv, DeletionEndsSharing, Open
    <2> QED BY <2>1, <2>2 DEF Revoke, StopAll, Arrive, Remove, CompleteIf, Open
  <1> QED BY <1>1, <1>5, CommitAlone

-----------------------------------------------------------------------------
(* The worker and time *)

\* Consents that end beside a request falsify nothing that it goes on with.
LEMMA ReadsKept ==
  ASSUME NEW r \in Clients, ReadsHold(r), req'[r] = req[r],
         UNCHANGED <<journey, pstatus, deleted>>,
         \A c \in Rows : IsActive(c)' => IsActive(c)
  PROVE  ReadsHold(r)'
  <1>1. JourneyRead(r)' /\ StatusRead(r)' /\ AccountRead(r)'
    BY DEF ReadsHold, JourneyRead, StatusRead, AccountRead, LastNow, Is
  <1>2. RowsRead(r)'
    BY DEF ReadsHold, RowsRead, HasActiveConsent, RowsOf
  <1> QED BY <1>1, <1>2 DEF ReadsHold

LEMMA WorkerAlone ==
  ASSUME SerialInv, BeginExpire \/ Expire
  PROVE  AloneInv'
  <1>1. /\ UNCHANGED <<clock, journey, pstatus, deleted>> /\ Worker \in Slots
        /\ \A r \in Clients : req'[r] = req[r]
        /\ req'[Worker].op = "Expire" /\ (req'[Worker].rows # {} => Lapsed)
    <2>1. CASE BeginExpire
      <3> DEFINE n == [Idle EXCEPT !.phase = "ready",
                         !.rows = {c \in Rows : consent[c] = "GRANTED" /\ ExpiresAt <= clock}]
      <3>1. n.op = "Expire" /\ (n.rows # {} => Lapsed)
        BY TimeAssumption DEF Idle, Lapsed, SerialInv, TypeInv, TypeOK
      <3>2. req' = [req EXCEPT ![Worker] = n]
        BY <2>1 DEF BeginExpire
      <3> HIDE DEF n
      <3> QED BY <2>1, <3>1, <3>2 DEF BeginExpire, Clients, SerialInv, TypeInv, TypeOK
    <2>2. CASE Expire
      BY <2>2 DEF Expire, Finish, Idle, Clients, SerialInv, TypeInv, TypeOK
    <2> QED BY <2>1, <2>2
  <1>2. WorkerReads'
    BY <1>1 DEF WorkerReads, Lapsed
  <1>3. (\A c \in Rows : IsActive(c)' => IsActive(c)) /\ StoreInv'
    <2>1. CASE BeginExpire
      BY <2>1, ActiveKept, StoreKept DEF BeginExpire
    <2>2. CASE Expire
      <3>1. SetRows(req[Worker].rows, "EXPIRED")
        BY <2>2 DEF Expire
      <3>2. \A c \in Rows : IsActive(c)' => IsActive(c)
        BY <1>1, <3>1, RowsEnded
      <3>3. /\ ConsentsFollowJoin' /\ OneActive'
            /\ \A v \in Visitors : ~HasActiveConsent(v) => ~HasActiveConsent(v)'
        <4>1. /\ \A c \in req[Worker].rows : consent[c] # "NONE"
              /\ \A v \in Visitors : pstatus'[v] # "INVITED" /\ pstatus'[v] = pstatus[v]
          BY <1>1 DEF SerialInv, RowsMade, AloneInv, StoreInv, ConsentsFollowJoin
        <4> QED BY <1>1, <3>1, <4>1, EndingKeeps
      <3> QED BY <1>1, <3>2, <3>3 DEF SerialInv, AloneInv, StoreInv, DeletionEndsSharing
    <2> QED BY <2>1, <2>2
  <1>4. \A r \in Clients : ReadsHold(r)'
    BY <1>1, <1>3, ReadsKept DEF SerialInv, AloneInv
  <1> QED BY <1>2, <1>3, <1>4 DEF AloneInv

LEMMA TimeAlone ==
  ASSUME SerialInv, Tick \/ UNCHANGED vars
  PROVE  AloneInv'
  <1>1. /\ UNCHANGED <<journey, pstatus, consent, deleted, req>>
        /\ clock' = clock \/ clock' = clock + 1
    BY DEF Tick, vars
  <1>2. (\A c \in Rows : IsActive(c)' => IsActive(c)) /\ WorkerReads'
    BY <1>1, TimeAssumption
    DEF IsActive, WorkerReads, Lapsed, SerialInv, TypeInv, TypeOK, AloneInv
  <1>3. StoreInv'
    BY <1>1, <1>2
    DEF SerialInv, AloneInv, StoreInv, ConsentsFollowJoin, OneActive, DeletionEndsSharing,
        HasActiveConsent, RowsOf
  <1>4. \A r \in Clients : ReadsHold(r)'
    BY <1>1, <1>2, ReadsKept DEF SerialInv, AloneInv
  <1> QED BY <1>2, <1>3, <1>4 DEF AloneInv

-----------------------------------------------------------------------------
(* The invariant *)

\* What a lone request has read stays true until it commits.
THEOREM SerialInvHolds == Spec => []SerialInv
<1>1. Init => RowsMade /\ AloneInv
  <2>1. ASSUME Init PROVE StoreInv /\ RowsMade /\ WorkerReads
    BY <2>1, GuestsAssumption
    DEF Init, StoreInv, RowsMade, WorkerReads, ConsentsFollowJoin, OneActive,
        DeletionEndsSharing, IsActive, RowsOf, Idle
  <2>2. ASSUME Init, NEW r \in Clients PROVE ReadsHold(r)
    BY <2>2 DEF Init, Clients, ReadsHold, JourneyRead, StatusRead, RowsRead, AccountRead, Is, Idle
  <2> QED BY <2>1, <2>2 DEF AloneInv
<1>2. ASSUME TypeInv, RowsMade /\ AloneInv, [Next]_vars PROVE (RowsMade /\ AloneInv)'
  <2> USE <1>2
  <2>1. RowsMade'
    BY RowsMadeKept
  <2>2. SerialInv
    BY DEF SerialInv
  <2>3. AloneInv'
    BY <2>2, BeginAlone, LoadAlone, ReadConsentsAlone, ReadAllConsentsAlone, CommitsStatus,
       CommitsGrant, CommitsEnding, WorkerAlone, TimeAlone
    DEF Next, Serve
  <2> QED BY <2>1, <2>3
<1> QED BY <1>1, <1>2, TypeCorrect, PTL DEF Spec, TypeInv, SerialInv

\* Served alone, a deletion leaves no open journey and no active consent of the
\* account (delete_me and the guards that ask for a live account).
THEOREM DeletionEndsSharingHolds == Spec => []DeletionEndsSharing
<1>1. SerialInv => DeletionEndsSharing
  BY DEF SerialInv, AloneInv, StoreInv
<1> QED BY <1>1, SerialInvHolds, PTL

-----------------------------------------------------------------------------
(* The contract *)

ContractStep == [Contract!ContractNext]_(Contract!contractVars)

\* A step writes one slot, and its request neither was nor is an upload that the
\* consent gate has let through.
LEMMA UploadingKept ==
  ASSUME TypeInv, NEW r \in Slots, NEW q, req' = [req EXCEPT ![r] = q],
         ~Is(r, "Upload", "ready"), ~(q.op = "Upload" /\ q.phase = "ready")
  PROVE  Uploading' = Uploading
  <1>1. \A s \in Slots : Is(s, "Upload", "ready")' <=> Is(s, "Upload", "ready")
    BY DEF Is, TypeInv, TypeOK
  <1>2. \A s \in Slots : Is(s, "Upload", "ready") => req'[s].who = req[s].who
    BY DEF TypeInv, TypeOK
  <1> QED BY <1>1, <1>2 DEF Uploading

LEMMA AcceptedKept ==
  ASSUME TypeInv, NEW r \in Slots, Finish(r), ~Is(r, "Upload", "ready"), located' = located
  PROVE  Accepted' = Accepted
  BY UploadingKept DEF Finish, Idle, Accepted

\* Reads are not seen through the contract, but for the one that lets an upload through.
LEMMA ReadsStutter ==
  ASSUME SerialInv, NEW r \in Slots,
         \/ \E op \in Ops, v \in Visitors \cup {Host} : Begin(r, op, v)
         \/ Load(r) \/ ReadAllConsents(r)
  PROVE  UNCHANGED Contract!contractVars
  <1>1. /\ UNCHANGED <<clock, journey, pstatus, consent, located>>
        /\ req[r].phase # "ready"
    BY DEF Begin, Load, ReadAllConsents
  <1>2. TypeInv /\ ~Is(r, "Upload", "ready") /\ req[r] \in Request
    BY <1>1 DEF SerialInv, TypeInv, TypeOK, Is
  <1>3. Uploading' = Uploading
    <2>1. CASE \E op \in Ops, v \in Visitors \cup {Host} : Begin(r, op, v)
      <3>1. PICK op \in Ops, v \in Visitors \cup {Host} : Begin(r, op, v)
        BY <2>1
      <3> DEFINE n == Received(op, v)
      <3>2. req' = [req EXCEPT ![r] = n]
        BY <3>1 DEF Begin
      <3>3. n.phase = "begun"
        BY <1>2, <3>1, BegunFields
      <3> HIDE DEF n
      <3> QED BY <1>2, <3>2, <3>3, UploadingKept
    <2>2. CASE Load(r)
      <3> DEFINE t == IF req[r].who \in Visitors THEN pstatus[req[r].who] ELSE "NONE"
                 n == [req[r] EXCEPT
                        !.phase = "loaded", !.journey = Idle.journey,
                        !.accepted = req[r].op \in {"Grant", "StartSharing"} /\ t = "ACCEPTED",
                        !.last = req[r].op \in {"Leave", "Arrive", "Remove"} /\ LastOne(req[r])]
      <3>1. n.phase = "loaded" /\ Idle.phase = "idle"
        BY <1>2 DEF Request, Idle
      <3>2. req' = [req EXCEPT ![r] = n] \/ req' = [req EXCEPT ![r] = Idle]
        BY <2>2 DEF Load, Finish
      <3> HIDE DEF n
      <3> QED BY <1>2, <3>1, <3>2, UploadingKept
    <2>3. CASE ReadAllConsents(r)
      <3> DEFINE n == [req[r] EXCEPT !.phase = "ready", !.rows = GrantedRows(req[r].who)]
      <3>1. n.op = req[r].op /\ req[r].op \in AccountOps
        BY <1>2, <2>3 DEF ReadAllConsents, Request
      <3>2. req' = [req EXCEPT ![r] = n]
        BY <1>2, <2>3 DEF ReadAllConsents, SerialInv, TypeInv, TypeOK, Request
      <3> HIDE DEF n
      <3> QED BY <1>2, <3>1, <3>2, UploadingKept DEF AccountOps
    <2> QED BY <2>1, <2>2, <2>3
  <1> QED BY <1>1, <1>3, ActiveKept DEF Contract!contractVars, Accepted, Lapsed

LEMMA ReadConsentsImplements ==
  ASSUME SerialInv, NEW r \in Slots, ReadConsents(r)
  PROVE  ContractStep
  <1> DEFINE q == req[r]
             rows == GrantedRows(q.who)
             n == [q EXCEPT !.phase = "ready",
                            !.rows = IF Cardinality(rows) > 1 THEN {} ELSE rows]
  <1>1. /\ UNCHANGED <<clock, journey, pstatus, consent, located>>
        /\ q.phase = "loaded" /\ q.op \in ConsentOps /\ q \in Request /\ TypeInv
        /\ Granted' = Granted /\ Lapsed' = Lapsed
    BY ActiveKept DEF ReadConsents, SerialInv, TypeInv, TypeOK, Lapsed
  <1>2. ReadsHold(r) /\ q.who \in Visitors
    BY <1>1, Lone DEF ConsentOps, MemberOps, SerialInv, TypeInv, ActorsOK
  <1>3. CASE EndsAtConsent(q.op, rows) \/ q.op # "Upload"
    <2>1. n.op = q.op /\ Idle.phase = "idle"
      BY <1>1 DEF Request, Idle
    <2>2. \/ Finish(r)
          \/ req' = [req EXCEPT ![r] = n] /\ q.op # "Upload"
      BY <1>1, <1>3 DEF ReadConsents, SerialInv, TypeInv, TypeOK, Request
    <2> HIDE DEF n
    <2>3. Uploading' = Uploading
      BY <1>1, <2>1, <2>2, UploadingKept DEF Finish, Is
    <2> QED BY <1>1, <2>3 DEF ContractStep, Contract!contractVars, Accepted
  <1>4. CASE ~EndsAtConsent(q.op, rows) /\ q.op = "Upload"
    <2>1. journey = "ACTIVE" /\ pstatus[q.who] = "ACTIVE"
      BY <1>1, <1>2, <1>4 DEF ReadsHold, JourneyRead, StatusRead, Is
    <2>2. q.who \in Granted
      BY <1>2, <1>4 DEF EndsAtConsent, Granted, HasActiveConsent, GrantedRows
    <2>3. n.op = q.op /\ n.who = q.who /\ n.phase = "ready"
      BY <1>1 DEF Request
    <2>4. req' = [req EXCEPT ![r] = n]
      BY <1>1, <1>4 DEF ReadConsents, SerialInv, TypeInv, TypeOK, Request
    <2> HIDE DEF n
    <2>5. req'[r] = n /\ \A s \in Slots \ {r} : req'[s] = req[s]
      BY <2>4 DEF SerialInv, TypeInv, TypeOK
    <2>6. Uploading' = Uploading \cup {q.who}
      <3>1. Is(r, "Upload", "ready")' /\ ~Is(r, "Upload", "ready")
        BY <1>1, <1>4, <2>3, <2>5 DEF Is
      <3>2. \A s \in Slots \ {r} : Is(s, "Upload", "ready")' <=> Is(s, "Upload", "ready")
        BY <2>5 DEF Is
      <3> QED BY <2>3, <2>5, <3>1, <3>2 DEF Uploading
    <2>7. Accepted' = Accepted \cup {q.who}
      BY <1>1, <2>6 DEF Accepted
    <2>8. Contract!LocationAccepted(q.who)
      BY <1>1, <2>1, <2>2, <2>7 DEF Contract!LocationAccepted
    <2> QED BY <1>2, <2>8 DEF ContractStep, Contract!ContractNext
  <1> QED BY <1>3, <1>4

\* The host's operations.
LEMMA HostImplements ==
  ASSUME SerialInv, NEW r \in Slots, Start(r) \/ Cancel(r) \/ Complete(r)
  PROVE  ContractStep
  <1>1. /\ Finish(r) /\ req[r].op \in HostOps /\ req[r].phase = "loaded" /\ TypeInv
        /\ UNCHANGED <<clock, pstatus, consent, located>>
    BY DEF Start, Cancel, Complete, Is, HostOps, SerialInv
  <1>2. UNCHANGED <<pstatus, Granted, Accepted, Lapsed>>
    BY <1>1, ActiveKept, AcceptedKept DEF Lapsed, Is
  <1>3. ReadsHold(r)
    BY <1>1, Lone DEF HostOps
  <1>4. CASE Start(r)
    BY <1>2, <1>3, <1>4
    DEF Start, Is, ReadsHold, JourneyRead, ContractStep, Contract!ContractNext, Contract!HostStarts
  <1>5. CASE Cancel(r)
    <2>1. Contract!HostEnds("CANCELLED")
      BY <1>2, <1>3, <1>5
      DEF Cancel, Is, ReadsHold, JourneyRead, Contract!HostEnds, Contract!Settle, Contract!Live, Open
    <2> QED BY <2>1 DEF ContractStep, Contract!ContractNext
  <1>6. CASE Complete(r)
    <2>1. Contract!HostEnds("COMPLETED")
      BY <1>2, <1>3, <1>6 DEF Complete, Is, ReadsHold, JourneyRead, Contract!HostEnds, Contract!Settle
    <2> QED BY <2>1 DEF ContractStep, Contract!ContractNext
  <1> QED BY <1>4, <1>5, <1>6

\* Joining, and what a consent starts.
LEMMA VisitorStarts ==
  ASSUME SerialInv, NEW r \in Slots, Join(r) \/ Grant(r) \/ StartSharing(r)
  PROVE  ContractStep
  <1>1. /\ Finish(r) /\ req[r].op \in {"Join", "Grant", "StartSharing"} /\ TypeInv
        /\ UNCHANGED <<clock, journey, located>>
        /\ pstatus \in [Visitors -> ParticipantStatus]
    BY DEF Join, Grant, StartSharing, Is, SerialInv, TypeInv, TypeOK
  <1>2. PICK v \in Visitors : v = req[r].who
    BY <1>1 DEF TypeInv, ActorsOK, MemberOps
  <1>3. ReadsHold(r) /\ UNCHANGED <<journey, Accepted, Lapsed>>
    BY <1>1, Lone, AcceptedKept DEF Lapsed, Is
  <1>4. CASE Join(r)
    <2>1. Contract!VisitorJoins(v)
      BY <1>2, <1>3, <1>4, ActiveKept
      DEF Join, Is, ReadsHold, JourneyRead, StatusRead, Contract!VisitorJoins, Contract!Live, Open
    <2> QED BY <2>1 DEF ContractStep, Contract!ContractNext
  <1>5. CASE Grant(r)
    <2>1. /\ journey \in Open /\ pstatus[v] # "NONE" /\ ~HasActiveConsent(v)
          /\ req[r].accepted <=> pstatus[v] = "ACCEPTED"
      BY <1>2, <1>3, <1>5 DEF Grant, Is, ReadsHold, JourneyRead, StatusRead, RowsRead
    <2>2. PICK i \in 1 .. MaxRows : SetRows({<<v, i>>}, "GRANTED")
      BY <1>2, <1>5 DEF Grant
    <2>3. /\ <<v, i>> \in RowsOf(v)
          /\ \A c \in Rows : IsActive(c)' <=> IsActive(c) \/ (c = <<v, i>> /\ clock < ExpiresAt)
      BY <1>1, <2>2 DEF SetRows, IsActive, RowsOf, Rows
    <2>4. clock < ExpiresAt <=> ~Lapsed
      BY TimeAssumption DEF Lapsed, SerialInv, TypeInv, TypeOK
    <2>5. \A u \in Visitors : HasActiveConsent(u)' <=> HasActiveConsent(u) \/ (u = v /\ ~Lapsed)
      BY <2>3, <2>4 DEF HasActiveConsent, RowsOf
    <2>6. Granted' = IF Lapsed THEN Granted ELSE Granted \cup {v}
      BY <2>5 DEF Granted
    <2>7. pstatus' = [pstatus EXCEPT ![v] = IF @ = "ACCEPTED" THEN "ACTIVE" ELSE @]
      BY <1>1, <1>2, <1>5, <2>1 DEF Grant, Activate
    <2>8. Contract!VisitorConsents(v)
      BY <1>3, <2>1, <2>6, <2>7 DEF Contract!VisitorConsents, Contract!Live, Open, Granted
    <2> QED BY <2>8 DEF ContractStep, Contract!ContractNext
  <1>6. CASE StartSharing(r)
    <2>1. ~req[r].accepted
      BY <1>3, <1>6 DEF StartSharing, Is, ReadsHold, RowsRead
    <2>2. UNCHANGED <<pstatus, clock, consent>>
      BY <1>6, <2>1 DEF StartSharing, Activate
    <2> QED BY <1>3, <2>2, ActiveKept DEF ContractStep, Contract!contractVars
  <1> QED BY <1>4, <1>5, <1>6

\* A visitor that leaves, arrives or is removed, and the completion this may bring.
LEMMA VisitorFinishes ==
  ASSUME SerialInv, NEW r \in Slots, Leave(r) \/ Arrive(r) \/ Remove(r)
  PROVE  ContractStep
  <1>1. /\ Finish(r) /\ req[r].op \in {"Leave", "Arrive", "Remove"} /\ TypeInv
        /\ req[r].phase \in {"loaded", "ready"}
        /\ UNCHANGED <<clock, located>> /\ CompleteIf(req[r].last)
    BY DEF Leave, Arrive, Remove, Is, SerialInv
  <1>2. PICK v \in Visitors : v = req[r].who
    BY <1>1 DEF TypeInv, ActorsOK, MemberOps
  <1>3. ReadsHold(r) /\ UNCHANGED <<Accepted, Lapsed>>
    BY <1>1, Lone, AcceptedKept DEF Lapsed, Is
  <1>4. req[r].last <=> LastNow(v)
    BY <1>1, <1>2, <1>3 DEF ReadsHold, StatusRead
  <1>5. journey' = IF LastNow(v) THEN "COMPLETED" ELSE journey
    BY <1>1, <1>4 DEF CompleteIf
  <1>6. CASE Leave(r)
    <2>1. pstatus[v] \in Contract!Pending
      BY <1>2, <1>3, <1>6 DEF Leave, Is, ReadsHold, StatusRead
    <2>2. Contract!VisitorLeaves(v)
      BY <1>2, <1>3, <1>5, <1>6, <2>1, ActiveKept
      DEF Leave, LastNow, Contract!VisitorLeaves, Contract!Settle, Contract!FinishVisitor
    <2> QED BY <2>2 DEF ContractStep, Contract!ContractNext
  <1>7. CASE Arrive(r) \/ Remove(r)
    <2>1. Granted' = Granted \ {v}
      BY <1>1, <1>2, <1>3, <1>7, Withdrawn DEF Arrive, Remove, Is, ReadsHold
    <2>2. CASE Arrive(r)
      <3>1. Contract!VisitorArrives(v)
        BY <1>1, <1>2, <1>3, <1>5, <2>1, <2>2
        DEF Arrive, Is, ReadsHold, StatusRead, LastNow, Contract!VisitorArrives, Contract!Settle,
            Contract!FinishVisitor
      <3> QED BY <3>1 DEF ContractStep, Contract!ContractNext
    <2>3. CASE Remove(r)
      <3>1. Contract!HostRemoves(v)
        BY <1>1, <1>2, <1>3, <1>5, <2>1, <2>3
        DEF Remove, Is, ReadsHold, StatusRead, LastNow, Contract!HostRemoves, Contract!Settle,
            Contract!FinishVisitor
      <3> QED BY <3>1 DEF ContractStep, Contract!ContractNext
    <2> QED BY <1>7, <2>2, <2>3
  <1> QED BY <1>6, <1>7

\* Revocation, and a deletion, which also cancels what the host has open.
LEMMA ConsentEnds ==
  ASSUME SerialInv, NEW r \in Slots, Revoke(r) \/ StopAll(r) \/ Delete(r)
  PROVE  ContractStep
  <1>1. /\ Finish(r) /\ req[r].op \in {"Revoke", "StopAll", "Delete"} /\ TypeInv
        /\ req[r].phase = "ready" /\ SetRows(req[r].rows, "REVOKED")
        /\ UNCHANGED <<clock, pstatus, located>>
    BY DEF Revoke, StopAll, Delete, Is, SerialInv
  <1>2. ReadsHold(r) /\ UNCHANGED <<pstatus, Accepted, Lapsed>>
    BY <1>1, Lone, AcceptedKept DEF Lapsed, Is
  <1>3. Granted' = Granted \ {req[r].who}
    BY <1>1, <1>2, Withdrawn DEF ReadsHold
  <1>4. journey' = IF req[r].op = "Delete" /\ req[r].who = Host /\ journey \in Open
                   THEN "CANCELLED" ELSE journey
    BY <1>2 DEF Revoke, StopAll, Delete, Is, ReadsHold, JourneyRead, AccountOps
  <1>5. CASE req[r].who \in Granted
    <2>1. Contract!VisitorWithdraws(req[r].who) /\ req[r].who \in Visitors
      BY <1>2, <1>3, <1>4, <1>5, ActorsAssumption DEF Contract!VisitorWithdraws, Granted
    <2> QED BY <2>1 DEF ContractStep, Contract!ContractNext
  <1>6. CASE req[r].who \notin Granted /\ journey' = journey
    <2>1. Granted' = Granted
      BY <1>3, <1>6
    <2> QED BY <1>2, <1>6, <2>1 DEF ContractStep, Contract!contractVars
  <1>7. CASE req[r].who \notin Granted /\ journey' # journey
    <2>1. Granted' = Granted
      BY <1>3, <1>7
    <2>2. Contract!HostEnds("CANCELLED")
      BY <1>2, <1>4, <1>7, <2>1 DEF Contract!HostEnds, Contract!Settle, Contract!Live, Open
    <2> QED BY <2>2 DEF ContractStep, Contract!ContractNext
  <1> QED BY <1>5, <1>6, <1>7

\* The location was accepted when the consent was read.
LEMMA UploadStutters ==
  ASSUME SerialInv, NEW r \in Slots, Upload(r)
  PROVE  UNCHANGED Contract!contractVars
  <1>1. /\ Is(r, "Upload", "ready") /\ located' = located \cup {req[r].who}
        /\ req'[r] = Idle /\ \A s \in Slots \ {r} : req'[s] = req[s]
        /\ UNCHANGED <<clock, journey, pstatus, consent>>
    BY DEF Upload, Finish, SerialInv, TypeInv, TypeOK
  <1>2. Uploading = Uploading' \cup {req[r].who}
    <2>1. \A s \in Slots \ {r} : Is(s, "Upload", "ready")' <=> Is(s, "Upload", "ready")
      BY <1>1 DEF Is
    <2>2. ~Is(r, "Upload", "ready")'
      BY <1>1 DEF Is, Idle
    <2> QED BY <1>1, <2>1, <2>2 DEF Uploading
  <1>3. Accepted' = Accepted
    BY <1>1, <1>2 DEF Accepted
  <1> QED BY <1>1, <1>3, ActiveKept DEF Contract!contractVars, Lapsed

\* The worker ends no consent that is still active, so no pass of it is seen.
LEMMA WorkerStutters ==
  ASSUME SerialInv, BeginExpire \/ Expire
  PROVE  UNCHANGED Contract!contractVars
  <1>1. /\ UNCHANGED <<clock, journey, pstatus, located>> /\ Worker \in Slots /\ TypeInv
        /\ req[Worker].op = "Expire" /\ (req[Worker].rows # {} => Lapsed)
    BY DEF BeginExpire, Expire, SerialInv, AloneInv, WorkerReads
  <1>2. Uploading' = Uploading
    <2>1. PICK q : req' = [req EXCEPT ![Worker] = q] /\ q.op = "Expire"
      <3> DEFINE n == [Idle EXCEPT !.phase = "ready",
                         !.rows = {c \in Rows : consent[c] = "GRANTED" /\ ExpiresAt <= clock}]
      <3>1. n.op = "Expire" /\ Idle.op = "Expire"
        BY DEF Idle
      <3>2. req' = [req EXCEPT ![Worker] = n] \/ req' = [req EXCEPT ![Worker] = Idle]
        BY DEF BeginExpire, Expire, Finish
      <3> QED BY <3>1, <3>2
    <2> QED BY <1>1, <2>1, UploadingKept DEF Is
  <1>3. Granted' = Granted
    <2>1. CASE BeginExpire
      BY <2>1, ActiveKept DEF BeginExpire
    <2>2. CASE Expire
      <3>1. \A c \in Rows : IsActive(c)' <=> IsActive(c) /\ c \notin req[Worker].rows
        BY <1>1, <2>2, RowsEnded DEF Expire
      <3>2. Lapsed => \A c \in Rows : ~IsActive(c)
        BY <1>1, TimeAssumption DEF Lapsed, IsActive, TypeInv, TypeOK
      <3>3. \A c \in Rows : IsActive(c)' <=> IsActive(c)
        BY <1>1, <3>1, <3>2
      <3> QED BY <3>3 DEF Granted, HasActiveConsent, RowsOf
    <2> QED BY <2>1, <2>2
  <1> QED BY <1>1, <1>2, <1>3 DEF Contract!contractVars, Accepted, Lapsed

LEMMA TimeLapses ==
  ASSUME SerialInv, Tick
  PROVE  ContractStep
  <1>1. /\ UNCHANGED <<journey, pstatus, consent, located, req>>
        /\ clock \in Nat /\ clock' = clock + 1
    BY DEF Tick, SerialInv, TypeInv, TypeOK
  <1>2. UNCHANGED <<journey, pstatus, Accepted>>
    BY <1>1 DEF Accepted, Uploading, Is
  <1>3. /\ Lapsed => \A c \in Rows : ~IsActive(c)
        /\ Lapsed' => \A c \in Rows : ~IsActive(c)'
        /\ Lapsed => Lapsed'
        /\ ~Lapsed' => \A c \in Rows : IsActive(c)' <=> IsActive(c)
    BY <1>1, TimeAssumption DEF Lapsed, IsActive
  <1>4. CASE Lapsed <=> Lapsed'
    <2>1. \A c \in Rows : IsActive(c)' <=> IsActive(c)
      BY <1>3, <1>4
    <2>2. Granted' = Granted
      BY <2>1 DEF Granted, HasActiveConsent, RowsOf
    <2>3. Lapsed' = Lapsed
      BY <1>4 DEF Lapsed
    <2> QED BY <1>2, <2>2, <2>3 DEF ContractStep, Contract!contractVars
  <1>5. CASE ~Lapsed /\ Lapsed'
    <2>1. Granted' = {}
      BY <1>3, <1>5 DEF Granted, HasActiveConsent, RowsOf
    <2>2. Contract!Lapse
      BY <1>2, <1>5, <2>1 DEF Contract!Lapse, Lapsed
    <2> QED BY <2>2 DEF ContractStep, Contract!ContractNext
  <1> QED BY <1>3, <1>4, <1>5

\* Every step of a lone request, of the worker and of the clock is an operation
\* of the contract or changes nothing of it.
LEMMA EveryStepImplements ==
  ASSUME SerialInv, [Next]_vars
  PROVE  ContractStep
  <1>1. ASSUME UNCHANGED vars PROVE UNCHANGED Contract!contractVars
    <2>1. Uploading' = Uploading /\ Granted' = Granted
      BY <1>1, ActiveKept DEF vars, Uploading, Is
    <2> QED BY <1>1, <2>1 DEF vars, Contract!contractVars, Accepted, Lapsed
  <1> QED
    BY <1>1, ReadsStutter, ReadConsentsImplements, HostImplements, VisitorStarts, VisitorFinishes,
       ConsentEnds, UploadStutters, WorkerStutters, TimeLapses
    DEF Next, Serve, ContractStep

\* Requests served one after another implement the contract: each does one of
\* its operations or nothing, on the current statuses and as a whole.
THEOREM ContractHoldsSerially == Spec => ContractHolds
<1>1. Init => Contract!ContractInit
  <2>1. ASSUME Init PROVE Granted = {} /\ Uploading = {} /\ Lapsed \in BOOLEAN
    BY <2>1 DEF Init, Granted, HasActiveConsent, IsActive, RowsOf, Uploading, Is, Idle, Lapsed
  <2> QED BY <2>1 DEF Init, Contract!ContractInit, Accepted
<1>2. SerialInv /\ [Next]_vars => [Contract!ContractNext]_(Contract!contractVars)
  BY EveryStepImplements DEF ContractStep
<1> QED BY <1>1, <1>2, SerialInvHolds, PTL DEF Spec, ContractHolds, Contract!ContractSpec

-----------------------------------------------------------------------------
(* What only a race breaks *)

\* No operation of the contract makes a visitor that has finished active.
LEMMA ContractKeepsFinished ==
  ASSUME pstatus \in [Visitors -> ParticipantStatus], ContractStep, NEW v \in Visitors,
         pstatus[v] \in {"LEFT", "REMOVED", "ARRIVED"}
  PROVE  pstatus'[v] # "ACTIVE"
  <1>1. ASSUME NEW u \in Visitors,
               \/ Contract!VisitorJoins(u) \/ Contract!VisitorConsents(u)
               \/ Contract!VisitorLeaves(u) \/ Contract!VisitorArrives(u)
               \/ Contract!HostRemoves(u)
        PROVE  pstatus'[v] # "ACTIVE"
    <2>1. pstatus' = [pstatus EXCEPT ![u] = pstatus'[u]]
      BY <1>1
      DEF Contract!VisitorJoins, Contract!VisitorConsents, Contract!VisitorLeaves,
          Contract!VisitorArrives, Contract!HostRemoves, Contract!FinishVisitor
    <2>2. pstatus'[u] = "ACTIVE" => pstatus[u] \in {"ACCEPTED", "ACTIVE"}
      BY <1>1
      DEF Contract!VisitorJoins, Contract!VisitorConsents, Contract!VisitorLeaves,
          Contract!VisitorArrives, Contract!HostRemoves, Contract!FinishVisitor
    <2> QED BY <2>1, <2>2
  <1>2. ASSUME UNCHANGED pstatus PROVE pstatus'[v] # "ACTIVE"
    BY <1>2
  <1> QED
    BY <1>1, <1>2
    DEF ContractStep, Contract!ContractNext, Contract!contractVars, Contract!HostStarts,
        Contract!HostEnds, Contract!VisitorWithdraws, Contract!LocationAccepted, Contract!Lapse

\* Served alone, no request makes a visitor active again who has left, arrived
\* or was removed: the lost update of grant_consent needs two requests in flight.
THEOREM FinishedVisitorStaysSerially == Spec => FinishedVisitorStays
<1>1. ASSUME SerialInv, [Next]_vars, NEW v \in Visitors,
             pstatus[v] \in {"LEFT", "REMOVED", "ARRIVED"}
      PROVE  pstatus'[v] # "ACTIVE"
  BY <1>1, EveryStepImplements, ContractKeepsFinished DEF SerialInv, TypeInv, TypeOK
<1>2. SerialInv /\ [Next]_vars =>
        [\A v \in Visitors :
           (pstatus[v] \in {"LEFT", "REMOVED", "ARRIVED"}) => (pstatus'[v] # "ACTIVE")]_vars
  BY <1>1
<1> QED BY <1>2, SerialInvHolds, PTL DEF Spec, FinishedVisitorStays

\* Served alone, a request to stop sharing of a visitor under an active consent
\* is never rejected: there is one row to revoke, so the look-up does not raise.
THEOREM StopSharingAcceptedSerially == Spec => StopSharingAccepted
<1>1. ASSUME SerialInv, NEW r \in Slots, Is(r, "Revoke", "loaded"),
             HasActiveConsent(req[r].who), ReadConsents(r)
      PROVE  req'[r].phase = "ready"
  <2> DEFINE rows == GrantedRows(req[r].who)
             kept == IF Cardinality(rows) > 1 THEN {} ELSE rows
  <2>1. PICK c \in RowsOf(req[r].who) : IsActive(c)
    BY <1>1 DEF HasActiveConsent
  <2>2. rows # {}
    BY <2>1 DEF GrantedRows, IsActive
  <2>3. ~(Cardinality(rows) > 1)
    <3>1. OneActive /\ clock \in Nat /\ ~Lapsed
      BY <1>1, <2>1, TimeAssumption
      DEF IsActive, Lapsed, SerialInv, TypeInv, TypeOK, AloneInv, StoreInv
    <3> QED BY <3>1, OneGranted
  <2>4. ~EndsAtConsent(req[r].op, rows)
    BY <1>1, <2>2, <2>3 DEF EndsAtConsent, Is
  <2> HIDE DEF kept
  <2>5. req' = [req EXCEPT ![r].phase = "ready", ![r].rows = kept]
    BY <1>1, <2>4 DEF ReadConsents, kept
  <2> QED BY <1>1, <2>5 DEF SerialInv, TypeInv, TypeOK, Request
<1>2. SerialInv /\ [Next]_vars =>
        [\A r \in Slots :
           (/\ Is(r, "Revoke", "loaded")
            /\ HasActiveConsent(req[r].who)
            /\ ReadConsents(r)) => (req'[r].phase = "ready")]_vars
  BY <1>1
<1> QED BY <1>2, SerialInvHolds, PTL DEF Spec, StopSharingAccepted

=============================================================================
