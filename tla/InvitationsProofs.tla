-------------------------- MODULE InvitationsProofs --------------------------
(***************************************************************************)
(* Proofs about Invitations, for any users, any number of requests in      *)
(* flight and any limits: a void link is refused, the use count is never   *)
(* overstated, guests exceed the visitor limit by less than the number of  *)
(* requests in flight, and an account has no more participants than that.  *)
(***************************************************************************)
EXTENDS Invitations, FiniteSetTheorems, TLAPS

Phases == {"idle", "begun", "redeemed", "ready"}

Request == [phase : Phases, who : People, uses : Nat, late : BOOLEAN]

InvitationTypeOK ==
  /\ useCount \in Nat
  /\ void \in BOOLEAN
  /\ open \in BOOLEAN
  /\ participant \in [Rows -> People \cup {Nobody}]
  /\ gone \subseteq Rows
  /\ join \in [Slots -> Request]

\* A request that was sent with a void link has not got past redeem_token, and
\* the link is still void.
LateStopped ==
  \A r \in Slots : join[r].late => void /\ join[r].phase \in {"idle", "begun"}

\* The use count that a request goes on with was below the limit, and the
\* participants it stands for are there still: rows are never deleted.
UsesRead ==
  \A r \in Slots : join[r].phase \in {"redeemed", "ready"}
                     => join[r].uses <= Cardinality(Joined) /\ join[r].uses < MaxUses

-----------------------------------------------------------------------------
(* The operators of the model *)

LEMMA NobodyIsNoPerson == Nobody \notin People
  BY PeopleAssumption DEF Nobody, People

\* Every set of rows is finite, and so is every set of requests.
LEMMA RowsFinite ==
  ASSUME NEW S \in SUBSET Rows
  PROVE  IsFiniteSet(S) /\ Cardinality(S) \in Nat
  <1>1. IsFiniteSet(Rows)
    BY FS_Interval, LimitsAssumption DEF Rows
  <1> QED BY <1>1, FS_Subset, FS_CardinalityType

LEMMA SlotsFinite ==
  ASSUME NEW S \in SUBSET Slots
  PROVE  /\ IsFiniteSet(S) /\ Cardinality(S) \in Nat
         /\ Cardinality(S) <= Cardinality(Slots) /\ Cardinality(Slots) \in Nat
  BY SlotsAssumption, FS_Subset, FS_CardinalityType

\* A subset of the rows has no more elements.
LEMMA RowsMonotone ==
  ASSUME NEW S \in SUBSET Rows, NEW T \in SUBSET S
  PROVE  Cardinality(T) <= Cardinality(S)
  BY RowsFinite, FS_Subset

\* The record that a step leaves in a slot, and the other slots.
LEMMA SlotAfter ==
  ASSUME InvitationTypeOK, NEW r \in Slots, NEW q, join' = [join EXCEPT ![r] = q],
         NEW s \in Slots
  PROVE  join'[s] = IF s = r THEN q ELSE join[s]
  BY DEF InvitationTypeOK

\* Inserting a row for p adds one element to Joined and leaves the other rows.
LEMMA InsertAddsRow ==
  ASSUME InvitationTypeOK, NEW p \in People, Insert(p)
  PROVE  \E i \in Rows : /\ i \notin Joined
                         /\ participant' = [participant EXCEPT ![i] = p]
                         /\ Joined' = Joined \cup {i}
                         /\ Cardinality(Joined') = Cardinality(Joined) + 1
  <1>1. PICK i \in Rows : participant[i] = Nobody /\ participant' = [participant EXCEPT ![i] = p]
    BY DEF Insert
  <1>2. i \notin Joined /\ Joined' = Joined \cup {i}
    BY <1>1, NobodyIsNoPerson DEF InvitationTypeOK, Joined
  <1>3. Joined \in SUBSET Rows
    BY DEF Joined
  <1>4. Cardinality(Joined \cup {i}) = Cardinality(Joined) + 1
    BY <1>2, <1>3, RowsFinite, FS_AddElement
  <1> QED BY <1>1, <1>2, <1>4

-----------------------------------------------------------------------------
(* Type correctness *)

LEMMA NoneIsRequest == None \in Request
  BY DEF None, Request, Phases, People

\* A step that frees a slot or moves its request on keeps all slots typed.
LEMMA SlotsTyped ==
  ASSUME InvitationTypeOK, NEW r \in Slots, NEW q \in Request,
         join' = [join EXCEPT ![r] = q]
  PROVE  join' \in [Slots -> Request]
  BY DEF InvitationTypeOK

\* What the two reads of a join leave in its slot.
LEMMA RedeemAfter ==
  ASSUME InvitationTypeOK, NEW r \in Slots, Redeem(r)
  PROVE  \/ Done(r)
         \/ /\ ~void /\ ~Exhausted(useCount)
            /\ join' = [join EXCEPT ![r] = [phase |-> "redeemed", who |-> join[r].who,
                                           uses |-> useCount, late |-> join[r].late]]
  BY DEF Redeem, InvitationTypeOK, Request

LEMMA CheckAfter ==
  ASSUME InvitationTypeOK, NEW r \in Slots, CountVisitors(r) \/ FindParticipant(r)
  PROVE  \/ Done(r)
         \/ /\ join[r].phase = "redeemed"
            /\ join[r].who = Guest => Cardinality(Visitors) < MaxVisitors
            /\ join' = [join EXCEPT ![r] = [phase |-> "ready", who |-> join[r].who,
                                           uses |-> join[r].uses, late |-> join[r].late]]
  BY PeopleAssumption DEF CountVisitors, FindParticipant, InvitationTypeOK, Request

LEMMA InvitationTypeCorrect == InvitationSpec => []InvitationTypeOK
<1>1. InvitationInit => InvitationTypeOK
  <2>1. 0 \in Nat
    OBVIOUS
  <2>2. [i \in Rows |-> Nobody] \in [Rows -> People \cup {Nobody}]
    OBVIOUS
  <2> QED BY <2>1, <2>2, NoneIsRequest, Zenon DEF InvitationInit, InvitationTypeOK
<1>2. ASSUME InvitationTypeOK, [InvitationNext]_invitationVars PROVE InvitationTypeOK'
  <2> USE <1>2
  <2>1. ASSUME NEW r \in Slots, Done(r) PROVE join' \in [Slots -> Request]
    BY <2>1, NoneIsRequest, SlotsTyped DEF Done
  <2>2. ASSUME NEW r \in Slots, NEW p \in People, Begin(r, p) PROVE InvitationTypeOK'
    <3>1. [None EXCEPT !.phase = "begun", !.who = p, !.late = void] \in Request
      BY DEF None, Request, Phases, InvitationTypeOK
    <3> QED BY <2>2, <3>1, SlotsTyped DEF Begin, InvitationTypeOK
  <2>3. ASSUME NEW r \in Slots, Redeem(r) PROVE InvitationTypeOK'
    <3>1. [phase |-> "redeemed", who |-> join[r].who, uses |-> useCount, late |-> join[r].late]
            \in Request
      BY DEF InvitationTypeOK, Request, Phases
    <3>2. join' \in [Slots -> Request]
      BY <2>1, <2>3, <3>1, RedeemAfter, SlotsTyped
    <3> QED BY <2>3, <3>2 DEF Redeem, InvitationTypeOK
  <2>4. ASSUME NEW r \in Slots, CountVisitors(r) \/ FindParticipant(r) PROVE InvitationTypeOK'
    <3>1. [phase |-> "ready", who |-> join[r].who, uses |-> join[r].uses, late |-> join[r].late]
            \in Request
      BY DEF InvitationTypeOK, Request, Phases
    <3>2. join' \in [Slots -> Request]
      BY <2>1, <2>4, <3>1, CheckAfter, SlotsTyped
    <3> QED BY <2>4, <3>2 DEF CountVisitors, FindParticipant, InvitationTypeOK
  <2>5. ASSUME NEW r \in Slots, Join(r) PROVE InvitationTypeOK'
    <3>1. join[r].who \in People /\ join[r].uses + 1 \in Nat
      BY DEF InvitationTypeOK, Request
    <3>2. participant' \in [Rows -> People \cup {Nobody}]
      BY <2>5, <3>1, InsertAddsRow DEF Join, InvitationTypeOK
    <3> QED BY <2>1, <2>5, <3>1, <3>2 DEF Join, InvitationTypeOK
  <2>6. ASSUME Revoke \/ Close \/ \E i \in Rows : Depart(i) PROVE InvitationTypeOK'
    BY <2>6 DEF Revoke, Close, Depart, InvitationTypeOK
  <2>7. CASE UNCHANGED invitationVars
    BY <2>7 DEF invitationVars, InvitationTypeOK
  <2> QED BY <2>2, <2>3, <2>4, <2>5, <2>6, <2>7 DEF InvitationNext
<1> QED BY <1>1, <1>2, PTL DEF InvitationSpec

-----------------------------------------------------------------------------
(* The link *)

LEMMA LateStoppedKept ==
  ASSUME InvitationTypeOK, LateStopped, [InvitationNext]_invitationVars
  PROVE  LateStopped'
  <1>1. ASSUME NEW r \in Slots, Done(r), UNCHANGED void PROVE LateStopped'
    BY <1>1, SlotAfter DEF Done, None, LateStopped
  <1>2. ASSUME NEW r \in Slots, NEW p \in People, Begin(r, p) PROVE LateStopped'
    <2> DEFINE q == [None EXCEPT !.phase = "begun", !.who = p, !.late = void]
    <2>1. q.phase = "begun" /\ q.late = void
      BY DEF None
    <2> HIDE DEF q
    <2> QED BY <1>2, <2>1, SlotAfter DEF Begin, q, LateStopped
  <1>3. ASSUME NEW r \in Slots, Redeem(r) PROVE LateStopped'
    <2>1. void' = void
      BY <1>3 DEF Redeem
    <2> QED BY <1>1, <1>3, <2>1, RedeemAfter, SlotAfter DEF LateStopped
  <1>4. ASSUME NEW r \in Slots, CountVisitors(r) \/ FindParticipant(r) PROVE LateStopped'
    <2>1. void' = void
      BY <1>4 DEF CountVisitors, FindParticipant
    <2> QED BY <1>1, <1>4, <2>1, CheckAfter, SlotAfter DEF LateStopped
  <1>5. ASSUME NEW r \in Slots, Join(r) PROVE LateStopped'
    BY <1>1, <1>5 DEF Join
  <1>6. CASE Revoke \/ Close \/ \E i \in Rows : Depart(i)
    BY <1>6 DEF Revoke, Close, Depart, LateStopped
  <1>7. CASE UNCHANGED invitationVars
    BY <1>7 DEF invitationVars, LateStopped
  <1> QED BY <1>2, <1>3, <1>4, <1>5, <1>6, <1>7 DEF InvitationNext

\* A link that was revoked or had expired when a request was sent lets nobody
\* in (redeem_token): the request stops there, and the link stays void.
THEOREM VoidLinkRefusedHolds == InvitationSpec => VoidLinkRefused
<1>1. InvitationInit => LateStopped
  BY DEF InvitationInit, LateStopped, None
<1>2. InvitationTypeOK /\ LateStopped /\ [InvitationNext]_invitationVars => LateStopped'
  BY LateStoppedKept
<1>3. InvitationSpec => []LateStopped
  BY <1>1, <1>2, InvitationTypeCorrect, PTL DEF InvitationSpec
<1>4. LateStopped => \A r \in Slots : join[r].late => ~Join(r)
  BY DEF LateStopped, Join
<1> QED BY <1>3, <1>4, PTL DEF VoidLinkRefused

-----------------------------------------------------------------------------
(* The use count *)

UsesInv == UsesNeverOverstated /\ UsesRead

LEMMA UsesInvKept ==
  ASSUME InvitationTypeOK, UsesInv, [InvitationNext]_invitationVars
  PROVE  UsesInv'
  <1> USE DEF UsesInv
  <1>1. Cardinality(Joined) \in Nat /\ useCount \in Nat /\ MaxUses \in Nat
    BY RowsFinite, LimitsAssumption DEF Joined, InvitationTypeOK
  <1>2. ASSUME UNCHANGED <<useCount, participant>>
        PROVE  UNCHANGED <<useCount, Joined>>
    BY <1>2 DEF Joined
  <1>3. ASSUME NEW r \in Slots, Done(r), UNCHANGED <<useCount, Joined>> PROVE UsesInv'
    <2>1. None.phase = "idle"
      BY DEF None
    <2>2. UsesRead'
      BY <1>3, <2>1, SlotAfter DEF Done, UsesRead
    <2> QED BY <1>3, <2>2 DEF UsesNeverOverstated
  <1>4. ASSUME NEW r \in Slots, NEW p \in People, Begin(r, p) PROVE UsesInv'
    <2> DEFINE q == [None EXCEPT !.phase = "begun", !.who = p, !.late = void]
    <2>1. q.phase = "begun"
      BY DEF None
    <2>2. UNCHANGED <<useCount, Joined>> /\ join' = [join EXCEPT ![r] = q]
      BY <1>2, <1>4 DEF Begin
    <2> HIDE DEF q
    <2>3. UsesRead'
      BY <2>1, <2>2, SlotAfter DEF UsesRead
    <2> QED BY <2>2, <2>3 DEF UsesNeverOverstated
  <1>5. ASSUME NEW r \in Slots, Redeem(r) PROVE UsesInv'
    <2>1. UNCHANGED <<useCount, Joined>>
      BY <1>2, <1>5 DEF Redeem
    <2>2. CASE Done(r)
      BY <1>3, <2>1, <2>2
    <2>3. CASE ~Done(r)
      <3> DEFINE q == [phase |-> "redeemed", who |-> join[r].who,
                       uses |-> useCount, late |-> join[r].late]
      <3>1. join' = [join EXCEPT ![r] = q] /\ ~Exhausted(useCount)
        BY <1>5, <2>3, RedeemAfter
      <3>2. q.uses <= Cardinality(Joined) /\ q.uses < MaxUses
        BY <1>1, <3>1 DEF Exhausted, UsesNeverOverstated
      <3> HIDE DEF q
      <3>3. UsesRead'
        BY <2>1, <3>1, <3>2, SlotAfter DEF UsesRead
      <3> QED BY <2>1, <3>3 DEF UsesNeverOverstated
    <2> QED BY <2>2, <2>3
  <1>6. ASSUME NEW r \in Slots, CountVisitors(r) \/ FindParticipant(r) PROVE UsesInv'
    <2>1. UNCHANGED <<useCount, Joined>>
      BY <1>2, <1>6 DEF CountVisitors, FindParticipant
    <2>2. CASE Done(r)
      BY <1>3, <2>1, <2>2
    <2>3. CASE ~Done(r)
      <3> DEFINE q == [phase |-> "ready", who |-> join[r].who,
                       uses |-> join[r].uses, late |-> join[r].late]
      <3>1. join' = [join EXCEPT ![r] = q] /\ join[r].phase = "redeemed"
        BY <1>6, <2>3, CheckAfter
      <3>2. q.uses <= Cardinality(Joined) /\ q.uses < MaxUses
        BY <3>1 DEF UsesRead
      <3> HIDE DEF q
      <3>3. UsesRead'
        BY <2>1, <3>1, <3>2, SlotAfter DEF UsesRead
      <3> QED BY <2>1, <3>3 DEF UsesNeverOverstated
    <2> QED BY <2>2, <2>3
  <1>7. ASSUME NEW r \in Slots, Join(r) PROVE UsesInv'
    <2>1. join[r].who \in People
      BY DEF InvitationTypeOK, Request
    <2>2. Cardinality(Joined') = Cardinality(Joined) + 1
      BY <1>7, <2>1, InsertAddsRow DEF Join
    <2>3. join[r].uses <= Cardinality(Joined) /\ join[r].uses < MaxUses
      BY <1>7 DEF Join, UsesRead
    <2>4. \A s \in Slots : join[s].uses \in Nat
      BY DEF InvitationTypeOK, Request
    <2>5. UsesNeverOverstated'
      BY <1>1, <1>7, <2>2, <2>3, <2>4 DEF Join, UsesNeverOverstated
    <2>6. None.phase = "idle"
      BY DEF None
    <2>7. \A s \in Slots : join'[s].phase \in {"redeemed", "ready"} => join'[s] = join[s]
      BY <1>7, <2>6, SlotAfter DEF Join, Done
    <2>8. UsesRead'
      BY <1>1, <2>2, <2>4, <2>7 DEF UsesRead
    <2> QED BY <2>5, <2>8
  <1>8. ASSUME \/ Revoke \/ Close \/ \E i \in Rows : Depart(i)
               \/ UNCHANGED invitationVars
        PROVE  UsesInv'
    <2>1. UNCHANGED <<useCount, participant, join>>
      BY <1>8 DEF Revoke, Close, Depart, invitationVars
    <2> QED BY <1>2, <2>1 DEF UsesNeverOverstated, UsesRead
  <1> QED BY <1>4, <1>5, <1>6, <1>7, <1>8 DEF InvitationNext

\* Concurrent joins may lose a use (both write the same number) but never count
\* one too many, and use_count does not pass max_uses.
THEOREM UsesNeverOverstatedHolds == InvitationSpec => []UsesNeverOverstated
<1>1. InvitationInit => UsesInv
  <2>1. Cardinality(Joined) \in Nat
    BY RowsFinite DEF Joined
  <2> QED BY <2>1, LimitsAssumption
          DEF InvitationInit, UsesInv, UsesNeverOverstated, UsesRead, None
<1>2. InvitationTypeOK /\ UsesInv /\ [InvitationNext]_invitationVars => UsesInv'
  BY UsesInvKept
<1>3. UsesInv => UsesNeverOverstated
  BY DEF UsesInv
<1> QED BY <1>1, <1>2, <1>3, InvitationTypeCorrect, PTL DEF InvitationSpec

-----------------------------------------------------------------------------
(* The visitor limit *)

LEMMA GuestsFinite ==
  /\ IsFiniteSet(GuestVisitors) /\ Cardinality(GuestVisitors) \in Nat
  /\ IsFiniteSet(Ready(Guest)) /\ Cardinality(Ready(Guest)) \in Nat
  BY RowsFinite, SlotsFinite DEF GuestVisitors, RowsOf, Ready

\* The number of guests in the journey and on the way changes only when a guest
\* is let in by the count, or inserted.
LEMMA LimitKept ==
  ASSUME InvitationTypeOK, VisitorsNearLimit, [InvitationNext]_invitationVars
  PROVE  VisitorsNearLimit'
  <1> DEFINE G == Cardinality(GuestVisitors)
             R == Cardinality(Ready(Guest))
  <1>1. /\ G \in Nat /\ R \in Nat /\ Cardinality(Slots) \in Nat
        /\ MaxVisitors \in Nat \ {0} /\ IsFiniteSet(Ready(Guest))
    BY GuestsFinite, SlotsFinite, LimitsAssumption
  <1>2. ASSUME GuestVisitors' \subseteq GuestVisitors, Ready(Guest)' \subseteq Ready(Guest)
        PROVE  VisitorsNearLimit'
    <2>1. Cardinality(GuestVisitors') <= G /\ Cardinality(GuestVisitors') \in Nat
      BY <1>2, GuestsFinite, FS_Subset, FS_CardinalityType
    <2>2. Cardinality(Ready(Guest)') <= R /\ Cardinality(Ready(Guest)') \in Nat
      BY <1>2, GuestsFinite, FS_Subset, FS_CardinalityType
    <2> QED BY <1>1, <2>1, <2>2 DEF VisitorsNearLimit
  <1>3. ASSUME UNCHANGED <<participant, gone>> PROVE GuestVisitors' = GuestVisitors
    BY <1>3 DEF GuestVisitors, RowsOf
  <1>4. ASSUME NEW r \in Slots, NEW q, q.phase # "ready", join' = [join EXCEPT ![r] = q]
        PROVE  Ready(Guest)' \subseteq Ready(Guest)
    BY <1>4, SlotAfter DEF Ready
  <1>5. None.phase = "idle"
    BY DEF None
  <1>6. ASSUME NEW r \in Slots, NEW p \in People, Begin(r, p) PROVE VisitorsNearLimit'
    <2>1. [None EXCEPT !.phase = "begun", !.who = p, !.late = void].phase # "ready"
      BY DEF None
    <2> QED BY <1>2, <1>3, <1>4, <1>6, <2>1 DEF Begin
  <1>7. ASSUME NEW r \in Slots, Redeem(r) PROVE VisitorsNearLimit'
    <2>1. Ready(Guest)' \subseteq Ready(Guest)
      BY <1>4, <1>5, <1>7, RedeemAfter DEF Done
    <2> QED BY <1>2, <1>3, <1>7, <2>1 DEF Redeem
  <1>8. ASSUME NEW r \in Slots, CountVisitors(r) \/ FindParticipant(r)
        PROVE  VisitorsNearLimit'
    <2>1. GuestVisitors' = GuestVisitors
      BY <1>3, <1>8 DEF CountVisitors, FindParticipant
    <2>2. CASE Done(r)
      BY <1>2, <1>4, <1>5, <2>1, <2>2 DEF Done
    <2>3. CASE ~Done(r) /\ join[r].who # Guest
      <3> DEFINE q == [phase |-> "ready", who |-> join[r].who,
                       uses |-> join[r].uses, late |-> join[r].late]
      <3>1. join' = [join EXCEPT ![r] = q] /\ q.who # Guest
        BY <1>8, <2>3, CheckAfter
      <3> HIDE DEF q
      <3>2. Ready(Guest)' \subseteq Ready(Guest)
        BY <3>1, SlotAfter DEF Ready
      <3> QED BY <1>2, <2>1, <3>2
    <2>4. CASE ~Done(r) /\ join[r].who = Guest
      <3>1. Cardinality(Visitors) < MaxVisitors
        BY <1>8, <2>4, CheckAfter
      <3>2. GuestVisitors \subseteq Visitors
        BY NobodyIsNoPerson DEF GuestVisitors, RowsOf, Visitors, Joined, People
      <3>3. G <= Cardinality(Visitors) /\ Cardinality(Visitors) \in Nat
        BY <3>2, RowsMonotone, RowsFinite DEF Visitors, Joined
      <3>4. Ready(Guest)' \subseteq Slots
        BY DEF Ready
      <3>5. Cardinality(Ready(Guest)') <= Cardinality(Slots) /\ Cardinality(Ready(Guest)') \in Nat
        BY <3>4, SlotsFinite
      <3> QED BY <1>1, <2>1, <3>1, <3>3, <3>5 DEF VisitorsNearLimit
    <2> QED BY <2>2, <2>3, <2>4
  <1>9. ASSUME NEW r \in Slots, Join(r) PROVE VisitorsNearLimit'
    <2>1. join[r].who \in People
      BY DEF InvitationTypeOK, Request
    <2>2. PICK i \in Rows : participant' = [participant EXCEPT ![i] = join[r].who]
      BY <1>9, <2>1, InsertAddsRow DEF Join
    <2>3. gone' = gone /\ join' = [join EXCEPT ![r] = None] /\ join[r].phase = "ready"
      BY <1>9 DEF Join, Done
    <2>4. CASE join[r].who # Guest
      <3>1. GuestVisitors' \subseteq GuestVisitors
        BY <2>2, <2>3, <2>4 DEF GuestVisitors, RowsOf, InvitationTypeOK
      <3> QED BY <1>2, <1>4, <1>5, <2>3, <3>1
    <2>5. CASE join[r].who = Guest
      <3>1. GuestVisitors' \subseteq GuestVisitors \cup {i}
        BY <2>2, <2>3, <2>5 DEF GuestVisitors, RowsOf, InvitationTypeOK
      <3>2. IsFiniteSet(GuestVisitors \cup {i}) /\ Cardinality(GuestVisitors \cup {i}) <= G + 1
        <4>1. /\ IsFiniteSet(GuestVisitors \cup {i})
              /\ Cardinality(GuestVisitors \cup {i}) = IF i \in GuestVisitors THEN G ELSE G + 1
          BY GuestsFinite, FS_AddElement, Zenon
        <4> HIDE DEF G
        <4> QED BY <1>1, <4>1
      <3>3. Cardinality(GuestVisitors \cup {i}) \in Nat
        BY <3>2, FS_CardinalityType
      <3>4. /\ Cardinality(GuestVisitors') <= Cardinality(GuestVisitors \cup {i})
            /\ Cardinality(GuestVisitors') \in Nat
        BY <3>1, <3>2, FS_Subset, FS_CardinalityType
      <3>5. r \in Ready(Guest) /\ Ready(Guest)' = Ready(Guest) \ {r}
        <4>1. \A s \in Slots : join'[s] = IF s = r THEN None ELSE join[s]
          BY <2>3, SlotAfter
        <4> QED BY <1>5, <2>3, <2>5, <4>1 DEF Ready
      <3>6. Cardinality(Ready(Guest)') = R - 1
        BY <1>1, <3>5, FS_RemoveElement
      <3> HIDE DEF G, R
      <3> QED BY <1>1, <3>2, <3>3, <3>4, <3>6 DEF VisitorsNearLimit, G, R
    <2> QED BY <2>4, <2>5
  <1>10. ASSUME \/ Revoke \/ Close \/ \E i \in Rows : Depart(i)
                \/ UNCHANGED invitationVars
         PROVE  VisitorsNearLimit'
    <2>1. GuestVisitors' \subseteq GuestVisitors
      BY <1>10 DEF Revoke, Close, Depart, invitationVars, GuestVisitors, RowsOf
    <2>2. Ready(Guest)' \subseteq Ready(Guest)
      BY <1>10 DEF Revoke, Close, Depart, invitationVars, Ready
    <2> QED BY <1>2, <2>1, <2>2
  <1> QED BY <1>6, <1>7, <1>8, <1>9, <1>10 DEF InvitationNext

\* Guests that join at the same time exceed the limit of the journey by less
\* than the number of requests in flight: each was counted against a journey
\* that had room for it.
THEOREM VisitorsNearLimitHolds == InvitationSpec => []VisitorsNearLimit
<1>1. InvitationInit => VisitorsNearLimit
  <2>1. SUFFICES ASSUME InvitationInit PROVE VisitorsNearLimit
    OBVIOUS
  <2>2. GuestVisitors = {} /\ Ready(Guest) = {}
    BY <2>1, NobodyIsNoPerson
    DEF InvitationInit, GuestVisitors, RowsOf, Ready, None, People
  <2> QED BY <2>2, FS_EmptySet, SlotsFinite, LimitsAssumption DEF VisitorsNearLimit
<1>2. InvitationTypeOK /\ VisitorsNearLimit /\ [InvitationNext]_invitationVars
        => VisitorsNearLimit'
  BY LimitKept
<1> QED BY <1>1, <1>2, InvitationTypeCorrect, PTL DEF InvitationSpec

-----------------------------------------------------------------------------
(* The participants of an account *)

AccountInv(u) == Cardinality(RowsOf(u)) + Cardinality(Ready(u)) <= Cardinality(Slots)

LEMMA AccountFinite ==
  ASSUME NEW u \in Users
  PROVE  /\ IsFiniteSet(RowsOf(u)) /\ Cardinality(RowsOf(u)) \in Nat
         /\ IsFiniteSet(Ready(u)) /\ Cardinality(Ready(u)) \in Nat
         /\ Cardinality(Slots) \in Nat
  BY RowsFinite, SlotsFinite DEF RowsOf, Ready

\* A request gets ready only when the account has no row, and with it no more
\* requests are ready than there are; a row takes the place of a ready request.
LEMMA AccountInvKept ==
  ASSUME InvitationTypeOK, NEW u \in Users, AccountInv(u), [InvitationNext]_invitationVars
  PROVE  AccountInv(u)'
  <1> DEFINE A == Cardinality(RowsOf(u))
             R == Cardinality(Ready(u))
  <1>1. /\ A \in Nat /\ R \in Nat /\ Cardinality(Slots) \in Nat
        /\ IsFiniteSet(RowsOf(u)) /\ IsFiniteSet(Ready(u))
    BY AccountFinite
  <1>2. ASSUME RowsOf(u)' \subseteq RowsOf(u), Ready(u)' \subseteq Ready(u)
        PROVE  AccountInv(u)'
    <2>1. Cardinality(RowsOf(u)') <= A /\ Cardinality(RowsOf(u)') \in Nat
      BY <1>2, AccountFinite, FS_Subset, FS_CardinalityType
    <2>2. Cardinality(Ready(u)') <= R /\ Cardinality(Ready(u)') \in Nat
      BY <1>2, AccountFinite, FS_Subset, FS_CardinalityType
    <2> QED BY <1>1, <2>1, <2>2 DEF AccountInv
  <1>3. ASSUME UNCHANGED participant PROVE RowsOf(u)' = RowsOf(u)
    BY <1>3 DEF RowsOf
  <1>4. ASSUME NEW r \in Slots, NEW q, q.phase # "ready", join' = [join EXCEPT ![r] = q]
        PROVE  Ready(u)' \subseteq Ready(u)
    BY <1>4, SlotAfter DEF Ready
  <1>5. None.phase = "idle"
    BY DEF None
  <1>6. ASSUME NEW r \in Slots, NEW p \in People, Begin(r, p) PROVE AccountInv(u)'
    <2>1. [None EXCEPT !.phase = "begun", !.who = p, !.late = void].phase # "ready"
      BY DEF None
    <2> QED BY <1>2, <1>3, <1>4, <1>6, <2>1 DEF Begin
  <1>7. ASSUME NEW r \in Slots, Redeem(r) PROVE AccountInv(u)'
    <2>1. Ready(u)' \subseteq Ready(u)
      BY <1>4, <1>5, <1>7, RedeemAfter DEF Done
    <2> QED BY <1>2, <1>3, <1>7, <2>1 DEF Redeem
  <1>8. ASSUME NEW r \in Slots, CountVisitors(r) \/ FindParticipant(r) PROVE AccountInv(u)'
    <2>1. RowsOf(u)' = RowsOf(u)
      BY <1>3, <1>8 DEF CountVisitors, FindParticipant
    <2>2. CASE Done(r)
      BY <1>2, <1>4, <1>5, <2>1, <2>2 DEF Done
    <2>3. CASE ~Done(r) /\ join[r].who # u
      <3> DEFINE q == [phase |-> "ready", who |-> join[r].who,
                       uses |-> join[r].uses, late |-> join[r].late]
      <3>1. join' = [join EXCEPT ![r] = q] /\ q.who # u
        BY <1>8, <2>3, CheckAfter
      <3> HIDE DEF q
      <3>2. Ready(u)' \subseteq Ready(u)
        BY <3>1, SlotAfter DEF Ready
      <3> QED BY <1>2, <2>1, <3>2
    <2>4. CASE ~Done(r) /\ join[r].who = u
      <3>1. RowsOf(u) = {}
        BY <1>8, <2>4, PeopleAssumption DEF CountVisitors, FindParticipant
      <3>2. Cardinality(RowsOf(u)') = 0
        BY <2>1, <3>1, FS_EmptySet
      <3>3. Ready(u)' \subseteq Slots
        BY DEF Ready
      <3>4. Cardinality(Ready(u)') <= Cardinality(Slots) /\ Cardinality(Ready(u)') \in Nat
        BY <3>3, SlotsFinite
      <3> QED BY <1>1, <3>2, <3>4 DEF AccountInv
    <2> QED BY <2>2, <2>3, <2>4
  <1>9. ASSUME NEW r \in Slots, Join(r) PROVE AccountInv(u)'
    <2>1. join[r].who \in People
      BY DEF InvitationTypeOK, Request
    <2>2. PICK i \in Rows : participant' = [participant EXCEPT ![i] = join[r].who]
      BY <1>9, <2>1, InsertAddsRow DEF Join
    <2>3. join' = [join EXCEPT ![r] = None] /\ join[r].phase = "ready"
      BY <1>9 DEF Join, Done
    <2>4. CASE join[r].who # u
      <3>1. RowsOf(u)' \subseteq RowsOf(u)
        BY <2>2, <2>4 DEF RowsOf, InvitationTypeOK
      <3> QED BY <1>2, <1>4, <1>5, <2>3, <3>1
    <2>5. CASE join[r].who = u
      <3>1. RowsOf(u)' \subseteq RowsOf(u) \cup {i}
        BY <2>2, <2>5 DEF RowsOf, InvitationTypeOK
      <3>2. IsFiniteSet(RowsOf(u) \cup {i}) /\ Cardinality(RowsOf(u) \cup {i}) <= A + 1
        <4>1. /\ IsFiniteSet(RowsOf(u) \cup {i})
              /\ Cardinality(RowsOf(u) \cup {i}) = IF i \in RowsOf(u) THEN A ELSE A + 1
          BY AccountFinite, FS_AddElement, Zenon
        <4> HIDE DEF A
        <4> QED BY <1>1, <4>1
      <3>3. Cardinality(RowsOf(u) \cup {i}) \in Nat
        BY <3>2, FS_CardinalityType
      <3>4. /\ Cardinality(RowsOf(u)') <= Cardinality(RowsOf(u) \cup {i})
            /\ Cardinality(RowsOf(u)') \in Nat
        BY <3>1, <3>2, FS_Subset, FS_CardinalityType
      <3>5. r \in Ready(u) /\ Ready(u)' = Ready(u) \ {r}
        <4>1. \A s \in Slots : join'[s] = IF s = r THEN None ELSE join[s]
          BY <2>3, SlotAfter
        <4> QED BY <1>5, <2>3, <2>5, <4>1 DEF Ready
      <3>6. Cardinality(Ready(u)') = R - 1
        BY <1>1, <3>5, FS_RemoveElement
      <3> HIDE DEF A, R
      <3> QED BY <1>1, <3>2, <3>3, <3>4, <3>6 DEF AccountInv, A, R
    <2> QED BY <2>4, <2>5
  <1>10. ASSUME \/ Revoke \/ Close \/ \E i \in Rows : Depart(i)
                \/ UNCHANGED invitationVars
         PROVE  AccountInv(u)'
    <2>1. UNCHANGED <<participant, join>>
      BY <1>10 DEF Revoke, Close, Depart, invitationVars
    <2> QED BY <1>2, <2>1 DEF RowsOf, Ready
  <1> QED BY <1>6, <1>7, <1>8, <1>9, <1>10 DEF InvitationNext

\* However many accepts of one account are served at the same time, it gets no
\* more participants than requests in flight, over the whole life of the link:
\* the look-up in join_as_registered counts the rows of those who left as well.
THEOREM AccountRowsFromOverlapHolds == InvitationSpec => []AccountRowsFromOverlap
<1>1. InvitationInit => AccountRowsFromOverlap
  <2>1. SUFFICES ASSUME InvitationInit, NEW u \in Users PROVE AccountInv(u)
    BY DEF AccountRowsFromOverlap, AccountInv
  <2>2. RowsOf(u) = {} /\ Ready(u) = {}
    BY <2>1, NobodyIsNoPerson DEF InvitationInit, RowsOf, Ready, None, People
  <2> QED BY <2>2, FS_EmptySet, SlotsFinite DEF AccountInv
<1>2. ASSUME InvitationTypeOK, AccountRowsFromOverlap, [InvitationNext]_invitationVars
      PROVE  AccountRowsFromOverlap'
  <2>1. ASSUME NEW u \in Users PROVE AccountInv(u)'
    BY <1>2, <2>1, AccountInvKept DEF AccountRowsFromOverlap, AccountInv
  <2> QED BY <2>1 DEF AccountRowsFromOverlap, AccountInv
<1> QED BY <1>1, <1>2, InvitationTypeCorrect, PTL DEF InvitationSpec

=============================================================================
