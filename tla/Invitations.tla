----------------------------- MODULE Invitations -----------------------------
(***************************************************************************)
(* One invitation to one journey (services/invitation_service.py).  Whoever *)
(* holds the link joins, as a new guest or with an account; a join reads   *)
(* the invitation, then the journey and its visitors, and commits the new  *)
(* participant together with use_count + 1 computed from what it read.     *)
(***************************************************************************)
EXTENDS Naturals, FiniteSets

CONSTANTS
  Users,         \* accounts that may accept the invitation
  Guest,         \* whoever joins without an account: each time someone new
  Slots,         \* requests in flight
  MaxUses,       \* journey_invitations.max_uses
  MaxVisitors,   \* settings.max_active_participants
  MaxRows        \* bound on the participants ever created

ASSUME PeopleAssumption == Guest \notin Users /\ "nobody" \notin Users \cup {Guest}
ASSUME SlotsAssumption == IsFiniteSet(Slots)
ASSUME LimitsAssumption == MaxUses \in Nat /\ MaxVisitors \in Nat \ {0} /\ MaxRows \in Nat

People == Users \cup {Guest}
Rows == 1 .. MaxRows

VARIABLES
  useCount,      \* journey_invitations.use_count
  void,          \* the invitation is revoked, or its expires_at has passed
  open,          \* the journey is INVITED or ACTIVE
  participant,   \* journey_participants: who each row belongs to
  gone,          \* the rows that are DECLINED, LEFT or REMOVED
  join           \* the request in each slot

invitationVars == <<useCount, void, open, participant, gone, join>>

Nobody == "nobody"

\* late is history: the link was void when the request was sent.
None == [phase |-> "idle", who |-> Guest, uses |-> 0, late |-> FALSE]

Done(r) == join' = [join EXCEPT ![r] = None]

Exhausted(n) == n >= MaxUses

RowsOf(p) == {i \in Rows : participant[i] = p}
Joined == {i \in Rows : participant[i] # Nobody}
Visitors == Joined \ gone

Pending == {r \in Slots : join[r].phase # "idle"}

-----------------------------------------------------------------------------
(* Joining *)

\* Bound: MaxRows participants are created at most.
Begin(r, p) ==
  /\ join[r].phase = "idle"
  /\ Cardinality(Joined) + Cardinality(Pending) < MaxRows
  /\ join' = [join EXCEPT ![r] = [None EXCEPT !.phase = "begun", !.who = p, !.late = void]]
  /\ UNCHANGED <<useCount, void, open, participant, gone>>

\* Faulty variant of Redeem: only the uses are checked.
RedeemUnexhausted(r) ==
  /\ join[r].phase = "begun"
  /\ IF Exhausted(useCount)
     THEN Done(r)
     ELSE join' = [join EXCEPT ![r].phase = "redeemed", ![r].uses = useCount]
  /\ UNCHANGED <<useCount, void, open, participant, gone>>

\* redeem_token reads the invitation.
Redeem(r) ==
  /\ join[r].phase = "begun"
  /\ IF void \/ Exhausted(useCount)
     THEN Done(r)
     ELSE join' = [join EXCEPT ![r].phase = "redeemed", ![r].uses = useCount]
  /\ UNCHANGED <<useCount, void, open, participant, gone>>

\* Faulty variant of CountVisitors: the limit itself is still let in.
CountVisitorsUpTo(r) ==
  /\ join[r].phase = "redeemed" /\ join[r].who = Guest
  /\ IF open /\ Cardinality(Visitors) <= MaxVisitors
     THEN join' = [join EXCEPT ![r].phase = "ready"]
     ELSE Done(r)
  /\ UNCHANGED <<useCount, void, open, participant, gone>>

\* join_as_guest reads the journey and counts its visitors.
CountVisitors(r) ==
  /\ join[r].phase = "redeemed" /\ join[r].who = Guest
  /\ IF open /\ Cardinality(Visitors) < MaxVisitors
     THEN join' = [join EXCEPT ![r].phase = "ready"]
     ELSE Done(r)
  /\ UNCHANGED <<useCount, void, open, participant, gone>>

\* Faulty variant of FindParticipant: who has left may join anew.
FindVisitor(r) ==
  /\ join[r].phase = "redeemed" /\ join[r].who \in Users
  /\ IF open /\ RowsOf(join[r].who) \subseteq gone
     THEN join' = [join EXCEPT ![r].phase = "ready"]
     ELSE Done(r)
  /\ UNCHANGED <<useCount, void, open, participant, gone>>

\* join_as_registered reads the journey and the account's participant: if there
\* is one it is returned or refused (and two make the query fail).
FindParticipant(r) ==
  /\ join[r].phase = "redeemed" /\ join[r].who \in Users
  /\ IF open /\ RowsOf(join[r].who) = {}
     THEN join' = [join EXCEPT ![r].phase = "ready"]
     ELSE Done(r)
  /\ UNCHANGED <<useCount, void, open, participant, gone>>

Insert(p) ==
  \E i \in Rows : /\ participant[i] = Nobody
                  /\ \A k \in 1 .. i - 1 : participant[k] # Nobody
                  /\ participant' = [participant EXCEPT ![i] = p]

\* Faulty variant of Join: the endpoint counts the use as well.
JoinCountedTwice(r) ==
  /\ join[r].phase = "ready"
  /\ Insert(join[r].who)
  /\ useCount' = join[r].uses + 2
  /\ Done(r)
  /\ UNCHANGED <<void, open, gone>>

\* The participant is inserted and use_count written.
Join(r) ==
  /\ join[r].phase = "ready"
  /\ Insert(join[r].who)
  /\ useCount' = join[r].uses + 1
  /\ Done(r)
  /\ UNCHANGED <<void, open, gone>>

-----------------------------------------------------------------------------
(* What happens to the invitation, the journey and the visitors meanwhile *)

\* revoke_invitation, or time.
Revoke ==
  /\ ~void
  /\ void' = TRUE
  /\ UNCHANGED <<useCount, open, participant, gone, join>>

\* The journey is completed, cancelled or expired.
Close ==
  /\ open
  /\ open' = FALSE
  /\ UNCHANGED <<useCount, void, participant, gone, join>>

\* A visitor leaves or is removed.
Depart(i) ==
  /\ i \in Visitors
  /\ gone' = gone \cup {i}
  /\ UNCHANGED <<useCount, void, open, participant, join>>

-----------------------------------------------------------------------------
(* Specification *)

InvitationInit ==
  /\ useCount = 0
  /\ void = FALSE
  /\ open = TRUE
  /\ participant = [i \in Rows |-> Nobody]
  /\ gone = {}
  /\ join = [r \in Slots |-> None]

InvitationNext ==
  \/ \E r \in Slots, p \in People : Begin(r, p)
  \/ \E r \in Slots : Redeem(r) \/ CountVisitors(r) \/ FindParticipant(r) \/ Join(r)
  \/ Revoke \/ Close
  \/ \E i \in Rows : Depart(i)

InvitationSpec == InvitationInit /\ [][InvitationNext]_invitationVars

-----------------------------------------------------------------------------
(* Properties *)

\* A link that was revoked or had expired when a request was sent lets nobody
\* in, although the request is checked and committed in separate steps.
VoidLinkRefused == [][\A r \in Slots : join[r].late => ~Join(r)]_invitationVars

\* use_count may lag behind the joins (concurrent joins write the same number)
\* but never overstates them, nor does it pass max_uses: nobody is turned away
\* as long as the link has uses left.
UsesNeverOverstated == useCount <= Cardinality(Joined) /\ useCount <= MaxUses

GuestVisitors == RowsOf(Guest) \ gone
Ready(p) == {r \in Slots : join[r].phase = "ready" /\ join[r].who = p}

\* However many guests join at the same time, they exceed the limit of the
\* journey by less than the number of requests in flight.  (The rows of
\* accounts may exceed it by any number: join_as_registered checks no limit.)
VisitorsNearLimit ==
  Cardinality(GuestVisitors) + Cardinality(Ready(Guest))
    <= MaxVisitors - 1 + Cardinality(Slots)

\* Nothing in the database keeps an account from having two participants in a
\* journey, but they come from requests that overlapped: it has no more than
\* there are requests in flight, and having left it does not get another.
AccountRowsFromOverlap ==
  \A u \in Users : Cardinality(RowsOf(u)) + Cardinality(Ready(u)) <= Cardinality(Slots)

=============================================================================
