-------------------------- MODULE LiveChannelProofs --------------------------
(***************************************************************************)
(* Proofs about LiveChannel and ExpiryWorker, for any journeys, sockets    *)
(* and bounds: the worker expires only what is overdue, beside any number  *)
(* of sockets; the manager holds no dead connection, no broadcast loses a  *)
(* member, and no location goes to a visitor's socket.                     *)
(***************************************************************************)
EXTENDS LiveChannel, TLAPS

-----------------------------------------------------------------------------
(* The worker *)

\* What the worker has read or marked was overdue then, and is so still.
ExpiryInv ==
  /\ clock \in Nat
  /\ status \in [Journeys -> OpenStatus \cup {"COMPLETED", "EXPIRED"}]
  /\ consent \in [Journeys -> {"NONE", "GRANTED", "REVOKED", "EXPIRED"}]
  /\ ExpiresOnlyOverdue
  /\ \A j \in overdue : j \in Journeys => IsOverdue(j)

LEMMA StaysOverdue ==
  ASSUME clock \in Nat, clock' \in Nat, clock <= clock', NEW j \in Journeys, IsOverdue(j)
  PROVE  IsOverdue(j)'
  BY ExpiresAtAssumption DEF IsOverdue

LEMMA ExpiryInvKept ==
  ASSUME ExpiryInv, [ExpiryNext]_expiryVars
  PROVE  ExpiryInv'
  <1> USE DEF ExpiryInv, ExpiresOnlyOverdue, OpenStatus
  <1>1. ASSUME NEW j \in Journeys,
               HostStarts(j) \/ JourneyEnds(j) \/ ConsentGiven(j) \/ ConsentWithdrawn(j)
        PROVE  ExpiryInv'
    BY <1>1 DEF HostStarts, JourneyEnds, ConsentGiven, ConsentWithdrawn, IsOverdue
  <1>2. CASE ExpireJourneys
    BY <1>2 DEF ExpireJourneys, OverdueJourneys, IsOverdue
  <1>3. CASE ExpireParticipants
    BY <1>3 DEF ExpireParticipants, Rollback, IsOverdue
  <1>4. CASE ExpireConsents
    BY <1>4 DEF ExpireConsents, IsOverdue
  <1>5. CASE Commit
    BY <1>5 DEF Commit, Rollback, IsOverdue
  <1>6. CASE Restart
    BY <1>6 DEF Restart, Rollback, IsOverdue
  <1>7. CASE Tick
    <2>1. clock' \in Nat /\ clock <= clock'
      BY <1>7 DEF Tick
    <2> QED BY <1>7, <2>1, StaysOverdue DEF Tick
  <1>8. CASE UNCHANGED expiryVars
    BY <1>8 DEF expiryVars, IsOverdue
  <1> QED BY <1>1, <1>2, <1>3, <1>4, <1>5, <1>6, <1>7, <1>8 DEF ExpiryNext, WorkerStep

\* The sockets take connections from the requests but change nothing else: what
\* the process does to journeys and consents is what ExpiryWorker allows.
THEOREM ChannelKeepsWorker == ChannelSpec => ExpiryInit /\ [][ExpiryNext]_expiryVars
<1>1. ChannelInit => ExpiryInit
  BY DEF ChannelInit
<1>2. [ChannelNext]_allVars => [ExpiryNext]_expiryVars
  BY DEF ChannelNext, allVars, Request, ExpiryNext
<1> QED BY <1>1, <1>2, PTL DEF ChannelSpec

\* However its reads interleave with requests, restarts and time, the worker
\* (run_once) expires no consent and no journey before its time.
THEOREM ExpiresOnlyOverdueHolds == ChannelSpec => []ExpiresOnlyOverdue
<1>1. ExpiryInit => ExpiryInv
  BY DEF ExpiryInit, ExpiryInv, ExpiresOnlyOverdue, OpenStatus
<1>2. ExpiryInv /\ [ExpiryNext]_expiryVars => ExpiryInv'
  BY ExpiryInvKept
<1>3. ExpiryInv => ExpiresOnlyOverdue
  BY DEF ExpiryInv
<1> QED BY <1>1, <1>2, <1>3, ChannelKeepsWorker, PTL

-----------------------------------------------------------------------------
(* The sockets *)

Phases == {"new", "known", "loaded", "scoped", "registered", "open", "over"}

Broadcast == [kind : {"none", "event", "location"}, rest : SUBSET Sockets,
              due : SUBSET Sockets]

ChannelTypeOK ==
  /\ handler \in [Sockets -> Phases]
  /\ scope \subseteq Sockets /\ channel \subseteq Sockets
  /\ broadcast \in Broadcast

\* A handler is registered only between connect and its finally clause.
RegisteredLive == \A k \in channel : handler[k] \in {"registered", "open"}

\* The scope of a visitor's socket is empty.
ScopeOfHosts == scope \subseteq HostSockets

ChannelInv ==
  /\ ChannelTypeOK
  /\ RegisteredLive
  /\ MembersReached
  /\ ScopeOfHosts
  /\ LocationsToHostOnly

\* What a broadcast still has to do when a connection is disconnected, or served.
LEMMA BroadcastAfter ==
  ASSUME ChannelTypeOK, NEW k \in Sockets,
         \/ broadcast' = [broadcast EXCEPT !.due = @ \ {k}]
         \/ broadcast' = [broadcast EXCEPT !.rest = @ \ {k}, !.due = @ \ {k}]
  PROVE  /\ broadcast' \in Broadcast
         /\ broadcast'.kind = broadcast.kind
         /\ broadcast'.rest \subseteq broadcast.rest
         /\ broadcast'.due = broadcast.due \ {k}
         /\ broadcast.rest \ {k} \subseteq broadcast'.rest
  BY DEF ChannelTypeOK, Broadcast

LEMMA ChannelInvKept ==
  ASSUME ChannelInv, [ChannelNext]_allVars
  PROVE  ChannelInv'
  <1> USE DEF ChannelInv, ChannelTypeOK, RegisteredLive, ScopeOfHosts, Phases
  <1>1. ASSUME NEW k \in Sockets, Connect(k) \/ LoadJourney(k) \/ SendSnapshot(k)
        PROVE  ChannelInv'
    <2>1. UNCHANGED <<scope, channel, broadcast>>
      BY <1>1 DEF Connect, LoadJourney, SendSnapshot
    <2>2. handler' \in [Sockets -> Phases] /\ RegisteredLive'
      BY <1>1, <2>1 DEF Connect, LoadJourney, SendSnapshot
    <2> QED BY <2>1, <2>2 DEF MembersReached, LocationsToHostOnly
  <1>2. ASSUME NEW k \in Sockets, ReadScope(k) PROVE ChannelInv'
    <2>1. UNCHANGED <<channel, broadcast>>
      BY <1>2 DEF ReadScope
    <2>2. handler' \in [Sockets -> Phases] /\ RegisteredLive'
      BY <1>2, <2>1 DEF ReadScope
    <2>3. scope' \subseteq Sockets /\ ScopeOfHosts'
      BY <1>2 DEF ReadScope
    <2> QED BY <2>1, <2>2, <2>3 DEF MembersReached, LocationsToHostOnly
  <1>3. ASSUME NEW k \in Sockets, Register(k) PROVE ChannelInv'
    <2>1. handler' \in [Sockets -> Phases] /\ channel' \subseteq Sockets /\ RegisteredLive'
      BY <1>3 DEF Register
    <2> QED BY <1>3, <2>1 DEF Register, MembersReached, LocationsToHostOnly
  <1>4. ASSUME NEW k \in Sockets, End(k) PROVE ChannelInv'
    <2>1. broadcast' \in Broadcast /\ MembersReached' /\ LocationsToHostOnly'
      BY <1>4, BroadcastAfter DEF End, Disconnect, MembersReached, LocationsToHostOnly
    <2>2. handler' \in [Sockets -> Phases] /\ channel' \subseteq Sockets /\ RegisteredLive'
      BY <1>4 DEF End, Disconnect
    <2>3. scope' \subseteq Sockets /\ ScopeOfHosts'
      BY <1>4 DEF End
    <2> QED BY <2>1, <2>2, <2>3
  <1>5. ASSUME NEW k \in Sockets, Deliver(k) \/ DeliveryFails(k) PROVE ChannelInv'
    <2>1. broadcast' \in Broadcast /\ MembersReached' /\ LocationsToHostOnly'
      BY <1>5, BroadcastAfter
      DEF Deliver, DeliveryFails, MembersReached, LocationsToHostOnly
    <2>2. UNCHANGED <<handler, scope>> /\ channel' \subseteq channel
      BY <1>5 DEF Deliver, DeliveryFails
    <2> QED BY <2>1, <2>2
  <1>6. ASSUME NEW j \in Journeys, NEW kind \in {"event", "location"}, StartBroadcast(j, kind)
        PROVE  ChannelInv'
    <2> DEFINE list == {k \in Members(j) : MayReceive(k, kind)}
    <2>1. list \subseteq Sockets
      BY DEF Members
    <2>2. kind = "location" => list \subseteq HostSockets
      BY DEF MayReceive
    <2>3. broadcast' = [kind |-> kind, rest |-> list, due |-> list]
          /\ UNCHANGED <<handler, scope, channel>>
      BY <1>6 DEF StartBroadcast
    <2> HIDE DEF list
    <2> QED BY <2>1, <2>2, <2>3 DEF Broadcast, MembersReached, LocationsToHostOnly
  <1>7. CASE UNCHANGED channelVars
    BY <1>7 DEF channelVars, MembersReached, LocationsToHostOnly
  <1>8. CASE UNCHANGED allVars
    BY <1>7, <1>8 DEF allVars
  <1> QED BY <1>1, <1>2, <1>3, <1>4, <1>5, <1>6, <1>7, <1>8 DEF ChannelNext, SocketStep

LEMMA ChannelInvHolds == ChannelSpec => []ChannelInv
<1>1. ChannelInit => ChannelInv
  BY DEF ChannelInit, ChannelInv, ChannelTypeOK, Phases, Broadcast, NoBroadcast,
         RegisteredLive, MembersReached, ScopeOfHosts, LocationsToHostOnly
<1>2. ChannelInv /\ [ChannelNext]_allVars => ChannelInv'
  BY ChannelInvKept
<1> QED BY <1>1, <1>2, PTL DEF ChannelSpec

\* Whichever way a handler ends, its connection is out of _channels by then
\* (the finally clause of journey_socket).
THEOREM NoGhostsHolds == ChannelSpec => []NoGhosts
<1>1. ChannelInv => NoGhosts
  BY DEF ChannelInv, RegisteredLive, NoGhosts, Alive
<1> QED BY <1>1, ChannelInvHolds, PTL

\* A broadcast of the manager passes nobody over who stays, although others
\* connect, leave and fail between its awaits.
THEOREM MembersReachedHolds == ChannelSpec => []MembersReached
<1>1. ChannelInv => MembersReached
  BY DEF ChannelInv
<1> QED BY <1>1, ChannelInvHolds, PTL

\* broadcast_to_authorized sends a location to no socket of a visitor.
THEOREM LocationsToHostOnlyHolds == ChannelSpec => []LocationsToHostOnly
<1>1. ChannelInv => LocationsToHostOnly
  BY DEF ChannelInv
<1> QED BY <1>1, ChannelInvHolds, PTL

=============================================================================
