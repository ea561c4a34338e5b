---------------------------- MODULE LiveChannel ----------------------------
(***************************************************************************)
(* The sockets of the API process (src/backend/app/websocket) beside the   *)
(* requests and the worker of ExpiryWorker.  A socket's handler identifies *)
(* its user, reads the journey with its participants and then the consents *)
(* that are its authorization scope, registers with the manager, sends the *)
(* snapshot and waits for pings.  From its first query to its end it has a *)
(* connection of the pool that the requests of the process need as well;   *)
(* the worker, a process of its own, does not.  No code of the repository  *)
(* calls the manager's broadcasts: here somebody does, at any time.        *)
(***************************************************************************)
EXTENDS ExpiryWorker

CONSTANTS
  Sockets,       \* connections, each of which is opened once
  JourneyOf,     \* socket -> journey_id
  HostSockets,   \* the sockets of journey hosts
  Pool           \* db_pool_size + db_max_overflow

ASSUME JourneyOfAssumption == JourneyOf \in [Sockets -> Journeys]
ASSUME HostSocketsAssumption == HostSockets \subseteq Sockets
ASSUME PoolAssumption == Pool \in Nat

VARIABLES
  handler,       \* how far the handler of each socket is
  scope,         \* sockets whose authorized_participant_ids have the visitor
  channel,       \* _channels: the sockets registered with the manager
  broadcast      \* the broadcast in progress: those it is still to send to, and
                 \* those of them that have been registered ever since (history)

channelVars == <<handler, scope, channel, broadcast>>
allVars == <<expiryVars, channelVars>>

NoBroadcast == [kind |-> "none", rest |-> {}, due |-> {}]

Alive(k) == handler[k] \notin {"new", "over"}

\* A connection of the pool is free.
ConnectionFree == Cardinality({k \in Sockets : Alive(k)}) < Pool

ConsentActive(j) == consent[j] = "GRANTED" /\ ~IsOverdue(j)

\* ConnectionManager.disconnect, for a connection that may be gone already.
Disconnect(k) ==
  /\ channel' = channel \ {k}
  /\ broadcast' = [broadcast EXCEPT !.due = @ \ {k}]

-----------------------------------------------------------------------------
(* The handler: journey_socket *)

\* Authenticated with the first query.  A client that is refused, or for whom
\* no connection gets free in time, is closed with 4401 and changes nothing.
Connect(k) ==
  /\ handler[k] = "new" /\ ConnectionFree
  /\ handler' = [handler EXCEPT ![k] = "known"]
  /\ UNCHANGED <<scope, channel, broadcast>>

\* The journey and its participants, the viewer's among them (or 4404, 4403).
LoadJourney(k) ==
  /\ handler[k] = "known"
  /\ \E next \in {"loaded", "over"} : handler' = [handler EXCEPT ![k] = next]
  /\ UNCHANGED <<scope, channel, broadcast>>

\* Faulty variant of ReadScope: every member gets the scope of the host.
ReadScopeOfAll(k) ==
  /\ handler[k] = "loaded"
  /\ handler' = [handler EXCEPT ![k] = "scoped"]
  /\ scope' \in {scope, IF ConsentActive(JourneyOf[k]) THEN scope \cup {k} ELSE scope}
  /\ UNCHANGED <<channel, broadcast>>

\* _has_active_consent, for a host, of a visitor who was ACTIVE when the
\* participants were read (or was not: the scope stays empty).
ReadScope(k) ==
  /\ handler[k] = "loaded"
  /\ handler' = [handler EXCEPT ![k] = "scoped"]
  /\ \/ UNCHANGED scope
     \/ k \in HostSockets /\ ConsentActive(JourneyOf[k]) /\ scope' = scope \cup {k}
  /\ UNCHANGED <<channel, broadcast>>

\* ConnectionManager.connect: accepted, then registered at once.
Register(k) ==
  /\ handler[k] = "scoped"
  /\ handler' = [handler EXCEPT ![k] = "registered"]
  /\ channel' = channel \cup {k}
  /\ UNCHANGED <<scope, broadcast>>

SendSnapshot(k) ==
  /\ handler[k] = "registered"
  /\ handler' = [handler EXCEPT ![k] = "open"]
  /\ UNCHANGED <<scope, channel, broadcast>>

\* Faulty variant of End: disconnected only when the client leaves the loop.
EndOfLoop(k) ==
  /\ Alive(k)
  /\ handler' = [handler EXCEPT ![k] = "over"]
  /\ scope' = scope \ {k}
  /\ IF handler[k] = "open" THEN Disconnect(k) ELSE UNCHANGED <<channel, broadcast>>

\* The client leaves or a query or a message fails, wherever the handler is:
\* the finally clause disconnects, the session gives its connection back.
End(k) ==
  /\ Alive(k)
  /\ handler' = [handler EXCEPT ![k] = "over"]
  /\ scope' = scope \ {k}
  /\ Disconnect(k)

-----------------------------------------------------------------------------
(* The broadcasts: broadcast_to_channel, broadcast_to_authorized *)

Members(j) == {k \in channel : JourneyOf[k] = j}

\* authorized_connections
MayReceive(k, kind) == kind = "event" \/ k \in HostSockets \/ k \in scope

\* The recipients are listed first; sending to them is an await for each.
\* Bound: one broadcast at a time.
StartBroadcast(j, kind) ==
  /\ broadcast.rest = {}
  /\ LET list == {k \in Members(j) : MayReceive(k, kind)}
     IN  broadcast' = [kind |-> kind, rest |-> list, due |-> list]
  /\ UNCHANGED <<handler, scope, channel>>

Deliver(k) ==
  /\ k \in broadcast.rest /\ Alive(k)
  /\ broadcast' = [broadcast EXCEPT !.rest = @ \ {k}, !.due = @ \ {k}]
  /\ UNCHANGED <<handler, scope, channel>>

\* Faulty variant of DeliveryFails: the connection is removed from the very list
\* that is being walked, and the one after it is passed over.
DeliveryFailsInPlace(k) ==
  /\ k \in broadcast.rest
  /\ \E skipped \in SUBSET (broadcast.rest \ {k}) :
       /\ Cardinality(skipped) <= 1
       /\ broadcast' = [broadcast EXCEPT !.rest = @ \ ({k} \cup skipped), !.due = @ \ {k}]
  /\ channel' = channel \ {k}
  /\ UNCHANGED <<handler, scope>>

\* The client is gone, or its handler: the manager disconnects it.
DeliveryFails(k) ==
  /\ k \in broadcast.rest
  /\ broadcast' = [broadcast EXCEPT !.rest = @ \ {k}, !.due = @ \ {k}]
  /\ channel' = channel \ {k}
  /\ UNCHANGED <<handler, scope>>

-----------------------------------------------------------------------------
(* Specification *)

\* A request needs a connection of the pool, or fails after a timeout.
Request(j) ==
  /\ ConnectionFree
  /\ HostStarts(j) \/ JourneyEnds(j) \/ ConsentGiven(j) \/ ConsentWithdrawn(j)

SocketStep(k) ==
  \/ Connect(k) \/ LoadJourney(k) \/ ReadScope(k) \/ Register(k) \/ SendSnapshot(k) \/ End(k)
  \/ Deliver(k) \/ DeliveryFails(k)

ChannelInit ==
  /\ ExpiryInit
  /\ handler = [k \in Sockets |-> "new"]
  /\ scope = {} /\ channel = {}
  /\ broadcast = NoBroadcast

ChannelNext ==
  \/ /\ (\E j \in Journeys : Request(j)) \/ WorkerStep \/ Restart \/ Tick
     /\ UNCHANGED channelVars
  \/ /\ \/ \E k \in Sockets : SocketStep(k)
        \/ \E j \in Journeys, kind \in {"event", "location"} : StartBroadcast(j, kind)
     /\ UNCHANGED expiryVars

\* The worker's loop and time go on; clients, requests and sockets need not.
ChannelSpec ==
  ChannelInit /\ [][ChannelNext]_allVars /\ WF_expiryVars(WorkerStep) /\ WF_expiryVars(Tick)

-----------------------------------------------------------------------------
(* Properties *)

\* The manager holds no connection whose handler has ended, on whatever path and
\* in the middle of whatever broadcast: it would be sent to for ever after.
NoGhosts == \A k \in channel : Alive(k)

\* Whoever has been registered since a broadcast began and has not been sent it
\* is still on its list, although connections come and go between the awaits.
MembersReached == broadcast.due \subseteq broadcast.rest

\* A location goes to sockets of the host only: visitors get an empty scope
\* although they are members of the same channel ("visitors receive no other
\* participants' locations", handlers.py:7).
LocationsToHostOnly == broadcast.kind = "location" => broadcast.rest \subseteq HostSockets

=============================================================================
