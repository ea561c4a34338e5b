---------------------------- MODULE MobileSharing ----------------------------
(***************************************************************************)
(* Location sharing on the device: the Dart controller                     *)
(* (location_sharing_controller.dart) and, on Android's main thread, the   *)
(* method and event channels (MainActivity.kt, LocationEventBridge.kt) and *)
(* the foreground service (JourneyLocationService.kt).  The two threads    *)
(* exchange messages in order; Android delivers the intents to the service *)
(* later, in order as well.  The activity may be destroyed, and the Dart   *)
(* side with it, while the service keeps the process.                      *)
(***************************************************************************)
EXTENDS Naturals, FiniteSets, Sequences, SequencesExt

CONSTANTS
  MaxCalls,      \* bound on start() and stop() in flight, with all intents
  MaxFixes       \* bound on locations on their way to the controller

ASSUME BoundsAssumption == MaxCalls \in Nat /\ MaxFixes \in Nat

VARIABLES
  sharing,       \* _sharing
  journey,       \* _activeJourneyId is set
  sub,           \* _sub listens
  throttle,      \* _uploadThrottle is pending
  kept,          \* the last event that found no listener, which Flutter keeps
                 \* for the next one
  calls,         \* messages from the controller to the main thread
  events,        \* answers and events from the main thread to the controller
  sink,          \* LocationEventBridge.sink is attached
  intents,       \* intents and destruction on their way to the service
  updating,      \* the service's callback receives location updates
  wish,          \* history: the last call, "stop" or "silence" after stop(),
                 \* the latter if no start() was in flight then; "gone" if the
                 \* engine died before a stop() had been passed on
  misled         \* history: since the last start() that succeeded the engine has
                 \* died, or that start() took a "stopped" kept from before

dartVars == <<sharing, journey, sub, throttle, kept>>
mainVars == <<sink, intents, updating>>
historyVars == <<wish, misled>>
mobileVars == <<dartVars, mainVars, calls, events, historyVars>>

Emit(e) == events' = Append(events, e)

HowMany(s, messages) == Cardinality({i \in 1 .. Len(s) : s[i] \in messages})

Starting == Contains(calls, "start") \/ Contains(events, "started") \/ Contains(events, "refused")

\* start() and stop() in flight, and what the service has yet to handle.
Waiting ==
  HowMany(calls, {"start", "stop"}) + HowMany(events, {"started", "refused", "ended"}) + Len(intents)

\* Locations between the service and the upload.
OnTheWay ==
  HowMany(events, {"location"}) + (IF throttle THEN 1 ELSE 0) + (IF kept = "location" THEN 1 ELSE 0)

\* Nobody has called start() since the last stop() or the last engine's end.
Silent == wish \in {"silence", "gone"}

Quiet == calls = <<>> /\ events = <<>> /\ intents = <<>>

-----------------------------------------------------------------------------
(* The controller: its two calls, made at any time *)

StartCall ==
  /\ Waiting < MaxCalls
  /\ journey' = TRUE
  /\ calls' = Append(calls, "start")
  /\ wish' = "start"
  /\ UNCHANGED <<sharing, sub, throttle, kept, mainVars, events, misled>>

\* Faulty variant of StopCall: an upload that is due is not cancelled.
StopCallTimerRuns ==
  /\ Waiting < MaxCalls
  /\ sub' = FALSE
  /\ calls' = calls \o (IF sub THEN <<"cancel", "stop">> ELSE <<"stop">>)
  /\ wish' = IF Starting THEN "stop" ELSE "silence"
  /\ UNCHANGED <<sharing, journey, throttle, kept, mainVars, events, misled>>

\* Faulty variant of StopCall: the service is told only if sharing has begun.
StopCallIfSharing ==
  /\ Waiting < MaxCalls
  /\ sub' = FALSE /\ throttle' = FALSE
  /\ calls' = calls \o (IF sub THEN <<"cancel">> ELSE <<>>)
                    \o (IF sharing THEN <<"stop">> ELSE <<>>)
  /\ wish' = IF Starting THEN "stop" ELSE "silence"
  /\ UNCHANGED <<sharing, journey, kept, mainVars, events, misled>>

StopCall ==
  /\ Waiting < MaxCalls
  /\ sub' = FALSE /\ throttle' = FALSE
  /\ calls' = calls \o (IF sub THEN <<"cancel", "stop">> ELSE <<"stop">>)
  /\ wish' = IF Starting THEN "stop" ELSE "silence"
  /\ UNCHANGED <<sharing, journey, kept, mainVars, events, misled>>

\* start() goes on: it replaces the subscription.  An event that was kept is
\* delivered to the new one once _sharing has been set.
StartAnswered ==
  /\ sub' = TRUE /\ kept' = "none"
  /\ sharing' = (kept # "stopped")
  /\ throttle' = (throttle \/ (journey /\ kept = "location"))
  /\ calls' = calls \o (IF sub THEN <<"cancel", "listen">> ELSE <<"listen">>)
  /\ misled' = (kept = "stopped")
  /\ UNCHANGED journey

StartRefused == UNCHANGED <<dartVars, calls, misled>>

\* stop() goes on.
StopAnswered ==
  /\ sharing' = FALSE /\ journey' = FALSE
  /\ UNCHANGED <<sub, throttle, kept, calls, misled>>

\* _onEvent: a location restarts the timer of the upload.  The interval it asks
\* for is not implemented by the main thread and the error ignored.
OnEvent(e) ==
  /\ sub
  /\ sharing' = (sharing /\ e # "stopped")
  /\ throttle' = (throttle \/ (journey /\ e = "location"))
  /\ UNCHANGED <<journey, sub, kept, calls, misled>>

\* No subscription: the channel's buffer, which has room for one, keeps the event.
Keep(e) ==
  /\ ~sub
  /\ kept' = e
  /\ UNCHANGED <<sharing, journey, sub, throttle, calls, misled>>

HandleEvent ==
  /\ events # <<>>
  /\ CASE Head(events) = "started" -> StartAnswered
       [] Head(events) = "refused" -> StartRefused
       [] Head(events) = "ended" -> StopAnswered
       [] OTHER -> OnEvent(Head(events)) \/ Keep(Head(events))
  /\ events' = Tail(events)
  /\ UNCHANGED <<mainVars, wish>>

\* Faulty variant of UploadTimer: the timer is periodic.
UploadTimerPeriodic ==
  /\ throttle
  /\ UNCHANGED mobileVars

\* The timer fires; without a journey the upload raises.
UploadTimer ==
  /\ throttle
  /\ throttle' = FALSE
  /\ UNCHANGED <<sharing, journey, sub, kept, mainVars, calls, events, historyVars>>

-----------------------------------------------------------------------------
(* The main thread: channels and service *)

HandleCall ==
  /\ calls # <<>>
  /\ calls' = Tail(calls)
  /\ CASE Head(calls) = "start" ->
            /\ \/ Emit("started") /\ intents' = Append(intents, "START")
               \/ Emit("refused") /\ UNCHANGED intents
            /\ UNCHANGED sink
       [] Head(calls) = "stop" ->
            /\ Emit("ended")
            /\ intents' = Append(intents, "DESTROY")
            /\ UNCHANGED sink
       [] OTHER ->
            /\ sink' = (Head(calls) = "listen")
            /\ UNCHANGED <<events, intents>>
  /\ UNCHANGED <<dartVars, updating, historyVars>>

\* stopSharing; the "stopped" event is lost if nobody listens.
StopSharing ==
  /\ updating' = FALSE
  /\ IF sink THEN Emit("stopped") ELSE UNCHANGED events
  /\ intents' = Append(Tail(intents), "DESTROY")

\* startLocationUpdates: a SecurityException stops the service.
StartLocationUpdates ==
  \/ updating' = TRUE /\ intents' = Tail(intents) /\ UNCHANGED events
  \/ StopSharing

\* Faulty variant of OnDestroy: the location updates are not removed.
OnDestroyUpdating ==
  intents' = Tail(intents) /\ UNCHANGED <<updating, events>>

OnDestroy ==
  updating' = FALSE /\ intents' = Tail(intents) /\ UNCHANGED events

HandleIntent ==
  /\ intents # <<>>
  /\ CASE Head(intents) = "START" -> StartLocationUpdates
       [] Head(intents) = "STOP" -> StopSharing
       [] OTHER -> OnDestroy
  /\ UNCHANGED <<dartVars, sink, calls, historyVars>>

\* onLocationResult.  Bound: MaxFixes locations on their way.
Fix ==
  /\ updating /\ sink
  /\ OnTheWay < MaxFixes
  /\ Emit("location")
  /\ UNCHANGED <<dartVars, mainVars, calls, historyVars>>

\* "Stop Sharing" in the notification, which is there while the service is.
\* Bound: its intent counts as those of the calls.
TapStop ==
  /\ updating /\ Waiting < MaxCalls
  /\ intents' = Append(intents, "STOP")
  /\ UNCHANGED <<dartVars, sink, updating, calls, events, historyVars>>

DeviceInit ==
  /\ sharing = FALSE /\ journey = FALSE /\ sub = FALSE /\ throttle = FALSE
  /\ kept = "none"
  /\ sink = FALSE /\ intents = <<>> /\ updating = FALSE
  /\ calls = <<>> /\ events = <<>>
  /\ wish = "silence" /\ misled = FALSE

\* A new controller, with nothing on its way from or to it.
NewEngine ==
  /\ sharing' = FALSE /\ journey' = FALSE /\ sub' = FALSE /\ throttle' = FALSE
  /\ kept' = "none"
  /\ sink' = FALSE /\ calls' = <<>> /\ events' = <<>>

\* Android ends the process; START_NOT_STICKY: nothing is restarted with it.
Killed ==
  /\ NewEngine
  /\ intents' = <<>> /\ updating' = FALSE
  /\ wish' = "silence" /\ misled' = FALSE

\* The activity is destroyed (back, or removed from the recent tasks) and its
\* engine with it; the service and its callback stay, for the manifest has no
\* stopWithTask and the service no onTaskRemoved.  The bridge keeps a sink to the
\* dead engine, which delivers nothing.  The activity comes back with a new engine.
EngineDies ==
  /\ NewEngine
  /\ wish' = IF wish \in {"start", "gone"} \/ Contains(calls, "stop") THEN "gone" ELSE "silence"
  /\ misled' = TRUE
  /\ UNCHANGED <<intents, updating>>

-----------------------------------------------------------------------------
(* Specification *)

DeviceStep == HandleEvent \/ HandleCall \/ HandleIntent

-----------------------------------------------------------------------------
(* Properties *)

MobileTypeOK ==
  /\ sharing \in BOOLEAN /\ journey \in BOOLEAN /\ sub \in BOOLEAN
  /\ throttle \in BOOLEAN /\ sink \in BOOLEAN /\ updating \in BOOLEAN
  /\ kept \in {"none", "stopped", "location"}
  /\ calls \in Seq({"start", "stop", "listen", "cancel"})
  /\ events \in Seq({"started", "refused", "ended", "stopped", "location"})
  /\ intents \in Seq({"START", "STOP", "DESTROY"})
  /\ wish \in {"start", "stop", "silence", "gone"}
  /\ misled \in BOOLEAN

\* Once every message is handled, a service that receives locations and that the
\* controller does not show as sharing takes the end of an engine or a "stopped"
\* kept from before: starts and stops that overtake each other, a revoked
\* permission and the notification alone leave no such service.
HiddenOnlyIfMisled == Quiet /\ updating => sharing \/ misled

\* A stop() that no start() follows ends the location updates, even if it is
\* called while the start() is still waiting for the platform; unless the engine
\* dies before it has passed the stop() on.
StopEndsUpdates ==
  wish \in {"stop", "silence"} ~> ~updating \/ wish \in {"start", "gone"}

=============================================================================
