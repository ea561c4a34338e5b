-------------------------- MODULE LiveLocationProofs --------------------------
(***************************************************************************)
(* Proofs, for any bounds and whatever is queued between the threads: after *)
(* a stop() with no start() in flight the device only repeats uploads that *)
(* the server denied, and a service that receives locations is shown by the *)
(* controller unless its engine died or it was given an old event.         *)
(***************************************************************************)
EXTENDS LiveLocation, FiniteSetTheorems, TLAPS

Messages == {"start", "stop", "listen", "cancel"}

Events == {"started", "refused", "ended", "stopped", "location"}

\* What makes OnlyRetriesAfterStop inductive: in silence nothing is subscribed
\* or due, and nothing that could subscribe is on its way.
SilentInv == Silent => ~sub /\ ~throttle /\ ~Starting

DeviceInv == MobileTypeOK /\ SilentInv

LEMMA MessagesMembers == {"start", "stop", "listen", "cancel"} \subseteq Messages
  BY DEF Messages

LEMMA EventsMembers == {"started", "refused", "ended", "stopped", "location"} \subseteq Events
  BY DEF Events

-----------------------------------------------------------------------------
(* Queues *)

LEMMA AppendTyped ==
  ASSUME NEW S, NEW s \in Seq(S), NEW e \in S
  PROVE  Append(s, e) \in Seq(S)
  OBVIOUS

LEMMA EmptyTyped == ASSUME NEW S PROVE <<>> \in Seq(S)
  OBVIOUS

LEMMA ShortTyped ==
  ASSUME NEW S, NEW a \in S, NEW b \in S
  PROVE  <<a>> \in Seq(S) /\ <<a, b>> \in Seq(S)
  OBVIOUS

LEMMA ConcatTyped ==
  ASSUME NEW S, NEW s \in Seq(S), NEW t \in Seq(S), NEW u, u = s \o t
  PROVE  u \in Seq(S)
  OBVIOUS

LEMMA AppendContains ==
  ASSUME NEW S, NEW s \in Seq(S), NEW e \in S, NEW t, t = Append(s, e)
  PROVE  \A x : Contains(t, x) => x = e \/ Contains(s, x)
  BY DEF Contains

LEMMA TailContains ==
  ASSUME NEW S, NEW s \in Seq(S), s # <<>>, NEW x, Contains(Tail(s), x)
  PROVE  Contains(s, x)
  <1>1. PICK i \in 1 .. Len(Tail(s)) : Tail(s)[i] = x
    BY DEF Contains
  <1>2. i + 1 \in 1 .. Len(s) /\ s[i + 1] = x
    BY <1>1
  <1> QED BY <1>2 DEF Contains

LEMMA HeadContained ==
  ASSUME NEW S, NEW s \in Seq(S), s # <<>>
  PROVE  Contains(s, Head(s)) /\ Head(s) \in S /\ Tail(s) \in Seq(S)
  <1>1. 1 \in 1 .. Len(s) /\ s[1] = Head(s)
    OBVIOUS
  <1> QED BY <1>1 DEF Contains

LEMMA EmptyContains == ASSUME NEW x PROVE ~Contains(<<>>, x)
  BY DEF Contains

-----------------------------------------------------------------------------
(* One step of the device *)

LEMMA DeviceInitInv == ASSUME DeviceInit PROVE DeviceInv
  <1>1. MobileTypeOK
    BY EmptyTyped DEF DeviceInit, MobileTypeOK
  <1>2. ~Starting
    BY EmptyContains DEF DeviceInit, Starting
  <1> QED BY <1>1, <1>2 DEF DeviceInit, DeviceInv, SilentInv

LEMMA StartCallInv == ASSUME DeviceInv, StartCall PROVE DeviceInv'
  <1>1. calls' \in Seq(Messages)
    BY MessagesMembers, AppendTyped DEF DeviceInv, MobileTypeOK, StartCall, Messages
  <1> QED BY <1>1 DEF DeviceInv, MobileTypeOK, SilentInv, Silent, StartCall, mainVars, Messages

LEMMA StopCallInv == ASSUME DeviceInv, StopCall PROVE DeviceInv'
  <1>1. calls' \in Seq(Messages) /\ (~Contains(calls, "start") => ~Contains(calls', "start"))
    <2>1. calls \in Seq(Messages) /\ calls' \in {calls \o <<"cancel", "stop">>, calls \o <<"stop">>}
      BY DEF DeviceInv, MobileTypeOK, StopCall, Messages
    <2>2. PICK tail \in {<<"cancel", "stop">>, <<"stop">>} : calls' = calls \o tail
      BY <2>1
    <2>3. "cancel" \in Messages /\ "stop" \in Messages
      BY MessagesMembers
    <2>4. <<"cancel", "stop">> \in Seq(Messages) /\ <<"stop">> \in Seq(Messages)
      BY <2>3, ShortTyped
    <2>5. \A i \in 1 .. Len(tail) : tail[i] # "start"
      <3>1. CASE tail = <<"cancel", "stop">>
        BY <3>1
      <3>2. CASE tail = <<"stop">>
        BY <3>2
      <3> QED BY <3>1, <3>2
    <2>6. tail \in Seq(Messages)
      BY <2>4
    <2>7. \A x : Contains(calls', x) => Contains(calls, x) \/ \E i \in 1 .. Len(tail) : tail[i] = x
      BY <2>1, <2>2, <2>6 DEF Contains
    <2>8. calls' \in Seq(Messages)
      BY <2>1, <2>2, <2>6, ConcatTyped
    <2> QED BY <2>5, <2>7, <2>8
  <1>2. UNCHANGED <<sharing, journey, kept, sink, intents, updating, events, misled>>
        /\ sub' = FALSE /\ throttle' = FALSE
        /\ wish' = IF Starting THEN "stop" ELSE "silence"
    BY DEF StopCall, mainVars
  <1>3. MobileTypeOK'
    BY <1>1, <1>2 DEF DeviceInv, MobileTypeOK, Messages
  <1>4. ~Starting => ~Starting'
    BY <1>1, <1>2 DEF Starting
  <1> QED BY <1>2, <1>3, <1>4 DEF DeviceInv, SilentInv, Silent

LEMMA HandleEventInv == ASSUME DeviceInv, HandleEvent PROVE DeviceInv'
  <1> USE DEF DeviceInv, MobileTypeOK
  <1>1. events \in Seq(Events) /\ events # <<>> /\ events' = Tail(events)
    BY DEF HandleEvent, Events
  <1>2. Contains(events, Head(events)) /\ Head(events) \in Events /\ events' \in Seq(Events)
    BY <1>1, HeadContained
  <1>3. UNCHANGED <<sink, intents, updating, wish>>
    BY DEF HandleEvent, mainVars
  <1>4. \A x : Contains(events', x) => Contains(events, x)
    BY <1>1, TailContains
  <1>5. CASE Head(events) = "started"
    <2>1. StartAnswered
      BY <1>5 DEF HandleEvent
    <2>2. calls' \in Seq(Messages)
      <3>1. calls \in Seq(Messages) /\ calls' \in {calls \o <<"cancel", "listen">>, calls \o <<"listen">>}
        BY <2>1 DEF StartAnswered, Messages
      <3>2. <<"cancel", "listen">> \in Seq(Messages) /\ <<"listen">> \in Seq(Messages)
        <4>1. "cancel" \in Messages /\ "listen" \in Messages
          BY MessagesMembers
        <4> QED BY <4>1, ShortTyped
      <3>3. PICK tail \in Seq(Messages) : calls' = calls \o tail
        BY <3>1, <3>2
      <3> QED BY <3>1, <3>3, ConcatTyped
    <2>3. MobileTypeOK'
      BY <1>2, <1>3, <2>1, <2>2 DEF StartAnswered, Events, Messages
    <2>4. Starting
      BY <1>2, <1>5 DEF Starting
    <2> QED BY <1>3, <2>3, <2>4 DEF SilentInv, Silent
  <1>6. CASE Head(events) = "refused"
    <2>1. StartRefused
      BY <1>6 DEF HandleEvent
    <2>2. MobileTypeOK'
      BY <1>2, <1>3, <2>1 DEF StartRefused, dartVars, Events
    <2>3. Starting
      BY <1>2, <1>6 DEF Starting
    <2> QED BY <1>3, <2>2, <2>3 DEF SilentInv, Silent
  <1>7. CASE Head(events) = "ended"
    <2>1. StopAnswered
      BY <1>7 DEF HandleEvent
    <2>2. MobileTypeOK'
      BY <1>2, <1>3, <2>1 DEF StopAnswered, Events
    <2> QED BY <1>3, <1>4, <2>1, <2>2 DEF SilentInv, Silent, Starting, StopAnswered
  <1>8. CASE Head(events) \notin {"started", "refused", "ended"}
    <2>1. OnEvent(Head(events)) \/ Keep(Head(events))
      BY <1>8 DEF HandleEvent
    <2>2. Head(events) \in {"stopped", "location"}
      BY <1>2, <1>8 DEF Events
    <2>3. MobileTypeOK'
      BY <1>2, <1>3, <2>1, <2>2 DEF OnEvent, Keep, Events
    <2> QED BY <1>3, <1>4, <2>1, <2>3 DEF SilentInv, Silent, Starting, OnEvent, Keep
  <1> QED BY <1>5, <1>6, <1>7, <1>8

LEMMA UploadTimerInv == DeviceInv /\ UploadTimer => DeviceInv'
  BY DEF DeviceInv, MobileTypeOK, SilentInv, Silent, Starting, UploadTimer, mainVars, historyVars

LEMMA HandleCallInv == ASSUME DeviceInv, HandleCall PROVE DeviceInv'
  <1> USE DEF DeviceInv, MobileTypeOK
  <1>1. calls \in Seq(Messages) /\ calls # <<>> /\ calls' = Tail(calls)
    BY DEF HandleCall, Messages
  <1>2. Contains(calls, Head(calls)) /\ Head(calls) \in Messages /\ calls' \in Seq(Messages)
    BY <1>1, HeadContained
  <1>3. UNCHANGED <<sharing, journey, sub, throttle, kept, updating, wish, misled>>
    BY DEF HandleCall, dartVars, historyVars
  <1>4. \A x : Contains(calls', x) => Contains(calls, x)
    BY <1>1, TailContains
  <1>5. events \in Seq(Events)
    BY DEF Events
  <1>6. CASE Head(calls) = "start"
    <2>1. /\ events' \in {Append(events, "started"), Append(events, "refused")}
          /\ intents' \in {intents, Append(intents, "START")}
          /\ UNCHANGED sink
      BY <1>6 DEF HandleCall, Emit
    <2>2. events' \in Seq(Events) /\ intents' \in Seq({"START", "STOP", "DESTROY"})
      BY <1>5, <2>1, AppendTyped DEF Events
    <2>3. MobileTypeOK'
      BY <1>2, <1>3, <2>1, <2>2 DEF Messages, Events
    <2>4. Starting
      BY <1>2, <1>6 DEF Starting
    <2> QED BY <1>3, <2>3, <2>4 DEF SilentInv, Silent
  <1>7. CASE Head(calls) = "stop"
    <2>1. events' = Append(events, "ended") /\ intents' = Append(intents, "DESTROY") /\ UNCHANGED sink
      BY <1>7 DEF HandleCall, Emit
    <2>2. MobileTypeOK'
      <3>1. events' \in Seq(Events) /\ intents' \in Seq({"START", "STOP", "DESTROY"})
        BY <1>5, <2>1, AppendTyped DEF Events
      <3> QED BY <1>2, <1>3, <2>1, <3>1 DEF Messages, Events
    <2>3. \A x : Contains(events', x) => x = "ended" \/ Contains(events, x)
      <3>1. "ended" \in Events
        BY EventsMembers
      <3> QED BY <1>5, <2>1, <3>1, AppendContains
    <2> QED BY <1>3, <1>4, <2>2, <2>3 DEF SilentInv, Silent, Starting
  <1>8. CASE Head(calls) \notin {"start", "stop"}
    <2>1. sink' = (Head(calls) = "listen") /\ UNCHANGED <<events, intents>>
      BY <1>8 DEF HandleCall
    <2>2. MobileTypeOK'
      BY <1>2, <1>3, <2>1 DEF Messages
    <2> QED BY <1>3, <1>4, <2>1, <2>2 DEF SilentInv, Silent, Starting
  <1> QED BY <1>6, <1>7, <1>8

LEMMA HandleIntentInv == ASSUME DeviceInv, HandleIntent PROVE DeviceInv'
  <1> USE DEF DeviceInv, MobileTypeOK
  <1>1. UNCHANGED <<sharing, journey, sub, throttle, kept, sink, calls, wish, misled>>
    BY DEF HandleIntent, dartVars, historyVars
  <1>2. intents # <<>> /\ Tail(intents) \in Seq({"START", "STOP", "DESTROY"})
    BY DEF HandleIntent
  <1>3. StopSharing \/ StartLocationUpdates \/ OnDestroy
    BY DEF HandleIntent
  <1>4. /\ events' = events \/ events' = Append(events, "stopped")
        /\ intents' = Tail(intents) \/ intents' = Append(Tail(intents), "DESTROY")
        /\ updating' \in BOOLEAN
    BY <1>3 DEF StopSharing, StartLocationUpdates, OnDestroy, Emit
  <1>5. MobileTypeOK'
    <2>1. intents' \in Seq({"START", "STOP", "DESTROY"})
      BY <1>2, <1>4, AppendTyped
    <2>2. events \in Seq(Events) /\ events' \in Seq(Events)
      BY <1>4, AppendTyped DEF Events
    <2> QED BY <1>1, <1>4, <2>1, <2>2 DEF Events
  <1>6. \A x : Contains(events', x) => x = "stopped" \/ Contains(events, x)
    <2>1. events \in Seq(Events) /\ "stopped" \in Events
      BY EventsMembers DEF Events
    <2> QED BY <1>4, <2>1, AppendContains
  <1> QED BY <1>1, <1>5, <1>6 DEF SilentInv, Silent, Starting

LEMMA FixInv == ASSUME DeviceInv, Fix PROVE DeviceInv'
  <1> USE DEF DeviceInv, MobileTypeOK
  <1>1. events' = Append(events, "location") /\ UNCHANGED <<dartVars, mainVars, calls, historyVars>>
    BY DEF Fix, Emit
  <1>2. MobileTypeOK'
    <2>1. events' \in Seq(Events)
      BY <1>1, EventsMembers, AppendTyped DEF Events
    <2> QED BY <1>1, <2>1 DEF dartVars, mainVars, historyVars, Events
  <1>3. \A x : Contains(events', x) => x = "location" \/ Contains(events, x)
    <2>1. events \in Seq(Events) /\ "location" \in Events
      BY EventsMembers DEF Events
    <2> QED BY <1>1, <2>1, AppendContains
  <1> QED BY <1>1, <1>2, <1>3 DEF SilentInv, Silent, Starting, dartVars, historyVars

LEMMA TapStopInv == ASSUME DeviceInv, TapStop PROVE DeviceInv'
  <1>1. intents' \in Seq({"START", "STOP", "DESTROY"})
    BY AppendTyped DEF DeviceInv, MobileTypeOK, TapStop
  <1> QED BY <1>1 DEF DeviceInv, MobileTypeOK, SilentInv, Silent, Starting, TapStop, dartVars,
                      historyVars

LEMMA EngineLostInv == ASSUME DeviceInv, Killed \/ EngineDies PROVE DeviceInv'
  <1>1. NewEngine /\ intents' \in {<<>>, intents} /\ updating' \in {FALSE, updating}
        /\ wish' \in {"silence", "gone"} /\ misled' \in BOOLEAN
    BY DEF Killed, EngineDies
  <1>2. MobileTypeOK'
    BY <1>1, EmptyTyped DEF DeviceInv, MobileTypeOK, NewEngine
  <1>3. ~Starting'
    BY <1>1, EmptyContains DEF NewEngine, Starting
  <1> QED BY <1>1, <1>2, <1>3 DEF NewEngine, DeviceInv, SilentInv

-----------------------------------------------------------------------------
(* The theorem *)

LEMMA DeviceInvInductive == DeviceInv /\ [LiveNext]_liveVars => DeviceInv'
  <1> SUFFICES ASSUME DeviceInv, [LiveNext]_liveVars PROVE DeviceInv'
    OBVIOUS
  <1> DEFINE DeviceIdle == UNCHANGED mobileVars
  <1>1. CASE OnDevice(StartCall \/ StopCall \/ DeviceStep \/ TapStop) \/ LosesEngine(Killed \/ EngineDies)
    BY <1>1, StartCallInv, StopCallInv, HandleEventInv, HandleCallInv, HandleIntentInv,
       TapStopInv, EngineLostInv DEF OnDevice, LosesEngine, DeviceStep
  <1>2. CASE TakeFix
    BY <1>2, FixInv DEF TakeFix, OnDevice
  <1>3. CASE SendFails \/ \E u \in Uploads : Send(u)
    BY <1>3, UploadTimerInv DEF SendFails, Send, OnDevice
  <1>4. CASE DeviceIdle
    BY <1>4 DEF DeviceInv, MobileTypeOK, SilentInv, Silent, Starting, mobileVars, dartVars, mainVars,
                historyVars
  <1>5. CASE \/ \E u \in Uploads : Retry(u) \/ GiveUp(u) \/ ServeUpload(u)
             \/ Age \/ CleanUp
             \/ Refresh \/ \E located \in BOOLEAN : Show(located) \/ RefreshFails(located)
    BY <1>4, <1>5 DEF Retry, GiveUp, ServeUpload, Deny, Refuse, FindRow, Store, Age, CleanUp, Refresh,
                      Show, RefreshFails
  <1>6. CASE UNCHANGED liveVars
    BY <1>4, <1>6 DEF liveVars
  <1> QED BY <1>1, <1>2, <1>3, <1>5, <1>6 DEF LiveNext

UploadTypeOK == upload \in [Uploads -> {"none", "sent", "denied", "left", "insert", "update"}]

LEMMA UploadTypeInductive == UploadTypeOK /\ [LiveNext]_liveVars => UploadTypeOK'
  <1> SUFFICES ASSUME UploadTypeOK, [LiveNext]_liveVars PROVE UploadTypeOK'
    OBVIOUS
  <1>1. CASE \E u \in Uploads : Send(u) \/ Retry(u) \/ GiveUp(u) \/ ServeUpload(u)
    BY <1>1 DEF UploadTypeOK, Send, Retry, GiveUp, ServeUpload, Deny, Refuse, FindRow, Store
  <1>2. CASE LosesEngine(Killed \/ EngineDies)
    BY <1>2 DEF UploadTypeOK, LosesEngine
  <1>3. CASE upload' = upload
    BY <1>3 DEF UploadTypeOK
  <1> QED BY <1>1, <1>2, <1>3
          DEF LiveNext, OnDevice, serverVars, TakeFix, SendFails, Age, CleanUp, Refresh, Show,
              RefreshFails, liveVars

\* After a stop() that found no start() in flight, or after the end of the
\* engine, the timer sends nothing, for any number of calls, events, answers and
\* uploads on their way: what leaves the device was denied before.
THEOREM OnlyRetriesAfterStopHolds == LiveSpec => OnlyRetriesAfterStop
  <1>1. LiveInit => DeviceInv
    BY DeviceInitInv DEF LiveInit
  <1>2. LiveInit => UploadTypeOK
    BY DEF LiveInit, UploadTypeOK
  <1>3. DeviceInv /\ UploadTypeOK /\ [LiveNext]_liveVars
          => \A u \in Uploads : Leaves(u) /\ Silent => upload[u] = "denied"
    <2> SUFFICES ASSUME DeviceInv, UploadTypeOK, [LiveNext]_liveVars,
                        NEW u \in Uploads, Leaves(u), Silent
                 PROVE  upload[u] = "denied"
      OBVIOUS
    <2>1. CASE \E v \in Uploads : Send(v)
      BY <2>1 DEF DeviceInv, SilentInv, Send, UploadTimer
    <2>2. CASE \E v \in Uploads : Retry(v)
      BY <2>2 DEF Retry, Leaves, UploadTypeOK
    <2>3. CASE \E v \in Uploads : GiveUp(v) \/ ServeUpload(v)
      BY <2>3 DEF GiveUp, ServeUpload, Deny, Refuse, FindRow, Store, Leaves, UploadTypeOK
    <2>4. CASE LosesEngine(Killed \/ EngineDies)
      BY <2>4 DEF LosesEngine, Leaves
    <2>5. CASE upload' = upload
      BY <2>5 DEF Leaves
    <2> QED BY <2>1, <2>2, <2>3, <2>4, <2>5
            DEF LiveNext, OnDevice, serverVars, TakeFix, SendFails, Age, CleanUp, Refresh, Show,
                RefreshFails, liveVars
  <1>4. LiveSpec => [][DeviceInv]_liveVars
    BY <1>1, DeviceInvInductive, PTL DEF LiveSpec
  <1> QED BY <1>1, <1>2, <1>3, DeviceInvInductive, UploadTypeInductive, PTL
          DEF LiveSpec, OnlyRetriesAfterStop

-----------------------------------------------------------------------------
(* The service and what the controller shows *)

Endings == {"ended", "stopped"}

\* When the events s are handled, the controller will show sharing or be misled,
\* if b says that it is so before.
ShownAfter(s, b) ==
  \/ \E i \in 1 .. Len(s) : /\ s[i] = "started"
                            /\ \A k \in i + 1 .. Len(s) : s[k] \notin Endings
  \/ b /\ \A k \in 1 .. Len(s) : s[k] \notin Endings

\* The service may receive locations when its intents are handled: only a START
\* at their end lets it, every other intent stops it.
Surviving == IF intents = <<>> THEN updating ELSE intents[Len(intents)] = "START"

\* HiddenOnlyIfMisled before everything is handled.
ShownOrMisled == sharing \/ misled

ShownInv == Surviving => ShownAfter(events, ShownOrMisled)

SharingInv == DeviceInv /\ ShownInv

LEMMA ShownAppend ==
  ASSUME NEW s \in Seq(Events), NEW e \in Events, NEW t, t = Append(s, e), NEW b \in BOOLEAN
  PROVE  /\ e = "started" => ShownAfter(t, b)
         /\ e \notin Endings /\ ShownAfter(s, b) => ShownAfter(t, b)
  <1>1. /\ Len(t) = Len(s) + 1 /\ Len(s) \in Nat /\ t[Len(s) + 1] = e
        /\ \A k \in 1 .. Len(s) : t[k] = s[k]
    OBVIOUS
  <1>2. ASSUME e = "started" PROVE ShownAfter(t, b)
    BY <1>1, <1>2 DEF ShownAfter
  <1>3. ASSUME e \notin Endings, ShownAfter(s, b) PROVE ShownAfter(t, b)
    <2>1. CASE b /\ \A k \in 1 .. Len(s) : s[k] \notin Endings
      BY <1>1, <1>3, <2>1 DEF ShownAfter
    <2>2. ASSUME NEW i \in 1 .. Len(s), s[i] = "started",
                 \A k \in i + 1 .. Len(s) : s[k] \notin Endings
          PROVE  ShownAfter(t, b)
      <3>1. i \in 1 .. Len(t) /\ t[i] = "started"
        BY <1>1, <2>2
      <3>2. \A k \in i + 1 .. Len(t) : t[k] \notin Endings
        BY <1>1, <1>3, <2>2
      <3> QED BY <3>1, <3>2 DEF ShownAfter
    <2> QED BY <1>3, <2>1, <2>2 DEF ShownAfter
  <1> QED BY <1>2, <1>3

LEMMA ShownTail ==
  ASSUME NEW s \in Seq(Events), s # <<>>, NEW b \in BOOLEAN, NEW c \in BOOLEAN,
         Head(s) = "started" => c,
         Head(s) \notin Endings \cup {"started"} => c = b,
         ShownAfter(s, b)
  PROVE  ShownAfter(Tail(s), c)
  <1>1. /\ Len(s) \in Nat /\ Len(s) >= 1 /\ Len(Tail(s)) = Len(s) - 1 /\ s[1] = Head(s)
        /\ \A k \in 1 .. Len(s) - 1 : Tail(s)[k] = s[k + 1]
    OBVIOUS
  <1>2. CASE b /\ \A k \in 1 .. Len(s) : s[k] \notin Endings
    <2>1. c
      <3>1. Head(s) \notin Endings
        BY <1>1, <1>2
      <3>2. b
        BY <1>2
      <3>3. CASE Head(s) = "started"
        BY <3>3, Zenon
      <3>4. CASE Head(s) # "started"
        <4>1. c = b
          BY <3>1, <3>4, Zenon
        <4> QED BY <3>2, <4>1, Zenon
      <3> QED BY <3>3, <3>4
    <2>2. \A k \in 1 .. Len(Tail(s)) : Tail(s)[k] \notin Endings
      BY <1>1, <1>2
    <2> QED BY <2>1, <2>2 DEF ShownAfter
  <1>3. ASSUME NEW i \in 1 .. Len(s), s[i] = "started",
               \A k \in i + 1 .. Len(s) : s[k] \notin Endings
        PROVE  ShownAfter(Tail(s), c)
    <2>1. CASE i = 1
      <3>1. \A k \in 1 .. Len(Tail(s)) : Tail(s)[k] \notin Endings
        BY <1>1, <1>3, <2>1
      <3> QED BY <1>1, <1>3, <2>1, <3>1 DEF ShownAfter
    <2>2. CASE i > 1
      <3>1. i - 1 \in 1 .. Len(Tail(s)) /\ Tail(s)[i - 1] = "started"
        BY <1>1, <1>3, <2>2
      <3>2. \A k \in (i - 1) + 1 .. Len(Tail(s)) : Tail(s)[k] \notin Endings
        BY <1>1, <1>3, <2>2
      <3> QED BY <3>1, <3>2 DEF ShownAfter
    <2> QED BY <2>1, <2>2
  <1> QED BY <1>2, <1>3 DEF ShownAfter

\* After one more intent, or one less.
LEMMA SurvivingAfter ==
  ASSUME NEW S, NEW s \in Seq(S), NEW e \in S
  PROVE  /\ Append(s, e) # <<>> /\ Append(s, e)[Len(Append(s, e))] = e
         /\ s # <<>> /\ Tail(s) # <<>> => Tail(s)[Len(Tail(s))] = s[Len(s)]
         /\ s # <<>> /\ Tail(s) = <<>> => Head(s) = s[Len(s)]
  OBVIOUS

Intents == {"START", "STOP", "DESTROY"}

\* The steps that leave intents and service alone, or append what stops it.
LEMMA EventsOnly ==
  ASSUME ShownInv, UNCHANGED <<intents, updating>>,
         ShownAfter(events, ShownOrMisled) => ShownAfter(events, ShownOrMisled)'
  PROVE  ShownInv'
  BY DEF ShownInv, Surviving

LEMMA StopsService ==
  ASSUME NEW s \in Seq(Intents), NEW e \in {"STOP", "DESTROY"}, intents' = Append(s, e)
  PROVE  ShownInv'
  <1>1. e \in Intents /\ e # "START"
    BY DEF Intents
  <1>2. intents' # <<>> /\ intents'[Len(intents')] # "START"
    BY <1>1, SurvivingAfter
  <1> QED BY <1>2 DEF ShownInv, Surviving

LEMMA HandleEventShown == ASSUME SharingInv, HandleEvent PROVE ShownInv'
  <1>1. /\ events \in Seq(Events) /\ events # <<>> /\ events' = Tail(events)
        /\ UNCHANGED <<intents, updating>> /\ ShownOrMisled \in BOOLEAN /\ ShownInv
    BY DEF HandleEvent, mainVars, SharingInv, DeviceInv, MobileTypeOK, Events, ShownOrMisled
  <1>2. ShownOrMisled' \in BOOLEAN
    BY HandleEventInv DEF SharingInv, DeviceInv, MobileTypeOK, ShownOrMisled
  <1>3. Head(events) = "started" => ShownOrMisled'
    BY DEF HandleEvent, StartAnswered, ShownOrMisled
  <1>4. Head(events) \notin Endings \cup {"started"} => ShownOrMisled' = ShownOrMisled
    <2>1. Head(events) \in Events
      BY <1>1, HeadContained
    <2>2. CASE Head(events) = "refused"
      BY <2>2 DEF HandleEvent, StartRefused, dartVars, ShownOrMisled
    <2>3. CASE Head(events) = "location"
      BY <2>3 DEF HandleEvent, OnEvent, Keep, SharingInv, DeviceInv, MobileTypeOK, ShownOrMisled
    <2> QED BY <2>1, <2>2, <2>3 DEF Events, Endings
  <1>5. ShownAfter(events, ShownOrMisled) => ShownAfter(events, ShownOrMisled)'
    BY <1>1, <1>2, <1>3, <1>4, ShownTail
  <1> QED BY <1>1, <1>5, EventsOnly

LEMMA HandleCallShown == ASSUME SharingInv, HandleCall PROVE ShownInv'
  <1>1. /\ events \in Seq(Events) /\ intents \in Seq(Intents) /\ ShownOrMisled \in BOOLEAN
        /\ UNCHANGED <<ShownOrMisled, updating>> /\ ShownInv
    BY DEF HandleCall, dartVars, historyVars, SharingInv, DeviceInv, MobileTypeOK, Events, Intents,
           ShownOrMisled
  <1>2. CASE Head(calls) = "start"
    <2>1. CASE Emit("started")
      <3>1. "started" \in Events /\ events' = Append(events, "started")
        BY <2>1, EventsMembers DEF Emit
      <3>2. ShownAfter(events, ShownOrMisled)'
        BY <1>1, <3>1, ShownAppend
      <3> QED BY <3>2 DEF ShownInv
    <2>2. CASE Emit("refused") /\ UNCHANGED intents
      <3>1. "refused" \in Events /\ "refused" \notin Endings /\ events' = Append(events, "refused")
        BY <2>2, EventsMembers DEF Emit, Endings
      <3>2. ShownAfter(events, ShownOrMisled) => ShownAfter(events, ShownOrMisled)'
        BY <1>1, <3>1, ShownAppend
      <3> QED BY <1>1, <2>2, <3>2, EventsOnly
    <2> QED BY <1>2, <2>1, <2>2 DEF HandleCall
  <1>3. CASE Head(calls) = "stop"
    BY <1>1, <1>3, StopsService DEF HandleCall
  <1>4. CASE Head(calls) \notin {"start", "stop"}
    BY <1>1, <1>4, EventsOnly DEF HandleCall
  <1> QED BY <1>2, <1>3, <1>4

LEMMA HandleIntentShown == ASSUME SharingInv, HandleIntent PROVE ShownInv'
  <1>1. /\ intents \in Seq(Intents) /\ intents # <<>> /\ Tail(intents) \in Seq(Intents)
        /\ UNCHANGED ShownOrMisled /\ ShownInv
    BY DEF HandleIntent, dartVars, historyVars, SharingInv, DeviceInv, MobileTypeOK, Intents,
           ShownOrMisled
  <1>2. CASE StopSharing
    BY <1>1, <1>2, StopsService DEF StopSharing
  \* Otherwise the events stay, and what was last is last still.
  <1>3. ASSUME intents' = Tail(intents), UNCHANGED events,
               updating' => Head(intents) = "START"
        PROVE  ShownInv'
    <2>1. CASE Tail(intents) = <<>>
      <3>1. "START" \in Intents /\ Head(intents) = intents[Len(intents)]
        BY <1>1, <2>1, SurvivingAfter DEF Intents
      <3> QED BY <1>1, <1>3, <2>1, <3>1 DEF ShownInv, Surviving
    <2>2. CASE Tail(intents) # <<>>
      <3>1. "START" \in Intents /\ Tail(intents)[Len(Tail(intents))] = intents[Len(intents)]
        BY <1>1, <2>2, SurvivingAfter DEF Intents
      <3> QED BY <1>1, <1>3, <2>2, <3>1 DEF ShownInv, Surviving
    <2> QED BY <2>1, <2>2
  <1>4. CASE Head(intents) = "START"
    <2>1. StopSharing \/ (intents' = Tail(intents) /\ UNCHANGED events)
      BY <1>4 DEF HandleIntent, StartLocationUpdates
    <2> QED BY <1>2, <1>3, <1>4, <2>1
  <1>5. CASE Head(intents) = "STOP"
    BY <1>2, <1>5 DEF HandleIntent
  <1>6. CASE Head(intents) \notin {"START", "STOP"}
    BY <1>3, <1>6 DEF HandleIntent, OnDestroy
  <1> QED BY <1>4, <1>5, <1>6

LEMMA OtherShown ==
  ASSUME SharingInv, StartCall \/ StopCall \/ UploadTimer \/ Fix \/ TapStop \/ Killed \/ EngineDies
  PROVE  ShownInv'
  <1>1. /\ events \in Seq(Events) /\ intents \in Seq(Intents)
        /\ ShownOrMisled \in BOOLEAN /\ ShownInv
    BY DEF SharingInv, DeviceInv, MobileTypeOK, Events, Intents, ShownOrMisled
  <1>2. CASE StartCall \/ StopCall \/ UploadTimer
    BY <1>1, <1>2, EventsOnly
    DEF StartCall, StopCall, UploadTimer, mainVars, historyVars, ShownOrMisled
  <1>3. CASE Fix
    <2>1. "location" \in Events /\ "location" \notin Endings /\ events' = Append(events, "location")
      BY <1>3, EventsMembers DEF Fix, Emit, Endings
    <2>2. UNCHANGED <<intents, updating, ShownOrMisled>>
      BY <1>3 DEF Fix, dartVars, mainVars, historyVars, ShownOrMisled
    <2>3. ShownAfter(events, ShownOrMisled) => ShownAfter(events, ShownOrMisled)'
      BY <1>1, <2>1, <2>2, ShownAppend
    <2> QED BY <1>1, <2>2, <2>3, EventsOnly
  <1>4. CASE TapStop
    BY <1>1, <1>4, StopsService DEF TapStop
  <1>5. CASE Killed
    BY <1>5 DEF Killed, ShownInv, Surviving
  <1>6. CASE EngineDies
    BY <1>6 DEF EngineDies, NewEngine, ShownInv, ShownAfter, ShownOrMisled
  <1> QED BY <1>2, <1>3, <1>4, <1>5, <1>6

LEMMA ShownInvInductive == SharingInv /\ [LiveNext]_liveVars => ShownInv'
  <1> SUFFICES ASSUME SharingInv, [LiveNext]_liveVars PROVE ShownInv'
    OBVIOUS
  <1>1. CASE OnDevice(StartCall \/ StopCall \/ DeviceStep \/ TapStop) \/ LosesEngine(Killed \/ EngineDies)
    BY <1>1, HandleEventShown, HandleCallShown, HandleIntentShown, OtherShown
    DEF OnDevice, LosesEngine, DeviceStep
  <1>2. CASE TakeFix \/ SendFails \/ \E u \in Uploads : Send(u)
    BY <1>2, OtherShown DEF TakeFix, SendFails, Send, OnDevice
  <1>3. CASE UNCHANGED mobileVars
    BY <1>3 DEF SharingInv, ShownInv, ShownOrMisled, Surviving, mobileVars, dartVars, mainVars,
                historyVars
  <1>4. CASE \/ \E u \in Uploads : Retry(u) \/ GiveUp(u) \/ ServeUpload(u)
             \/ Age \/ CleanUp
             \/ Refresh \/ \E located \in BOOLEAN : Show(located) \/ RefreshFails(located)
    BY <1>3, <1>4 DEF Retry, GiveUp, ServeUpload, Deny, Refuse, FindRow, Store, Age, CleanUp, Refresh,
                      Show, RefreshFails
  <1>5. CASE UNCHANGED liveVars
    BY <1>3, <1>5 DEF liveVars
  <1> QED BY <1>1, <1>2, <1>4, <1>5 DEF LiveNext

\* When all messages of the device are handled, a foreground service that
\* receives locations is one that the controller shows, unless its engine died or
\* it was given a "stopped" from before: every other event that makes the
\* controller forget the service comes with an intent that stops it, queued behind
\* every START there is.
THEOREM HiddenOnlyIfMisledHolds == LiveSpec => []HiddenOnlyIfMisled
  <1>1. LiveInit => SharingInv
    BY DeviceInitInv DEF LiveInit, DeviceInit, SharingInv, ShownInv, Surviving
  <1>2. SharingInv /\ [LiveNext]_liveVars => SharingInv'
    BY DeviceInvInductive, ShownInvInductive DEF SharingInv
  <1>3. SharingInv => HiddenOnlyIfMisled
    <2>1. SUFFICES ASSUME ShownInv, Quiet, updating PROVE ShownOrMisled
      BY DEF SharingInv, HiddenOnlyIfMisled, ShownOrMisled
    <2>2. ShownAfter(events, ShownOrMisled) /\ events = <<>>
      BY <2>1 DEF ShownInv, Surviving, Quiet
    <2> QED BY <2>2 DEF ShownAfter
  <1> QED BY <1>1, <1>2, <1>3, PTL DEF LiveSpec

-----------------------------------------------------------------------------
(* Type correctness, and the bound on the way of a location *)

Places(s, messages) == {i \in 1 .. Len(s) : s[i] \in messages}

LEMMA PlacesFinite ==
  ASSUME NEW S, NEW s \in Seq(S), NEW messages
  PROVE  IsFiniteSet(Places(s, messages)) /\ HowMany(s, messages) \in Nat
  <1>1. Places(s, messages) \in SUBSET (1 .. Len(s)) /\ IsFiniteSet(1 .. Len(s))
    BY FS_Interval DEF Places
  <1>2. IsFiniteSet(Places(s, messages)) /\ Cardinality(Places(s, messages)) \in Nat
    BY <1>1, FS_Subset, FS_CardinalityType
  <1> QED BY <1>2 DEF Places, HowMany

\* One more message at the end, or one less at the head.
LEMMA HowManyAppend ==
  ASSUME NEW S, NEW s \in Seq(S), NEW e \in S, NEW messages
  PROVE  HowMany(Append(s, e), messages)
           = HowMany(s, messages) + (IF e \in messages THEN 1 ELSE 0)
  <1> DEFINE P == Places(s, messages)
             Q == Places(Append(s, e), messages)
  <1>1. /\ Len(s) \in Nat /\ Len(Append(s, e)) = Len(s) + 1
        /\ \A i \in 1 .. Len(s) : Append(s, e)[i] = s[i]
        /\ Append(s, e)[Len(s) + 1] = e
    OBVIOUS
  <1>2. IsFiniteSet(P) /\ Len(s) + 1 \notin P
    BY <1>1, PlacesFinite DEF Places
  <1>3. Q = IF e \in messages THEN P \cup {Len(s) + 1} ELSE P
    BY <1>1 DEF Places
  <1> HIDE DEF P, Q
  <1>4. Cardinality(Q) = Cardinality(P) + (IF e \in messages THEN 1 ELSE 0)
    <2>1. Cardinality(P) \in Nat
      BY <1>2, FS_CardinalityType
    <2>2. CASE e \in messages
      BY <1>2, <1>3, <2>2, FS_AddElement
    <2>3. CASE e \notin messages
      BY <1>3, <2>1, <2>3
    <2> QED BY <2>2, <2>3
  <1> QED BY <1>4 DEF P, Q, Places, HowMany

LEMMA HowManyTail ==
  ASSUME NEW S, NEW s \in Seq(S), s # <<>>, NEW messages
  PROVE  HowMany(Tail(s), messages)
           = HowMany(s, messages) - (IF Head(s) \in messages THEN 1 ELSE 0)
  <1> DEFINE P == Places(s, messages)
             Q == Places(Tail(s), messages)
             next == [i \in Q |-> i + 1]
  <1>1. /\ Len(s) \in Nat /\ Len(s) >= 1 /\ Len(Tail(s)) = Len(s) - 1 /\ s[1] = Head(s)
        /\ Tail(s) \in Seq(S)
        /\ \A i \in 1 .. Len(s) - 1 : Tail(s)[i] = s[i + 1]
    OBVIOUS
  <1>2. IsFiniteSet(P) /\ IsFiniteSet(Q) /\ Cardinality(P) \in Nat
    BY <1>1, PlacesFinite, FS_CardinalityType
  <1>3. next \in Surjection(Q, P \ {1}) /\ next \in Injection(Q, P \ {1})
    <2>1. \A i \in Q : i \in Nat /\ i + 1 \in P \ {1}
      BY <1>1 DEF Places
    <2>2. \A j \in P \ {1} : j - 1 \in Q /\ (j - 1) + 1 = j
      BY <1>1 DEF Places
    <2> HIDE DEF P, Q
    <2> QED BY <2>1, <2>2 DEF Surjection, Injection, IsInjective
  <1>4. Cardinality(P \ {1}) = Cardinality(Q)
    BY <1>2, <1>3, FS_Surjection
  <1>5. 1 \in P <=> Head(s) \in messages
    BY <1>1 DEF Places
  <1> HIDE DEF P, Q
  <1>6. Cardinality(P \ {1}) = IF 1 \in P THEN Cardinality(P) - 1 ELSE Cardinality(P)
    BY <1>2, FS_RemoveElement
  <1>7. Cardinality(Q) = Cardinality(P) - (IF Head(s) \in messages THEN 1 ELSE 0)
    <2>1. CASE 1 \in P
      BY <1>4, <1>5, <1>6, <2>1
    <2>2. CASE 1 \notin P
      <3>1. Cardinality(Q) = Cardinality(P) /\ Head(s) \notin messages
        BY <1>4, <1>5, <1>6, <2>2
      <3> QED BY <1>2, <3>1
    <2> QED BY <2>1, <2>2
  <1> QED BY <1>7 DEF P, Q, Places, HowMany

ServerTypeOK ==
  /\ UploadTypeOK
  /\ row \in RowStates
  /\ answers \subseteq BOOLEAN
  /\ shown \in BOOLEAN

Pending == HowMany(events, {"location"})

\* A location that an upload is due for, and one that Flutter keeps.
Held == (IF throttle THEN 1 ELSE 0) + (IF kept = "location" THEN 1 ELSE 0)

LEMMA SumsCompared ==
  ASSUME NEW a \in Nat, NEW b \in Nat, NEW c \in Nat, NEW d \in Nat,
         (c = a /\ d <= b) \/ (c = a - 1 /\ d <= b + 1)
  PROVE  c + d <= a + b
  OBVIOUS

LEMMA HeldType == Held \in Nat
  BY DEF Held

LEMMA HeldNextType == Held' \in Nat
  BY DEF Held

LEMMA WaySplit ==
  ASSUME NEW n \in Nat
  PROVE  n + (IF throttle THEN 1 ELSE 0) + (IF kept = "location" THEN 1 ELSE 0) = n + Held
  BY DEF Held

LEMMA WayNextSplit ==
  ASSUME NEW n \in Nat
  PROVE  n + (IF throttle' THEN 1 ELSE 0) + (IF kept' = "location" THEN 1 ELSE 0) = n + Held'
  BY DEF Held

\* The device passes a location on at most once: it is queued, then due.
LEMMA HandledOnce ==
  ASSUME DeviceInv, HandleEvent
  PROVE  OnTheWay' <= OnTheWay
  <1>1. /\ events \in Seq(Events) /\ events # <<>> /\ events' = Tail(events)
        /\ throttle \in BOOLEAN /\ journey \in BOOLEAN /\ events' \in Seq(Events)
    BY DEF HandleEvent, DeviceInv, MobileTypeOK, Events
  <1>2. Pending' = Pending - (IF Head(events) \in {"location"} THEN 1 ELSE 0)
    BY <1>1, HowManyTail DEF Pending
  <1>3. /\ Pending \in Nat /\ Held \in Nat /\ OnTheWay = Pending + Held
        /\ Pending' \in Nat /\ Held' \in Nat /\ OnTheWay' = Pending' + Held'
    <2>1. Pending \in Nat /\ Pending' \in Nat
      BY <1>1, PlacesFinite DEF Pending
    <2> QED BY <2>1, HeldType, HeldNextType, WaySplit, WayNextSplit DEF Pending, OnTheWay
  <1>4. CASE Head(events) = "location"
    <2>1. Pending' = Pending - 1
      BY <1>2, <1>4
    <2>2. Held' <= Held + 1
      BY <1>1, <1>4 DEF HandleEvent, OnEvent, Keep, Held
    <2> QED BY <1>3, <2>1, <2>2, SumsCompared
  <1>5. CASE Head(events) # "location"
    <2>1. Pending' = Pending
      BY <1>2, <1>3, <1>5
    <2>2. Held' <= Held
      <3>1. Head(events) \in Events
        BY <1>1, HeadContained
      <3>2. CASE Head(events) = "started"
        BY <1>1, <3>2 DEF HandleEvent, StartAnswered, Held
      <3>3. CASE Head(events) = "refused" \/ Head(events) = "ended"
        BY <3>3 DEF HandleEvent, StartRefused, StopAnswered, dartVars, Held
      <3>4. CASE Head(events) = "stopped"
        BY <1>1, <3>4 DEF HandleEvent, OnEvent, Keep, Held
      <3> QED BY <1>5, <3>1, <3>2, <3>3, <3>4 DEF Events
    <2> QED BY <1>3, <2>1, <2>2, SumsCompared
  <1> QED BY <1>4, <1>5

\* A message that is no location adds nothing.
LEMMA OthersEmitted ==
  ASSUME DeviceInv, NEW e \in Events \ {"location"},
         events' = events \/ events' = Append(events, e), Held' <= Held
  PROVE  OnTheWay' <= OnTheWay
  <1>1. events \in Seq(Events) /\ Pending \in Nat
    BY PlacesFinite DEF DeviceInv, MobileTypeOK, Events, Pending
  <1>2. Pending' = Pending
    <2>1. CASE events' = events
      BY <2>1 DEF Pending
    <2>2. CASE events' = Append(events, e)
      <3>1. Pending' = Pending + (IF e \in {"location"} THEN 1 ELSE 0)
        BY <1>1, <2>2, HowManyAppend DEF Pending
      <3> QED BY <1>1, <3>1
    <2> QED BY <2>1, <2>2
  <1>3. OnTheWay = Pending + Held /\ OnTheWay' = Pending' + Held'
    BY <1>1, <1>2, WaySplit, WayNextSplit DEF OnTheWay, Pending
  <1> QED BY <1>1, <1>2, <1>3, HeldType, HeldNextType, SumsCompared

LEMMA DeviceFlow ==
  ASSUME DeviceInv, StartCall \/ StopCall \/ DeviceStep \/ TapStop \/ Killed \/ EngineDies
  PROVE  OnTheWay' <= OnTheWay
  <1>1. "ended" \in Events \ {"location"}
    BY DEF Events
  <1>2. CASE StartCall \/ StopCall \/ TapStop
    <2>1. events' = events /\ Held' <= Held
      BY <1>2 DEF StartCall, StopCall, TapStop, dartVars, Held
    <2> QED BY <1>1, <2>1, OthersEmitted
  <1>3. CASE HandleEvent
    BY <1>3, HandledOnce
  <1>4. CASE HandleCall
    <2>1. PICK e \in {"started", "refused", "ended"} : events' = events \/ events' = Append(events, e)
      BY <1>4 DEF HandleCall, Emit
    <2>2. e \in Events \ {"location"} /\ Held' <= Held
      BY <1>4 DEF HandleCall, dartVars, Events, Held
    <2> QED BY <2>1, <2>2, OthersEmitted
  <1>5. CASE HandleIntent
    <2>1. events' = events \/ events' = Append(events, "stopped")
      BY <1>5 DEF HandleIntent, StopSharing, StartLocationUpdates, OnDestroy, Emit
    <2>2. "stopped" \in Events \ {"location"} /\ Held' <= Held
      BY <1>5 DEF HandleIntent, dartVars, Events, Held
    <2> QED BY <2>1, <2>2, OthersEmitted
  <1>6. CASE Killed \/ EngineDies
    <2>1. events' = <<>> /\ throttle' = FALSE /\ kept' = "none"
      BY <1>6 DEF Killed, EngineDies, NewEngine
    <2>2. Places(<<>>, {"location"}) = {}
      BY DEF Places
    <2>3. HowMany(<<>>, {"location"}) = 0
      BY <2>2, FS_EmptySet DEF Places, HowMany
    <2>4. OnTheWay' = 0
      BY <2>1, <2>3 DEF OnTheWay
    <2>5. events \in Seq(Events)
      BY DEF DeviceInv, MobileTypeOK, Events
    <2>6. HowMany(events, {"location"}) \in Nat
      BY <2>5, PlacesFinite
    <2> QED BY <2>4, <2>6 DEF OnTheWay
  <1> QED BY <1>2, <1>3, <1>4, <1>5, <1>6 DEF DeviceStep

\* A location that is received is one more, an upload that is due is one less.
LEMMA WayOfOne ==
  ASSUME DeviceInv
  PROVE  /\ OnTheWay \in Nat
         /\ Fix => OnTheWay' = OnTheWay + 1
         /\ UploadTimer => OnTheWay' = OnTheWay - 1
  <1>1. events \in Seq(Events) /\ Pending \in Nat /\ "location" \in Events
    BY PlacesFinite DEF DeviceInv, MobileTypeOK, Events, Pending
  <1>2. OnTheWay \in Nat
    BY <1>1 DEF OnTheWay, Pending
  <1>3. ASSUME Fix PROVE OnTheWay' = OnTheWay + 1
    <2>1. events' = Append(events, "location") /\ throttle' = throttle /\ kept' = kept
      BY <1>3 DEF Fix, Emit, dartVars
    <2>2. Pending' = Pending + (IF "location" \in {"location"} THEN 1 ELSE 0)
      BY <1>1, <2>1, HowManyAppend DEF Pending
    <2>3. Pending' = Pending + 1
      BY <2>2
    <2> QED BY <1>1, <2>1, <2>3 DEF OnTheWay, Pending
  <1>4. ASSUME UploadTimer PROVE OnTheWay' = OnTheWay - 1
    BY <1>1, <1>4 DEF UploadTimer, OnTheWay, Pending
  <1> QED BY <1>2, <1>3, <1>4

-----------------------------------------------------------------------------

FlowInv ==
  /\ ServerTypeOK
  /\ IsFiniteSet(InFlight)
  /\ OnTheWay + Cardinality(InFlight) <= MaxFixes

\* The uploads in flight after a step that starts one, ends one or neither.
LEMMA FlowBound ==
  ASSUME DeviceInv, DeviceInv', FlowInv, ServerTypeOK',
         \/ InFlight' \subseteq InFlight /\ OnTheWay' <= OnTheWay
         \/ InFlight' = InFlight /\ OnTheWay' = OnTheWay + 1
              /\ OnTheWay + Cardinality(InFlight) < MaxFixes
         \/ \E u : InFlight' = InFlight \cup {u} /\ OnTheWay' = OnTheWay - 1
  PROVE  FlowInv'
  <1>1. /\ IsFiniteSet(InFlight) /\ Cardinality(InFlight) \in Nat /\ MaxFixes \in Nat
        /\ OnTheWay \in Nat /\ OnTheWay' \in Nat
        /\ OnTheWay + Cardinality(InFlight) <= MaxFixes
    <2>1. OnTheWay \in Nat
      BY WayOfOne
    <2>2. OnTheWay' \in Nat
      <3>1. events' \in Seq(Events)
        BY DEF DeviceInv, MobileTypeOK, Events
      <3>2. HowMany(events', {"location"}) \in Nat
        BY <3>1, PlacesFinite
      <3> QED BY <3>2 DEF OnTheWay
    <2> QED BY <2>1, <2>2, FS_CardinalityType, BoundsAssumption DEF FlowInv
  <1>2. CASE InFlight' \subseteq InFlight /\ OnTheWay' <= OnTheWay
    <2>1. /\ IsFiniteSet(InFlight') /\ Cardinality(InFlight') <= Cardinality(InFlight)
          /\ Cardinality(InFlight') \in Nat
      BY <1>1, <1>2, FS_Subset, FS_CardinalityType
    <2>2. OnTheWay' + Cardinality(InFlight') <= MaxFixes
      BY <1>1, <1>2, <2>1
    <2> QED BY <2>1, <2>2 DEF FlowInv
  <1>3. CASE InFlight' = InFlight /\ OnTheWay' = OnTheWay + 1
              /\ OnTheWay + Cardinality(InFlight) < MaxFixes
    <2>1. OnTheWay' + Cardinality(InFlight') <= MaxFixes
      BY <1>1, <1>3
    <2> QED BY <1>1, <1>3, <2>1 DEF FlowInv
  <1>4. ASSUME NEW u, InFlight' = InFlight \cup {u}, OnTheWay' = OnTheWay - 1
        PROVE  FlowInv'
    <2>1. /\ IsFiniteSet(InFlight')
          /\ Cardinality(InFlight') = IF u \in InFlight THEN Cardinality(InFlight)
                                      ELSE Cardinality(InFlight) + 1
      BY <1>1, <1>4, FS_AddElement
    <2>2. OnTheWay' + Cardinality(InFlight') <= MaxFixes
      BY <1>1, <1>4, <2>1
    <2> QED BY <2>1, <2>2 DEF FlowInv
  <1> QED BY <1>2, <1>3, <1>4

LEMMA FlowInvInductive ==
  ASSUME DeviceInv, DeviceInv', FlowInv, [LiveNext]_liveVars
  PROVE  FlowInv'
  <1>1. ServerTypeOK'
    <2>1. UploadTypeOK'
      BY UploadTypeInductive DEF FlowInv, ServerTypeOK
    <2>2. row' \in RowStates /\ answers' \subseteq BOOLEAN /\ shown' \in BOOLEAN
      <3>1. CASE UNCHANGED <<row, answers, shown>>
        BY <3>1 DEF FlowInv, ServerTypeOK
      <3>2. CASE \/ \E u \in Uploads : Store(u)
                 \/ Age \/ CleanUp
                 \/ Refresh \/ \E located \in BOOLEAN : Show(located) \/ RefreshFails(located)
        BY <3>2 DEF FlowInv, ServerTypeOK, RowStates, Located, Store, Age, CleanUp, Refresh, Show,
                    RefreshFails
      <3> QED BY <3>1, <3>2
              DEF LiveNext, liveVars, serverVars, OnDevice, LosesEngine, TakeFix, SendFails, Send,
                  Retry, GiveUp, ServeUpload, Deny, Refuse, FindRow
    <2> QED BY <2>1, <2>2 DEF ServerTypeOK
  <1>2. CASE OnDevice(StartCall \/ StopCall \/ DeviceStep \/ TapStop) \/ LosesEngine(Killed \/ EngineDies)
    <2>1. OnTheWay' <= OnTheWay
      BY <1>2, DeviceFlow DEF OnDevice, LosesEngine
    <2>2. InFlight' \subseteq InFlight
      BY <1>2 DEF OnDevice, LosesEngine, serverVars, InFlight
    <2> QED BY <1>1, <2>1, <2>2, FlowBound
  <1>3. CASE TakeFix
    <2>1. /\ OnTheWay' = OnTheWay + 1 /\ InFlight' = InFlight
          /\ OnTheWay + Cardinality(InFlight) < MaxFixes
      BY <1>3, WayOfOne DEF TakeFix, OnDevice, serverVars, InFlight
    <2> QED BY <1>1, <2>1, FlowBound
  <1>4. CASE SendFails
    <2>1. OnTheWay' = OnTheWay - 1 /\ InFlight' = InFlight /\ OnTheWay \in Nat
      BY <1>4, WayOfOne DEF SendFails, OnDevice, serverVars, InFlight
    <2>2. OnTheWay' <= OnTheWay
      BY <2>1
    <2> QED BY <1>1, <2>1, <2>2, FlowBound
  <1>5. ASSUME NEW u \in Uploads, Send(u) PROVE FlowInv'
    <2>1. OnTheWay' = OnTheWay - 1 /\ InFlight' = InFlight \cup {u}
      BY <1>5, WayOfOne DEF Send, InFlight, FlowInv, ServerTypeOK, UploadTypeOK
    <2> QED BY <1>1, <2>1, FlowBound
  <1>6. ASSUME UNCHANGED mobileVars, InFlight' \subseteq InFlight PROVE FlowInv'
    <2>1. OnTheWay' = OnTheWay /\ OnTheWay \in Nat
      BY <1>6, WayOfOne DEF OnTheWay, mobileVars, dartVars
    <2>2. OnTheWay' <= OnTheWay
      BY <2>1
    <2> QED BY <1>1, <1>6, <2>2, FlowBound
  <1>7. ASSUME NEW u \in Uploads, Retry(u) \/ GiveUp(u) \/ ServeUpload(u) PROVE FlowInv'
    <2>1. UNCHANGED mobileVars /\ InFlight' \subseteq InFlight
      BY <1>7 DEF Retry, GiveUp, ServeUpload, Deny, Refuse, FindRow, Store, Arriving, InFlight,
                  FlowInv, ServerTypeOK, UploadTypeOK
    <2> QED BY <1>6, <2>1
  <1>8. CASE \/ Age \/ CleanUp \/ Refresh
             \/ \E located \in BOOLEAN : Show(located) \/ RefreshFails(located)
             \/ UNCHANGED liveVars
    <2>1. UNCHANGED mobileVars /\ InFlight' = InFlight
      BY <1>8 DEF Age, CleanUp, Refresh, Show, RefreshFails, liveVars, serverVars, InFlight
    <2> QED BY <1>6, <2>1
  <1> QED BY <1>2, <1>3, <1>4, <1>5, <1>7, <1>8 DEF LiveNext

\* Device and server stay within their types, and the locations between the
\* service and the server within their bound, whatever the queues hold.
THEOREM LiveTypeCorrect == LiveSpec => []LiveTypeOK
  <1>1. LiveInit => DeviceInv /\ FlowInv
    <2>1. ASSUME LiveInit PROVE FlowInv
      <3>1. InFlight = {} /\ events = <<>> /\ throttle = FALSE /\ kept = "none"
        BY <2>1 DEF LiveInit, DeviceInit, InFlight
      <3>2. Places(<<>>, {"location"}) = {}
        BY DEF Places
      <3>3. OnTheWay = 0
        BY <3>1, <3>2, FS_EmptySet DEF OnTheWay, Places, HowMany
      <3>4. IsFiniteSet(InFlight) /\ OnTheWay + Cardinality(InFlight) <= MaxFixes
        BY <3>1, <3>3, FS_EmptySet, BoundsAssumption
      <3> QED BY <2>1, <3>4 DEF LiveInit, FlowInv, ServerTypeOK, UploadTypeOK, RowStates
    <2> QED BY <2>1, DeviceInitInv DEF LiveInit
  <1>2. DeviceInv /\ DeviceInv' /\ FlowInv /\ [LiveNext]_liveVars => FlowInv'
    BY FlowInvInductive
  <1>3. DeviceInv /\ FlowInv => LiveTypeOK
    BY DEF DeviceInv, FlowInv, ServerTypeOK, UploadTypeOK, LiveTypeOK
  <1> QED BY <1>1, <1>2, <1>3, DeviceInvInductive, PTL DEF LiveSpec

=============================================================================
