# JourneyNG: TLA+ models, checks and proofs

JourneyNG lets a *host* create a journey and invite *visitors*, who share their
location with the host for as long as the journey lasts and they consent to it.
Its promise is about privacy: a location is accepted and shown only under an
active consent, and sharing ends when it should.  This directory models the parts
of the program that keep (or break) that promise, checks them with TLC and proves
some of the results with TLAPS.  Paths below are relative to the repository.

## 1. The system

### 1.1 Components

| component | code | state | operations | what makes it correct |
|---|---|---|---|---|
| Journey lifecycle | `backend/app/services/journey_service.py`, `state_machines.py` | `journeys.status` | create, start, complete, cancel, `maybe_complete_journey`, `_expire_if_needed` | moves only along the transition table; completes when the last visitor finishes |
| Participants and consent | `participant_service.py`, `consent_service.py`, `privacy_service.py` | `journey_participants.status`, `location_consents.status` | join, grant, revoke, start sharing, leave, arrive, remove, stop all | nobody shares without consent; an ended consent stays ended; a visitor who finished stays finished |
| Location ingestion and display | `location_service.py`, `api/v1/locations.py` | `location_latest`, a sequence and a copy in Redis | upload, list | a location is accepted or shown only under an active consent in an active journey; row and copy agree, and what was sent is what is stored |
| Account deletion | `api/v1/users.py` | `users.status` | `DELETE /me` | ends hosted journeys, own sharing and all sessions |
| Expiry worker | `workers/expiry_worker.py` | a transaction | a pass every 30 s | what is overdue is expired in the end, nothing earlier |
| Cleanup worker | `workers/cleanup_worker.py` | none | delete old locations | only by age |
| Auth sessions | `auth_service.py`, `api/v1/auth.py` | `refresh_tokens`, `users.status` | register, login, refresh, logout, revoke all | a refresh token is exchanged once; a void credential obtains nothing |
| Invitations | `invitation_service.py` | `journey_invitations`, guest sessions, participants | create, revoke, redeem as guest or with an account | a void link lets nobody in; the limits on uses and visitors |
| Mobile session | `mobile/lib/core/network/api_client.dart`, `core/storage/token_storage.dart`, `features/auth` | the stored token pair | calls, refresh on 401, sign in, sign out | every call ends; signed out means signed out |
| Mobile sharing | `location_sharing_controller.dart`; `MainActivity.kt`, `LocationEventBridge.kt`, `JourneyLocationService.kt` | the controller's fields, its event subscription and upload timer; the attached sink, the running service | start, stop, events, location updates, stop from the notification, end of the engine, death of the process | no service receives locations behind the visitor's back; nothing new is uploaded after a stop |
| Host's live screen | `host_live_journey_screen.dart` | the list on the screen | refresh by timer or button | what is gone disappears from the screen in the end |
| WebSocket channel | `websocket/handlers.py`, `manager.py` | the manager's channels, authorized sets, a connection of the pool for each socket | connect, snapshot, ping, disconnect, broadcast | a visitor is sent no location; a broadcast reaches who stays connected; what is closed is forgotten |
| Rate limiter | `security/rate_limit.py` | a sliding window in Redis, another in the process | `enforce_rate_limit` | at most N in a window; nobody is refused for nothing |
| The rest | schemas, errors, configuration, audit, devices, notifications, routing, screens, migrations | | | data, wording, layout |

### 1.2 How they interact

Everything the backend components share is in PostgreSQL.  An HTTP request has
**one database session** (`infrastructure/database.py`): it reads through
`authorization.py` and a service, and the session is committed when the handler
returns and rolled back when it raises.  The isolation level is the default,
READ COMMITTED; no query uses `FOR UPDATE`, no model has a version column, and
`autoflush` is off, so that an UPDATE reaches the database at the commit (or at an
explicit `flush`), **by primary key and whatever the row holds by then**.  Between any
two queries of a request another one may commit.  Every interesting race in the
backend is of this kind, and each backend module models a request as its reads, one
step each, followed by one commit.

Redis holds the rate limiter's windows, the sequence of each visitor's uploads and a copy of
the latest location.  It is optional: every call may fail, before or after it took effect,
and the request goes on without it.  A WebSocket's handler lives in the API process; it
opens one database session at its start and keeps it, and with it a connection of the
pool (10 and 10 more), until the socket closes.

The expiry worker is a second process on the same tables.  The mobile application
talks to the API over HTTP; its calls run concurrently and share one stored
session.  Services call each other inside a request (arrival and removal revoke the
consent; every visitor that finishes may complete the journey; deletion calls
`stop_all_sharing` and `revoke_all_sessions`).

### 1.3 What is hard here

* Races of requests on the same rows, with stale reads (all backend components).
* Look-ups that expect one row where two concurrent inserts leave two.
* Row locks held by a flush in the middle of a request (arrival, removal).
* A pass of the worker of which a later step fails, and with it the earlier ones.
* Restarts of the worker between its reads and its commit.
* Answers that are lost after the request was served, and retries (mobile).
* Counters and limits that are read, compared and written in separate steps.
* Two stores, one transactional and one not, written by the same request.
* Sockets that come and go across the awaits of a broadcast, and share a pool with the requests.
* Messages between the device's threads that are in flight when the visitor stops, and
  refreshes of the host's screen that are answered out of order.
* An engine that dies under a running service, and an upload that the HTTP client sends again.

`PROJECT.json` lists each hazard with its line and the properties that cover it, or why none does.

## 2. The modules

| module | models | composes with |
|---|---|---|
| `JourneySharing` | one journey under concurrent requests: statuses, visitors, consents, stored locations, deletion, worker | the core |
| `SharingHistory` | the core with a history variable | EXTENDS `JourneySharing` |
| `SharingContract` | the abstract specification: each operation at once, on current statuses | |
| `SerialSharing` | the refinement mapping from the core to the contract | EXTENDS `JourneySharing`, INSTANCE `SharingContract` |
| `JourneySharingProofs` | theorems about the core | EXTENDS `JourneySharing` |
| `SerialSharingProofs` | theorems about the core with one request at a time: the refinement | EXTENDS `SerialSharing`, `JourneySharingProofs` |
| `SharingHistoryProofs` | theorems about the core with its history | EXTENDS `SharingHistory` |
| `RateLimiter` | one scope and key of the limiter | |
| `LocationIngestion`, `MCLocationIngestion` | the uploads of one visitor: limiter, sequence, row, copy, retention | EXTENDS `RateLimiter`: an upload asks it first |
| `LocationIngestionProofs` | theorems about the limiter and the uploads, and that the uploads keep to the limiter | EXTENDS `LocationIngestion` |
| `ExpiryWorker`, `MCExpiryWorker` | passes of the worker over all journeys | instance with an early and a late journey |
| `LiveChannel`, `MCLiveChannel` | sockets, the manager, broadcasts, the pool | EXTENDS `ExpiryWorker`: the same journeys, consents and requests |
| `LiveChannelProofs` | theorems about the sockets and the worker | EXTENDS `LiveChannel` |
| `AuthSessions` | refresh tokens of one account, concurrent requests | |
| `MobileSession` | the application's calls, screens and stored session | EXTENDS `AuthSessions`: every request it sends is a request of that module |
| `SessionProofs` | theorems about both | EXTENDS `MobileSession` |
| `Invitations` | joining through one link | |
| `InvitationsProofs` | theorems about it | EXTENDS `Invitations` |
| `MobileSharing` | the controller, the channels and the foreground service of one device | |
| `LiveLocation` | a location's way from the device through the server to the host's screen | EXTENDS `MobileSharing`: its steps are steps of the device |
| `LiveLocationProofs` | theorems about it | EXTENDS `LiveLocation` |

Definitions named "Faulty variant of ..." are plausible bugs of the definition that
follows them.  No specification uses them: substituted for the original they must
break a property, which is how each property is shown to depend on the code.

### 2.1 `JourneySharing`

*State.*  `journey` is the status column; `pstatus[v]` the status of visitor `v`'s
participant row (`NONE`: no row); `consent[<<v, i>>]` the status of the `i`-th
consent row of `v`, rows being used in the order of insertion; `located` the
visitors with a stored location; `deleted` the deleted accounts; `clock` the
time, compared with `ExpiresAt` (the journey's `expires_at`, which every consent
takes over); `req[r]` the request in slot `r` with what it has read.

*Actions.*  A client request goes through `Begin` (authentication, SELECT of the
journey), `Load` (SELECT of the participants, and the handler's guards `Admits`),
for some operations `ReadConsents` (SELECT of the GRANTED rows, with the guards and
the `scalar_one_or_none` failures in `EndsAtConsent`) and the commit, one action
per operation: `Start`, `Cancel`, `Complete`, `Join`, `Grant`, `Revoke`, `StartSharing`,
`Leave`, `Arrive`, `Remove`, `Upload`, `StopAll`, `Delete`.  A rejected request frees its slot and
changes nothing else.  `BeginExpire` and `Expire` are the worker's pass on this journey.
`Locked` models the row lock of an arrival or removal that has flushed: another
commit on the same participant waits.  A slot keeps only what the rest of
the handler still looks at; this loses no behaviour and many states.

`SharingHistory` adds `seen[r]`, what was true at some moment since the request in slot `r`
was received: of an upload, that the journey, the visitor and a consent were active; of a
start, that the journey was INVITED.  It says what a stale read is still worth: `start_journey`
may reactivate a journey that was cancelled meanwhile, but only if it was sent while the
journey was INVITED.  Of a deletion, `seen[r]` has whether a grant of the visitor, or a start of the host,
was in flight beside it (`Overlaps`): such a request may leave an active consent or an open journey of a deleted
account, and `DeletionFinal` says that nothing else can.

*Not in it.*  Payloads of locations (see `LocationIngestion`); the decline endpoint (it reads a relationship
that is not loaded, raises and changes nothing); creation, which is the initial
state.  `_expire_if_needed` changes a status that is always rolled back; it is the
operator `Effective`.

### 2.2 `SharingContract` and `SerialSharing`

The contract says what a client that sees one request after another can rely on.  It has no
requests and no rows: a visitor either has an active consent or has none, and
a finishing visitor takes the journey along when it is the last.  `SerialSharing`
maps `granted` to the visitors with an active consent row (`Granted`), `accepted` to the
visitors with a stored location or an upload that has passed its last gate (`Accepted`), and
`lapsed` to the clock (`Lapsed`).  `SerialAssumption` says that there is one slot for requests;
the worker has its own.  Then the core implements the contract, whatever the
worker does between the steps of a request.  With two slots it does not,
which is what the findings are about; what remains true then is stated directly.

*Where code and documents differ.*  The contract does not take the code's side on which consents are left:

* Leaving: `docs/privacy.md:13` says "Revocation | Stop Sharing, Leave, Stop All Sharing — immediate,
  server-enforced".  `participant_service.leave_journey` writes the participant's status and no consent.
* The end of a journey: `docs/api.md:47` says of completing "Revokes all active sharing", `docs/privacy.md:23`
  "consent records become `REVOKED`/`EXPIRED`" after the journey's end.  `complete_journey`, `cancel_journey` and
  `maybe_complete_journey` write the journey's status only; the consents stay GRANTED until their own
  `expires_at`, when the worker may expire them.

`VisitorLeaves` allows the visitor's consent to stay or to end, and `Settle` allows all consents to stay or to
end when the journey does, so that `ContractHolds` neither refutes nor supports these sentences.  `JourneySharing` does
what the code does (`Leave`, `Cancel`, `Complete`, `CompleteIf` leave `consent` alone): in it the sentences are
false.  What keeps locations out in the meantime are the guards on the other two statuses, which
`AcceptedWhileAuthorized` is about.

### 2.3 `ExpiryWorker`

Several journeys, because one overdue journey affects the others.  A pass is
`ExpireJourneys`, `ExpireParticipants`, `ExpireConsents`, `Commit`, all in one transaction.
`ExpireParticipants` iterates `journey.participants`, which no query of the pass loads; the
models have no `AsyncAttrs`, so with an `AsyncSession` the access raises and the pass is
rolled back.  That happens whenever a journey was marked in the pass.
`Restart` is the process stopping in the middle of a pass.  The API's requests
are single steps here.

### 2.4 `AuthSessions` and `MobileSession`

`token[t]` is a row of `refresh_tokens`: not issued, LIVE or REVOKED; `lapsed` the
rows whose `expires_at` has passed.  A refresh reads the token, then its owner,
then commits the revocation of the one and the insertion of the other; on a revoked token it
reads the account's live tokens and revokes those in a commit of its own, before
it raises.  `late` is a history field: the request was sent when its credential
was already void.

`MobileSession` adds the stored pair, the calls in flight and the screens.  A call that is
denied reads the stored refresh token *at that moment*, posts it, and saves the
answer and is sent again, or clears the storage.  An answer may be lost although
the request was served.  An access token is identified with the pair it was issued
with; that an access token is denied once its time has come or the account is
deleted is judged when the 401 arrives (a denied token stays denied).

*A limit.*  The application signs in only while its storage is empty: the home screen offers it to who is
signed out.  A login screen left open and submitted later, with a session stored, is not modelled; a login
that is refused then would go through the interceptor's refresh like any other call.

A logout clears the storage while calls are still out.  A refresh that was in flight then
stores its new pair and brings the session back; `SignedOffUntilSignIn` says that this is
the only way.  A call that is denied later reads the empty storage and gives up.

### 2.5 `Invitations`

`participant[i]` says who the `i`-th participant row belongs to, `gone` which rows have
finished.  A join reads the invitation (`Redeem`, which also remembers `use_count`), then the
journey and its visitors (`CountVisitors` for a guest, `FindParticipant` for an account), and
commits the row together with the `use_count` it computed.

Two accepts of one account leave two rows, and every later look-up of one row fails
(`FindParticipant` lets nobody go on who has a row already, one or two).  Joins beyond `max_uses` are
reachable too: lost updates leave the count below the joins.

### 2.6 `MobileSharing` and `LiveLocation`

*State of the device.*  `sharing`, `journey`, `sub` and `throttle` are the controller's fields
(whether they are set); `sink` the bridge's; `updating` says that the service's callback
is registered.  The Dart thread and Android's main thread exchange messages through two
queues, `calls` and `events`, and `intents` holds what Android has yet to deliver to the service.
`kept` is Flutter's buffer of the event channel: the last event that found no listener, which the next
subscription is given.  Two fields are history.  `wish` says whether the last call was a `start`, a `stop`, or a
stop with no start in flight ("silence"), or that the engine died before a stop was passed on ("gone").
`misled` says that since the last start that succeeded the engine has died, or that this start was given a
"stopped" kept from before.

*Actions of the device.*  `StartCall` and `StopCall` are what the two methods do up to their
`await`; `HandleEvent` is the rest of them, and `_onEvent`.  No screen starts the controller
yet, so the calls come at any time and in any order.  `HandleCall` is the method channel with the
attachment of the sink; `HandleIntent` the service's `onStartCommand` and `onDestroy`.  That a
permission is missing, in the activity or in the service, is a choice at the moment it is
looked at.  An event without a subscription is kept (`Keep`), and `StartAnswered` delivers it after it has set
`_sharing`: a "stopped" from before a `stop()` makes the controller of the next start forget its service, while it
goes on uploading.  The interval that the controller
asks for after a location is a method the activity does not implement, whose error the controller
ignores, and `ACTION_SET_INTERVAL` has no sender: both are left out.

*Ends.*  `Killed` is the death of the process: with `START_NOT_STICKY` everything is as at the
start, while the server and the uploads it received go on.  `EngineDies` is the end of the activity alone (back, or a
swipe from the recent tasks): `MainActivity` is a plain `FlutterActivity`, so its engine goes with it; the manifest
gives the service no `stopWithTask`, and it has no `onTaskRemoved`, so it stays with its callback and its intents.
The next engine has a new controller, which shows nothing and has no subscription: a service that receives
locations behind its back, until a `start()` attaches a sink again or the notification stops it.
`HiddenOnlyIfMisled` says that this end and the kept event are the only ways to such a service.

*Server and host.*  An upload is sent when the timer fires, reads whether the row exists
(`FindRow`), and stores it by flush and commit (`Store`), or is refused, or lost.  `Deny` is a 401: the
interceptor of the HTTP client exchanges the refresh token and sends the same upload again (`Retry`), or has none
and gives up (`GiveUp`).  It knows nothing of the controller, so that the retry may come after a `stop()`;
`OnlyRetriesAfterStop` says that nothing else leaves the device then.  That the exchange itself may be
lost or race with others is in `MobileSession`.  When the engine dies, what it has sent goes on at the server
("left"), but a denied upload has nobody to repeat it (`LosesEngine`).  The flush
takes the row's lock until the commit follows; no step in between looks at it, so the two are
one step.  `Age` and `CleanUp` are the retention time passing and the cleanup worker's DELETE.
The screen refreshes every few seconds whether or not the last answer has come, and
shows the answers in the order they come.  Who may upload and whom the host sees is the
matter of `JourneySharing`; here a refusal is possible at any time and the visitor stays visible,
which is the worst case for what should disappear.

The sequence number and the copy in Redis are the matter of `LocationIngestion`.

### 2.7 `RateLimiter` and `LocationIngestion`

*The limiter.*  `window` is the sorted set of one scope and key, `bucket` the list that stands in
for it when Redis fails.  The clock is read (`Ask`) before the transaction (`Count`), so that
transactions arrive out of the order of their times: one with an old time drops less than
it could, and none drops what a later one still needs.  A call that is refused has been counted as
well.  `CountInMemory` covers a failure on either side of the transaction; such a call may be
counted in both places.  `LimiterDies` forgets the bucket.  Differences to the documents: the window slides;
`docs/security.md:22` and `docs/api.md:91` list WebSocket connects, invitation
creation and the general API among the limited operations, and no code limits them; `ARCHITECTURE.md:30` puts the
limit after the checks of an upload, the endpoint puts it first.

*An upload.*  `upload[u]` is how far it is, its position, its sequence number, and the row
it has read; `row` is the row of `location_latest`, `copy` the JSON value in Redis.  Both are
records of a position and of the upload whose times and number stand beside it.  The two are kept
apart for a reason: the UPDATE names only the columns that differ from what was read
(`Updated`).  Two uploads with the same position as the row, or one of them, can leave a row with the
position of the one and the times of the other.  Two overlapping uploads are otherwise ordered by
their flushes, and neither `recorded_at` nor the sequence is compared: the older one may win.
`Flush` waits for the row's lock and holds it until `Commit`; the copy is written in between
(`Copy`, `CopyFails`).  An INSERT that finds a row and an UPDATE that finds none fail, and with them the upload.
`DatabaseFails` is a statement or the commit that fails for another reason: the request is rolled back, the
copy that was already written stays.
`NumberFromRows` is the number when Redis fails: it looks at all rows of the journey
(`OthersMax` stands for the others), so that it may be far ahead of the visitor's counter, which the
next upload goes back to.

*Retention.*  `aged` is what has passed its retention: the row, which the cleanup worker deletes, and
the TTLs of the copy and the counter, which by default are a day like it.  `overlapped` and
`degraded` are history fields: which uploads met another one, and whether the last one met a fault.

### 2.8 `LiveChannel`

*State.*  `handler[k]` is how far the handler of a socket is: `known` (authenticated), `loaded`,
`scoped`, `registered`, `open` (snapshot sent), `over`; `channel` the connections registered with the manager;
`scope` those whose authorized set has the visitor (one visitor for each
journey); `broadcast` the recipients still to be sent to, with those of them that have stayed
registered as a history field.

*Actions.*  One for each await of `journey_socket`.  `End` is the `finally` clause, from wherever
the handler is.  `StartBroadcast` lists the recipients, `Deliver` and `DeliveryFails` serve them one
by one while sockets connect and end in between; nothing in the repository calls the broadcasts, so
anybody may, at any time.  `Request` is an API request, which needs a connection of the pool:
when every connection belongs to a socket the API stands still, the worker does not.

*Worth knowing.*  The scope is what the consent was at the time of the connection.  `authorized_connections`
sends the host's sockets every location whatever their scope is, so that a revoked consent stops
the uploads and not the channel; `docs/websocket.md` guarantees a filter before every broadcast.
The socket is registered before it is sent its snapshot, and a broadcast may overtake it.  Membership
ignores the status of the participant: one who has left may still connect.  With two GRANTED rows
the scope cannot be read and the host's socket is refused.

## 3. The runs

| run | question | result |
|---|---|---|
| `sharing_races` | two requests and the worker on the same rows | nobody shares without ever having consented; an accepted location had an active journey, visitor and consent while it was in flight, a start an INVITED journey; an ended consent is never revived; a deletion that no grant or start overlaps ends all sharing of the account for good; every request is answered |
| `sharing_serial` | one request at a time, and the worker | the core implements `SharingContract` (which leaves open which consents remain after a leave or the journey's end, see 2.2); a finished visitor stays finished and a visitor can always stop sharing, so what `sharing_finished` and `sharing_stop` find takes two requests; a deletion ends all sharing of the account |
| `sharing_shown` | is a location shown only under consent? | **violated**: a revoked consent leaves the visitor ACTIVE and visible |
| `sharing_finished` | does a finished visitor stay finished? | **violated**: a grant in flight makes a LEFT visitor ACTIVE |
| `sharing_stop` | can a visitor always stop sharing? | **violated**: after two concurrent grants every revocation fails |
| `live_channel` | the worker with a restart, requests, sockets and broadcasts on one pool | nothing is expired early; overdue consents are expired unless an open journey is overdue, although sockets may stop all requests; no dead connection stays registered; no broadcast passes anybody over; visitors are sent no location |
| `ingestion` | overlapping uploads, failures of Redis or the database, a restart, retention | the limit holds and nobody is refused for old calls; row and copy agree between uploads; an upload alone is stored as sent |
| `expiry_stuck` | is an overdue journey expired? | **violated**: every pass fails on it |
| `sessions` | two API calls, the auth screens, the token endpoints | a void credential obtains nothing; every call ends; signed off stays signed off until a sign-in or a refresh in flight |
| `sessions_family` | is a refresh token exchanged once? | **violated**: two concurrent exchanges both succeed |
| `invitations` | concurrent joins | the use count is never overstated; guests exceed the visitor limit, and an account its one row, by less than the requests in flight; a void link is refused |
| `live_location` | one device, its engine and its service, one upload at a time, the cleanup worker, overlapping refreshes | a service is hidden from the controller only after the end of an engine or an old event; after a stop nothing leaves but a denied upload that is sent again; a stop ends the updates; a visitor who has stopped disappears from the host's screen |

The five violations are findings: each contradicts a sentence of the repository's
documents or tests, quoted in `PROJECT.json`.

### 3.1 Bounds

* `Slots`: two requests in flight.  Each race above needs two; a third request
  can be served before or between them in a freed slot.  `sharing_races` has the worker as a
  third actor.
* `Visitors`: one where the race is between requests on the same visitor; two
  in `sharing_serial`, where completion depends on the other visitor (one is a guest,
  one has an account).
* `MaxRows = 2` consent rows: two grants can race, or one consent can be
  ended and another given.  `MaxTime = 2` with `ExpiresAt = 1`: before, at and after
  the expiry (the code compares with `<`, `<=` and `>` in different places, and the middle
  value tells them apart).
* A visitor joins the journey once (`WithinBounds`): what a second row of the same
  account does is in `Invitations`.
* `sharing_races` has one visitor and one time step, and leaves out what another operation does in the same way:
  cancelling and completing (the host's deletion cancels), leaving and removal (an arrival finishes the visitor, and
  takes the lock that a removal takes) and stop-all (a part of the deletion).  All of them are in
  `sharing_serial`; racing, they are covered by the theorems of section 4, which leave no operation out, but
  `RequestsAnswered` is checked for the operations of this run only.  `sharing_shown` has
  one slot and no time, because its counterexample needs neither.
* `live_channel`: two journeys that expire at different times, one restart, a socket of the host and
  one of a member on the later journey, and a pool that the two exhaust.
* `ingestion`: four uploads, two at a time, with `Limit = 2`, so that calls are refused, admitted
  again after the window, and overlap; one fault (a failing call of Redis or of the database, or a death of
  the process); two positions, so that an upload repeats or changes the one stored; uploads and positions
  are symmetric.
* `sessions`: three tokens, two calls.  `Spare` and `Unspent` keep a token for every request in
  flight, so that the bound never stops a request that was sent.
* `invitations`: six rows, `MaxUses = 3` and `MaxVisitors = 2`: both limits are reached
  and the visitor limit is exceeded.
* `live_location`: `MaxCalls = 2` counts calls, their answers and the intents they and the notification cause, so that a
  stop meets a start at each stage of its way, and the other way round.  `MaxFixes = 1`
  counts a location from the sensor to the end of its upload.  With one upload an update meets
  a row cleaned up since it was read; two insertions meeting is in the module but not in this
  run.  `answers` is a set: of two refreshes with the same answer one is enough, and one
  with either answer may overtake the other.

`CHECK_DEADLOCK FALSE` is said only where the bound or the deletion of every account
ends the behaviour.

### 3.2 Fairness

* `FairSpec` and `HistorySpec`: weak fairness of `Serve(r)`: the server goes on with a
  request it has received.  Clients, clock and worker owe nothing.  A request waiting
  for a row lock is not enabled, so that `RequestsAnswered` depends on the lock holder.
* `ExpirySpec` and `ChannelSpec`: weak fairness of the worker's steps (`main` loops for ever, and catches
  every exception of a pass) and of `Tick` (time passes).  Requests, sockets and broadcasts owe nothing.
* `IngestionSpec` and `LimiterSpec`: none, their properties are safety properties.
* `SessionSpec`: the server serves what it has received, and the application handles
  the answer to each call.  The user, the loss of answers and time owe nothing.
* `LiveSpec`: weak fairness of the device's three handlers, of the server on an upload, of the
  retention time, the cleanup worker and the screen's timer, all of which are loops or
  event loops.  Strong fairness of `Show`: a refresh may fail any number of times, but not for ever.
  The visitor, Android and the sensor owe nothing.

## 4. The proofs

`JourneySharingProofs` holds for **every** set of visitors, every number of requests in flight, of
consent rows and of time steps, under the named assumptions of `JourneySharing` on
its constants (the guests are visitors, host and worker are others, bounds
are natural numbers).

* `TypeCorrect`: `TypeOK`, with `ActorsOK` (a request acts for an actor that may issue it).
* `ConsentNeverRevivedHolds`: by cases on the actions; only `Grant` writes GRANTED,
  and it writes to a row that does not exist yet.
* `NoSharingWithoutConsentHolds`: the property is not inductive.  A participant
  becomes ACTIVE or a location is stored by the *commit* of a request whose consent gate
  ran in an *earlier* step.  `SharingInv` adds `ReadsImplyConsent`: a request that is past
  its gate (an upload or an arrival past the participant, a start of sharing past the consent)
  acts for a visitor that has consented at some time.  Consent rows are never deleted
  (`ConsentedStays`), so what a stale read found is still true at the commit.

`SerialSharingProofs` holds for every set of visitors, any consent rows and times, with one request
in flight (`SerialAssumption`) and the worker.

* `ContractHoldsSerially`: `Spec => ContractHolds`, the refinement.  A request decides on what it has read
  and writes steps later, so no step by itself is an operation of the contract: `SerialInv` says, phase by
  phase and operation by operation, that what a lone request has read is still true as far as the
  operation rests on it (`JourneyRead`, `StatusRead`, `RowsRead`, `AccountRead`).  It needs three facts about
  the store: a visitor that has only been accepted has no consent row yet (`ConsentsFollowJoin`, which is why
  starting to share never changes a status), no two rows of a visitor are active (`OneActive`, so that the look-up of
  one row raises only after the time has come), and rows that were read exist (`RowsMade`).  The worker does run in
  between; it writes rows only once the time has come (`WorkerReads`), when none is active.
  Each action then has a lemma that names the operation of the contract it performs (`HostImplements`,
  `VisitorStarts`, `VisitorFinishes`, `ConsentEnds`, `TimeLapses`) or shows that it performs none
  (`ReadsStutter`, `UploadStutters`, `WorkerStutters`).
* `DeletionEndsSharingHolds`: a conjunct of `SerialInv`.  It is kept because an account that is deleted has no request in
  flight, and a request of a deleted account does not begin.
* `FinishedVisitorStaysSerially`: from the contract, none of whose operations does it
  (`ContractKeepsFinished`), and from `EveryStepImplements`.  Under races it is false (`sharing_finished`).
* `StopSharingAcceptedSerially`: from `OneActive`.  Under races it is false (`sharing_stop`).

`InvitationsProofs` proves, for any numbers of users, slots, uses and visitors:

* `VoidLinkRefusedHolds`: a request sent when the link was void never gets past
  `Redeem` (`LateStopped`: the link stays void).
* `UsesNeverOverstatedHolds`: what a request remembers of `use_count` is at most the
  participants inserted and below `max_uses` (`UsesRead`), and rows are only inserted.
* `VisitorsNearLimitHolds`: at the moment a guest is let in by the count, the guests in the
  journey are fewer than the limit and the requests that are ready no more than the slots;
  afterwards an insertion moves one of them from ready to present, and nothing else
  increases the sum. `VisitorsNearLimit` counts both, which makes it inductive.

* `AccountRowsFromOverlapHolds`: a request becomes ready only while the account has no row, when
  no more requests can be ready than there are; from then on rows take the place of ready requests.

`SharingHistoryProofs`, for the core with its history:

* `AcceptedWhileAuthorizedHolds` and `StartedWhileInvitedHolds`: `ReadsSeen` says for each phase of a
  request which elements of `seen` its reads have put there; each gate adds one, and
  `seen` only grows while the request is in flight (`SeenGrows`).
* `DeletionFinalHolds`: `DeletionReads` says that the GRANTED rows and the open journey of the account are among
  what the deletion has read as long as it has seen no grant, or start; only the commit of one adds to them
  (`GrantedByGrant`, `OpenedByStart`).  Afterwards none begins (`InFlightFromBegin`), so that the account's sharing stays
  ended (`EndedStays`).

`LiveLocationProofs` proves, for any bounds and any number of uploads:

* `LiveTypeCorrect`: `LiveTypeOK`.  Its last conjunct says that a location is in one place on its way: the
  locations queued or due on the device and the uploads in flight are together at most `MaxFixes`.  `FlowInv` adds
  that the uploads in flight are finitely many.  `DeviceFlow` shows that no step of the device but `Fix` makes
  a location out of nothing (`HandledOnce`: one taken from the queue makes the timer due once), `WayOfOne` that `Fix`
  adds one and the timer takes one, which becomes the upload (`FlowBound`).  The lemmas count in
  queues: `HowManyAppend`, `HowManyTail`.

* `OnlyRetriesAfterStopHolds`: the timer that sends is pending only if an event was taken from a
  subscription or kept for it, and a subscription comes only from the answer to a start.  `SilentInv` says that
  in silence there is no subscription, no pending timer, no queued start and no queued
  answer to one; it has to speak of both queues, because a start travels through them.  The other step that makes
  an upload leave is `Retry`, of one that was denied.
* `HiddenOnlyIfMisledHolds`: the property speaks of the moment when everything is handled.  `ShownInv`
  says the same of any moment: if the service receives locations once its intents are handled (`Surviving`), the
  controller shows it or is misled once its events are (`ShownAfter`: a "started" comes with no end after it, or it
  is so now and no end comes).

`LocationIngestionProofs`, of the limiter, for any limit, window and set of calls:

* `AdmittedWithinLimitHolds`: the admitted calls that still count have their entries in the set
  (`AdmittedKept`), each once, and the set a call was admitted with had fewer than the limit.  It needs that
  times do not exceed the clock: a transaction with an older time drops nothing that counts now.
* `RefusedOnlyIfBusyHolds`: each entry belongs to a different call that was counted
  (`CountedOnce`, `CountedAt`), so that entries are no more than recent calls.

The same module, of the uploads, for any number that overlap and any faults:

* `IngestionLimited`: every step of an upload is a step of the limiter or leaves it alone; so the two
  theorems above hold for the endpoint (`UploadsLimited`).
* `IngestionTypeCorrect`: `IngestionTypeOK`.  The types of uploads, row, copy and counter are part of the invariant
  of the two theorems that follow (`StoreInv`), those of the limiter come over by `IngestionLimited`, and
  `TracksTypeOK` adds the faults and the history fields.
* `CopyMatchesRowHolds` and `SoleUploadStoredHolds`: one upload holds the lock (`OneHolder`), from its
  SET to its commit the copy is its own (`CopyIsHolders`), an upload still in flight is in no row
  (`NotYetStored`, so that its UPDATE always writes its times), and what an upload without
  company has read is what the row still has (`ReadStillTrue`).

`LiveChannelProofs`, for any journeys, sockets, times and pool:

* `ChannelKeepsWorker`: seen through the variables of `ExpiryWorker`, the sockets do nothing that module does not
  allow; they only keep requests from running.
* `ExpiresOnlyOverdueHolds`: what the worker has read or marked was overdue and is so still, because the
  clock does not go back and expiry times do not change (`ExpiryInv`).
* `NoGhostsHolds`, `MembersReachedHolds`, `LocationsToHostOnlyHolds`: `ChannelInv` adds that only handlers between `connect`
  and `finally` are registered and that the scope of a visitor's socket is empty.

`SessionProofs`, for any number of tokens, calls and requests:

* `SessionImplementsAuth`: the application's specification implies that of the token endpoints.
* `AuthTypeCorrect` and `NothingIssuedLateHolds`: a late request meets an account that stays deleted or
  a token that stays revoked at each of its reads (`LateStopped`), and nothing undoes either (`Lasting`).
* `SignedOffUntilSignInHolds`: by cases on the steps of the calls; with an empty storage a denied
  call has nothing to refresh with.

Only model-checked: the liveness properties `RequestsAnswered`, `OverdueConsentsExpire`, `CallsSettle`,
`StopEndsUpdates` and `StopIsForgotten`.  They rest on fairness, whose proofs reason about ENABLED, which the
installed provers do not.  Every other property of the passing runs is stated by a theorem above.

## 5. Plan

Done: the core with its history and its contract, the worker, the sockets, the limiter and the
uploads, the sessions of server and application, invitations, the device and the way of a location;
a theorem for every safety property of the passing runs.

Next, in this order:

1. The controller against `docs/android-location.md:44`, "The client never claims sharing is active
   unless the service is actually running": the model reaches states in which it does (a
   "stopped" event emitted before the sink is attached is lost).  Today's run checks the other direction,
   `HiddenOnlyIfMisled`.  Also reachable and not yet stated: a start called before a stop's answer
   has come leaves the controller sharing without a journey, so that every upload fails; and after a "stopped"
   kept from before, uploads go on while the controller shows no sharing.
2. The sentences of 2.2 on the consents after a leave and after the end of a journey as properties of
   `JourneySharing`, which violates them.
3. Joins beyond `max_uses`, reachable in `Invitations` by lost updates; today's property bounds the count and
   not the joins.
4. Two calls answered 401 that post the same refresh token: the second use revokes the session that the first
   has obtained.  Reachable in `MobileSession`; no document says what should happen.

## 6. What is not modelled, and why

* Passwords, signatures, token generation, schemas, wording, audit rows: data that no
  modelled decision reads, or libraries.
* Of a location: everything but a position and the upload it came from; speed, heading and accuracy are
  columns like the position.  The set of participants in Redis is written and
  swept but never read.
* Pings, and the content of the snapshot; its `locations` list the ACTIVE participants without
  looking at consents, and carry no position.
* Several API processes: the image starts one.
* Declining an invitation: the endpoint reads an unloaded relationship and fails.
* The guest token and the platform's storage across a restart of the application:
  `TokenStorage.load` has no caller.
* Screens other than the host's live screen, routing and notification adapters, migrations
  and deployment files.
