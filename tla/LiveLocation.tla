----------------------------- MODULE LiveLocation -----------------------------
(***************************************************************************)
(* The way of a location from the visitor's device to the host's screen:   *)
(* uploads (location_service.py), the row of location_latest, the cleanup  *)
(* worker (cleanup_worker.py) and the overlapping refreshes of             *)
(* host_live_journey_screen.dart.  Whether an upload is authorized and the *)
(* visitor visible is decided in JourneySharing; here an upload may be     *)
(* refused at any time and the visitor stays ACTIVE.                       *)
(***************************************************************************)
EXTENDS MobileSharing

CONSTANT Uploads   \* uploads in flight

VARIABLES
  upload,        \* an upload: sent, denied for its session, left (sent by an engine
                 \* that has died), about to insert or update the row, or none
  row,           \* the visitor's row in location_latest: none, within the
                 \* retention time, or older
  answers,       \* refreshes in flight, by whether their answer has the row
  shown          \* the host's screen says when the location was updated

serverVars == <<upload, row, answers, shown>>
liveVars == <<mobileVars, serverVars>>

\* A step of the device alone.
OnDevice(A) == A /\ UNCHANGED serverVars

RowStates == {"none", "fresh", "old"}

Located == row # "none"

InFlight == {u \in Uploads : upload[u] # "none"}

\* The device loses its engine, or the whole process.  What it has sent goes on,
\* but nobody waits for the answer.
LosesEngine(A) ==
  /\ A
  /\ upload' = [u \in Uploads |-> CASE upload[u] = "sent" -> "left"
                                    [] upload[u] = "denied" -> "none"
                                    [] OTHER -> upload[u]]
  /\ UNCHANGED <<row, answers, shown>>

\* Bound: a location and its upload count together against MaxFixes.
TakeFix == OnDevice(Fix) /\ OnTheWay + Cardinality(InFlight) < MaxFixes

\* The timer's upload.  Bound: one upload in each of Uploads.
Send(u) ==
  /\ UploadTimer
  /\ journey /\ u \notin InFlight
  /\ upload' = [upload EXCEPT ![u] = "sent"]
  /\ UNCHANGED <<row, answers, shown>>

SendFails == OnDevice(UploadTimer /\ ~journey)

\* The interceptor has exchanged the refresh token and sends the upload again,
\* whatever the controller has done since.
Retry(u) ==
  /\ upload[u] = "denied"
  /\ upload' = [upload EXCEPT ![u] = "sent"]
  /\ UNCHANGED <<mobileVars, row, answers, shown>>

\* There is no refresh token, or it is not accepted.
GiveUp(u) ==
  /\ upload[u] = "denied"
  /\ upload' = [upload EXCEPT ![u] = "none"]
  /\ UNCHANGED <<mobileVars, row, answers, shown>>

-----------------------------------------------------------------------------
(* The server *)

Arriving == {u \in Uploads : upload[u] \in {"sent", "left"}}

\* The credential has expired: 401.
Deny(u) ==
  /\ u \in Arriving
  /\ upload' = [upload EXCEPT ![u] = IF @ = "sent" THEN "denied" ELSE "none"]
  /\ UNCHANGED <<mobileVars, row, answers, shown>>

\* The upload is lost, or rejected by the checks of ingest_location.
Refuse(u) ==
  /\ u \in Arriving
  /\ upload' = [upload EXCEPT ![u] = "none"]
  /\ UNCHANGED <<mobileVars, row, answers, shown>>

\* db.get(LocationLatest, participant.id)
FindRow(u) ==
  /\ u \in Arriving
  /\ upload' = [upload EXCEPT ![u] = IF row = "none" THEN "insert" ELSE "update"]
  /\ UNCHANGED <<mobileVars, row, answers, shown>>

\* Flush and commit.  An insert fails if another upload was first, an update
\* if the row was cleaned up since; the device ignores the error.
Store(u) ==
  /\ upload[u] \in {"insert", "update"}
  /\ row' = IF (upload[u] = "insert") = (row = "none") THEN "fresh" ELSE row
  /\ upload' = [upload EXCEPT ![u] = "none"]
  /\ UNCHANGED <<mobileVars, answers, shown>>

\* location_retention_hours have passed since received_at.
Age ==
  /\ row = "fresh"
  /\ row' = "old"
  /\ UNCHANGED <<mobileVars, upload, answers, shown>>

\* cleanup_location_data deletes by received_at.
BeyondRetention == row = "old"

\* A pass of the worker.
CleanUp ==
  /\ BeyondRetention
  /\ row' = "none"
  /\ UNCHANGED <<mobileVars, upload, answers, shown>>

-----------------------------------------------------------------------------
(* The host's screen *)

\* _refresh, by the periodic timer or the button, whether or not an earlier one
\* is in flight: GET /locations is answered.
Refresh ==
  /\ Located \notin answers
  /\ answers' = answers \cup {Located}
  /\ UNCHANGED <<mobileVars, upload, row, shown>>

\* Faulty variant of Show: an empty answer does not replace what is shown.
ShowLocated(located) ==
  /\ located \in answers
  /\ shown' = (shown \/ located)
  /\ answers' = answers \ {located}
  /\ UNCHANGED <<mobileVars, upload, row>>

\* setState, in the order in which the answers arrive.
Show(located) ==
  /\ located \in answers
  /\ shown' = located
  /\ answers' = answers \ {located}
  /\ UNCHANGED <<mobileVars, upload, row>>

\* The error is shown; the locations stay as they were.
RefreshFails(located) ==
  /\ located \in answers
  /\ answers' = answers \ {located}
  /\ UNCHANGED <<mobileVars, upload, row, shown>>

-----------------------------------------------------------------------------
(* Specification *)

LiveInit ==
  /\ DeviceInit
  /\ upload = [u \in Uploads |-> "none"]
  /\ row = "none"
  /\ answers = {}
  /\ shown = FALSE

ServeUpload(u) == Deny(u) \/ Refuse(u) \/ FindRow(u) \/ Store(u)

LiveNext ==
  \/ OnDevice(StartCall \/ StopCall \/ DeviceStep \/ TapStop)
  \/ LosesEngine(Killed \/ EngineDies)
  \/ TakeFix \/ SendFails
  \/ \E u \in Uploads : Send(u) \/ Retry(u) \/ GiveUp(u) \/ ServeUpload(u)
  \/ Age \/ CleanUp
  \/ Refresh \/ \E located \in BOOLEAN : Show(located) \/ RefreshFails(located)

\* Both threads of the device handle their messages and the server the uploads it
\* received; time passes, and the worker and the screen's timer run periodically.
\* A refresh may fail, but not every time.  Users, fixes and Android owe nothing.
LiveSpec ==
  /\ LiveInit /\ [][LiveNext]_liveVars
  /\ WF_liveVars(OnDevice(HandleEvent))
  /\ WF_liveVars(OnDevice(HandleCall))
  /\ WF_liveVars(OnDevice(HandleIntent))
  /\ \A u \in Uploads : WF_liveVars(ServeUpload(u))
  /\ WF_liveVars(Age) /\ WF_liveVars(CleanUp)
  /\ WF_liveVars(Refresh)
  /\ \A located \in BOOLEAN : SF_liveVars(Show(located))

-----------------------------------------------------------------------------
(* Properties *)

\* The device's and the server's state is of its type, and the bound holds for the
\* whole way of a location.
LiveTypeOK ==
  /\ MobileTypeOK
  /\ upload \in [Uploads -> {"none", "sent", "denied", "left", "insert", "update"}]
  /\ row \in RowStates
  /\ answers \subseteq BOOLEAN
  /\ shown \in BOOLEAN
  /\ OnTheWay + Cardinality(InFlight) <= MaxFixes

Leaves(u) == upload[u] # "sent" /\ upload'[u] = "sent"

\* Once stop() was called with no start() in flight, or the engine has died, no
\* upload leaves the device until the next start(), but for one that had left
\* before and was answered 401: not from the timer, nor from events and answers
\* that were already on their way.
OnlyRetriesAfterStop ==
  [][\A u \in Uploads : Leaves(u) /\ Silent => upload[u] = "denied"]_liveVars

\* If the visitor stops for good, the location disappears from the host's
\* screen for good, although uploads, retries and refreshes in flight may store and
\* show it again.
StopIsForgotten == <>[]Silent => <>[]~shown

=============================================================================
