--------------------------- MODULE SharingHistory ---------------------------
(***************************************************************************)
(* JourneySharing with a history variable: what each request could have    *)
(* observed since it was received.  It states what a client is promised    *)
(* about a location upload, the start of a journey and the deletion of an  *)
(* account although the reads of a request are spread over time and other  *)
(* requests commit in between.                                             *)
(***************************************************************************)
EXTENDS JourneySharing

VARIABLE seen   \* what was true at some moment since the request began

historyVars == <<vars, seen>>

UploadNeeds == {"journey", "participant", "consent"}

\* What speaks for the request q in the current state.
Authorized(q) ==
  {a \in UploadNeeds \cup {"invited"} :
     \/ a = "journey" /\ q.op = "Upload" /\ journey = "ACTIVE"
     \/ a = "participant" /\ q.op = "Upload" /\ q.who \in Visitors /\ pstatus[q.who] = "ACTIVE"
     \/ a = "consent" /\ q.op = "Upload" /\ q.who \in Visitors /\ HasActiveConsent(q.who)
     \/ a = "invited" /\ q.op = "Start" /\ journey = "INVITED"}

\* What is in flight beside the deletion q of an account and can renew its sharing.
Overlaps(q) ==
  {a \in {"grant", "start"} :
     /\ q.op = "Delete"
     /\ \/ a = "grant" /\ InFlight("Grant", q.who) # {}
        \/ a = "start" /\ q.who = Host /\ InFlight("Start", Host) # {}}

HistoryInit == Init /\ seen = [r \in Slots |-> {}]

HistoryNext ==
  /\ Next
  /\ seen' = [r \in Slots |-> IF req'[r].phase = "idle" THEN {}
                              ELSE seen[r] \cup (Authorized(req[r]) \cup Overlaps(req[r]))']

HistorySpec ==
  HistoryInit /\ [][HistoryNext]_historyVars /\ \A r \in Slots : WF_vars(Serve(r))

\* A location is accepted only if, while the request was in flight, the journey
\* was active, the visitor was active and a consent of the visitor was active
\* (not necessarily at one moment): an upload sent after the journey ended, the
\* visitor left or the last consent ended, and before any of it is renewed, is
\* refused whatever it races with.
AcceptedWhileAuthorized ==
  [][\A r \in Slots : Upload(r) => UploadNeeds \subseteq seen[r]]_historyVars

\* A journey that has ended is made active again at most by a start that was
\* already in flight while the journey was still INVITED (start_journey writes
\* by primary key what it decided on an earlier read): a start sent after the
\* journey was started or has ended is refused whatever it races with.
StartedWhileInvited ==
  [][\A r \in Slots : Start(r) => "invited" \in seen[r]]_historyVars

\* Nothing of the account is shared and nothing in flight can change that.
Ended(a) ==
  /\ a = Host => journey \notin Open /\ InFlight("Start", Host) = {}
  /\ a \in Visitors => ~HasActiveConsent(a) /\ InFlight("Grant", a) = {}

\* A deletion that no grant of the visitor, or start of the host, overlaps ends
\* all sharing of the account at once and for good, whatever else it races with
\* (delete_me revokes the rows and cancels the journeys it has read).
DeletionFinal ==
  [][\A a \in Visitors \cup {Host} :
       \/ a \in deleted /\ Ended(a)
       \/ \E r \in Slots : req[r].who = a /\ Delete(r) /\ seen[r] \cap {"grant", "start"} = {}
       => Ended(a)']_historyVars

=============================================================================
