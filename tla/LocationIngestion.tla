------------------------- MODULE LocationIngestion -------------------------
(***************************************************************************)
(* POST /journeys/{id}/location of one visitor (api/v1/locations.py and    *)
(* services/location_service.py), from the rate limiter to the row of      *)
(* location_latest and its copy in Redis, with the retention of both       *)
(* (workers/cleanup_worker.py).  Uploads overlap, Redis and the database   *)
(* fail at any call, and the API process may die.  Who is authorized to    *)
(* upload is decided in JourneySharing: here an upload may be refused for  *)
(* any reason.                                                             *)
(***************************************************************************)
EXTENDS RateLimiter

CONSTANTS
  Points,        \* the positions a device reports
  None,          \* no position, no upload
  OthersMax,     \* largest server_sequence in the journey's other rows
  MaxInFlight,   \* bound on the uploads in flight
  MaxFaults      \* bound on failures of Redis and the database, and deaths of
                 \* the process

ASSUME NoneAssumption == None \notin Points \cup Calls
ASSUME IngestionAssumption == OthersMax \in Nat /\ MaxInFlight \in Nat /\ MaxFaults \in Nat

VARIABLES
  upload,        \* how far each upload is, what it carries and what it has read
  row,           \* the visitor's row as committed
  copy,          \* its copy in Redis
  counter,       \* the visitor's sequence in Redis
  aged,          \* which of row, copy and counter is past its retention
  faults,
  degraded,      \* history: the copy may differ from the row after a fault
  overlapped     \* history: uploads that met another one

storeVars == <<upload, row, copy, counter, aged, degraded>>
ingestionVars == <<limiterVars, storeVars, faults, overlapped>>

\* What the row and its copy say: the position, and the upload whose times
\* and sequence number stand beside it.
Absent == [point |-> None, by |-> None, seq |-> 0]

Carried(u) == [point |-> upload[u].point, by |-> u, seq |-> upload[u].seq]

Fresh == [phase |-> "new", point |-> None, seq |-> 0, read |-> Absent]

InFlight == {u \in Calls : upload[u].phase \notin {"new", "done"}}

\* The flush has written the row, or waits for nothing but the commit.
Holders == {u \in Calls : upload[u].phase \in {"flushed", "copied", "uncopied"}}

Unlocked == Holders = {}

Goto(u, phase) == upload' = [upload EXCEPT ![u].phase = phase]

\* An upload that is over is forgotten but for its position.
Done(u) == upload' = [upload EXCEPT ![u].phase = "done", ![u].read = Absent]

Fault == faults < MaxFaults /\ faults' = faults + 1

Greatest(m, n) == IF m < n THEN n ELSE m

-----------------------------------------------------------------------------
(* The request up to the gates *)

\* Bound: MaxInFlight uploads at a time.
Receive(u, p) ==
  /\ upload[u].phase = "new"
  /\ Cardinality(InFlight) < MaxInFlight
  /\ Ask(u)
  /\ upload' = [upload EXCEPT ![u].phase = "received", ![u].point = p]
  /\ overlapped' = overlapped \cup (IF InFlight = {} THEN {} ELSE InFlight \cup {u})
  /\ UNCHANGED <<row, copy, counter, aged, degraded, faults>>

\* The limiter answers: 429, or on to the gates.
Admit(u) ==
  /\ upload[u].phase = "received"
  /\ \/ Count(u) /\ UNCHANGED faults
     \/ CountInMemory(u) /\ Fault
  /\ IF call'[u].verdict = "admitted" THEN Goto(u, "admitted") ELSE Done(u)
  /\ UNCHANGED <<row, copy, counter, aged, degraded, overlapped>>

\* ingest_location: the journey, the participant, the consent, the
\* coordinates or the time of the location are not accepted.
Refuse(u) ==
  /\ upload[u].phase = "admitted"
  /\ Done(u)
  /\ UNCHANGED <<limiterVars, row, copy, counter, aged, degraded, faults, overlapped>>

-----------------------------------------------------------------------------
(* The rest of ingest_location *)

\* INCR of the visitor's counter.
Number(u) ==
  /\ upload[u].phase = "admitted"
  /\ counter' = counter + 1
  /\ aged' = aged \ {"counter"}
  /\ upload' = [upload EXCEPT ![u].phase = "numbered", ![u].seq = counter + 1]
  /\ UNCHANGED <<limiterVars, row, copy, degraded, faults, overlapped>>

\* Faulty variant of NumberFromRows: only the visitor's own row is looked at, and
\* a visitor without one gets no number.
NumberFromOwnRow(u) ==
  /\ upload[u].phase = "admitted"
  /\ Fault
  /\ upload' = [upload EXCEPT ![u].phase = "numbered",
                              ![u].seq = IF row = Absent THEN None ELSE row.seq + 1]
  /\ UNCHANGED <<limiterVars, row, copy, counter, aged, degraded, overlapped>>

\* Redis fails before or after the INCR, or in the EXPIRE that follows it: the
\* number is taken from the rows of the whole journey.
NumberFromRows(u) ==
  /\ upload[u].phase = "admitted"
  /\ Fault
  /\ \/ UNCHANGED <<counter, aged>>
     \/ counter' = counter + 1 /\ aged' \in {aged, aged \ {"counter"}}
  /\ upload' = [upload EXCEPT ![u].phase = "numbered",
                              ![u].seq = Greatest(row.seq, OthersMax) + 1]
  /\ UNCHANGED <<limiterVars, row, copy, degraded, overlapped>>

\* db.get(LocationLatest, participant.id)
FindRow(u) ==
  /\ upload[u].phase = "numbered"
  /\ upload' = [upload EXCEPT ![u].phase = "found", ![u].read = row]
  /\ UNCHANGED <<limiterVars, row, copy, counter, aged, degraded, faults, overlapped>>

\* Faulty variant of Flush: the statement is left to the commit.
FlushLater(u) ==
  /\ upload[u].phase = "found"
  /\ Goto(u, "flushed")
  /\ UNCHANGED <<limiterVars, row, copy, counter, aged, degraded, faults, overlapped>>

\* flush: the INSERT or UPDATE waits for the row's lock and then holds it.
\* An INSERT fails on a row committed meanwhile, an UPDATE on one deleted.
Flush(u) ==
  /\ upload[u].phase = "found"
  /\ Unlocked
  /\ IF (upload[u].read = Absent) = (row = Absent) THEN Goto(u, "flushed") ELSE Done(u)
  /\ UNCHANGED <<limiterVars, row, copy, counter, aged, degraded, faults, overlapped>>

\* SET with the retention as its TTL.
Copy(u) ==
  /\ upload[u].phase = "flushed"
  /\ copy' = Carried(u)
  /\ aged' = aged \ {"copy"}
  /\ Goto(u, "copied")
  /\ UNCHANGED <<limiterVars, row, counter, degraded, faults, overlapped>>

\* Redis fails, before or after the SET; the upload goes on without it.
CopyFails(u) ==
  /\ upload[u].phase = "flushed"
  /\ Fault
  /\ \/ UNCHANGED <<copy, aged>>
     \/ copy' = Carried(u) /\ aged' = aged \ {"copy"}
  /\ Goto(u, "uncopied")
  /\ UNCHANGED <<limiterVars, row, counter, degraded, overlapped>>

\* Faulty variant of Updated: the position moves only to a larger number.
UpdatedIfLater(u) ==
  [Carried(u) EXCEPT !.point = IF upload[u].seq > row.seq THEN @ ELSE row.point]

\* The row with the UPDATE of u: the mapper writes the columns in which u
\* differs from the row it read, and leaves the others as they are now.
Updated(u) ==
  [f \in DOMAIN row |-> IF Carried(u)[f] # upload[u].read[f] THEN Carried(u)[f] ELSE row[f]]

Commit(u) ==
  /\ upload[u].phase \in {"copied", "uncopied"}
  /\ row' = Updated(u)
  /\ aged' = aged \ {"row"}
  /\ degraded' = (upload[u].phase = "uncopied")
  /\ Done(u)
  /\ UNCHANGED <<limiterVars, copy, counter, faults, overlapped>>

-----------------------------------------------------------------------------
(* Faults and retention *)

\* A statement or the commit fails in the database: the request is rolled back, a
\* copy that was written stays.
DatabaseFails(u) ==
  /\ upload[u].phase \in {"numbered", "found", "copied", "uncopied"}
  /\ Fault
  /\ degraded' = (degraded \/ u \in Holders)
  /\ Done(u)
  /\ UNCHANGED <<limiterVars, row, copy, counter, aged, overlapped>>

\* The process dies: its transactions are rolled back, its memory is gone.
Restart ==
  /\ InFlight # {}
  /\ Fault
  /\ LimiterDies
  /\ upload' = [u \in Calls |-> IF u \in InFlight
                                THEN [upload[u] EXCEPT !.phase = "done", !.read = Absent]
                                ELSE upload[u]]
  /\ degraded' = (degraded \/ Holders # {})
  /\ UNCHANGED <<row, copy, counter, aged, overlapped>>

\* location_retention_hours, by default the day that the counter is kept, pass
\* without an upload.
Age ==
  /\ aged = {} /\ row # Absent /\ InFlight = {}
  /\ aged' = {"row", "counter"} \cup (IF copy = Absent THEN {} ELSE {"copy"})
  /\ UNCHANGED <<limiterVars, upload, row, copy, counter, degraded, faults, overlapped>>

\* cleanup_location_data: the DELETE waits for the row's lock.
CleanUp ==
  /\ "row" \in aged /\ Unlocked
  /\ row' = Absent
  /\ aged' = aged \ {"row"}
  /\ UNCHANGED <<limiterVars, upload, copy, counter, degraded, faults, overlapped>>

\* The TTL of the copy has passed.
CopyExpires ==
  /\ "copy" \in aged
  /\ copy' = Absent
  /\ aged' = aged \ {"copy"}
  /\ UNCHANGED <<limiterVars, upload, row, counter, degraded, faults, overlapped>>

CounterExpires ==
  /\ "counter" \in aged
  /\ counter' = 0
  /\ aged' = aged \ {"counter"}
  /\ UNCHANGED <<limiterVars, upload, row, copy, degraded, faults, overlapped>>

-----------------------------------------------------------------------------
(* Specification *)

IngestionInit ==
  /\ LimiterInit
  /\ upload = [u \in Calls |-> Fresh]
  /\ row = Absent /\ copy = Absent
  /\ counter = 0
  /\ aged = {} /\ faults = 0
  /\ degraded = FALSE /\ overlapped = {}

\* What the server does with an upload it has received.
Serve(u) ==
  \/ Admit(u) \/ Refuse(u) \/ Number(u) \/ NumberFromRows(u)
  \/ FindRow(u) \/ Flush(u) \/ Copy(u) \/ CopyFails(u) \/ Commit(u)
  \/ DatabaseFails(u)

IngestionNext ==
  \/ \E u \in Calls : Serve(u) \/ \E p \in Points : Receive(u, p)
  \/ Restart \/ Age \/ CleanUp \/ CopyExpires \/ CounterExpires
  \/ Tick /\ UNCHANGED <<storeVars, faults, overlapped>>

IngestionSpec == IngestionInit /\ [][IngestionNext]_ingestionVars

-----------------------------------------------------------------------------
(* Properties *)

Record == [point : Points \cup {None}, by : Calls \cup {None}, seq : Nat]

IngestionTypeOK ==
  /\ LimiterTypeOK
  /\ upload \in [Calls -> [phase : {"new", "received", "admitted", "numbered", "found",
                                   "flushed", "copied", "uncopied", "done"},
                           point : Points \cup {None}, seq : Nat, read : Record]]
  /\ row \in Record /\ copy \in Record
  /\ counter \in Nat /\ faults \in 0 .. MaxFaults
  /\ aged \subseteq {"row", "copy", "counter"}
  /\ degraded \in BOOLEAN
  /\ overlapped \subseteq Calls

\* Between two uploads the copy in Redis is of the upload whose times the row has,
\* unless Redis or the database failed or the process died in the last one: the
\* row's lock, held from the flush to the commit, orders the copies as well, and
\* an upload that loses the race for the INSERT leaves none.
CopyMatchesRow ==
  Unlocked /\ ~degraded /\ row # Absent /\ copy # Absent => copy.by = row.by

\* An upload that no other one overlaps is stored as it was sent, whatever
\* earlier uploads, faults and the cleanup worker left behind.
SoleUploadStored ==
  [][\A u \in Calls \ overlapped : Commit(u) => row' = Carried(u)]_ingestionVars

=============================================================================
