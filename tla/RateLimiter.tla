---------------------------- MODULE RateLimiter ----------------------------
(***************************************************************************)
(* enforce_rate_limit (src/backend/app/security/rate_limit.py) for one     *)
(* scope and key, in an API server of one process (Dockerfile: --workers   *)
(* 1).  A call reads the clock, then has Redis drop what has left the      *)
(* window, count the rest and add the call, in one transaction.  When      *)
(* Redis fails the call is counted in the memory of the process instead,   *)
(* although Redis may have counted it as well.                             *)
(***************************************************************************)
EXTENDS Naturals, FiniteSets

CONSTANTS
  Calls,         \* the calls made during a behaviour
  Limit,         \* limit_per_min
  Window,        \* the minute
  MaxTime        \* bound on the clock

ASSUME LimitAssumption == Limit \in Nat /\ Window \in Nat /\ MaxTime \in Nat
ASSUME CallsAssumption == IsFiniteSet(Calls)

VARIABLES
  clock,
  window,        \* the sorted set in Redis: calls with their scores
  bucket,        \* the same in _mem_buckets
  call           \* what became of each call, where it was counted and at what
                 \* time it counts

limiterVars == <<clock, window, bucket, call>>

Entry == [by : Calls, at : Nat]

\* The entries that count for a call made at the given time.
Within(entries, now) == {e \in entries : e.at + Window > now}

\* Faulty variant of Answer: the call itself is not counted.
AnswerBefore(c, others, place, now) ==
  call' = [call EXCEPT ![c] =
             [verdict |-> IF Cardinality(others) > Limit THEN "refused" ELSE "admitted",
              place |-> place, at |-> now]]

Answer(c, others, place, now) ==
  call' = [call EXCEPT ![c] =
             [verdict |-> IF Cardinality(others) + 1 > Limit THEN "refused" ELSE "admitted",
              place |-> place, at |-> now]]

\* The call's entry in the sorted set, when it is made.
Scored(c) == [by |-> c, at |-> call[c].at]

-----------------------------------------------------------------------------

\* The request reaches the limiter and time.time() is read.
Ask(c) ==
  /\ call[c].verdict = "none"
  /\ call' = [call EXCEPT ![c] = [verdict |-> "asked", place |-> "none", at |-> clock]]
  /\ UNCHANGED <<clock, window, bucket>>

\* Faulty variant of Count: calls that left the window are not dropped.
CountAll(c) ==
  /\ call[c].verdict = "asked"
  /\ window' = window \cup {Scored(c)}
  /\ Answer(c, window, "redis", call[c].at)
  /\ UNCHANGED <<clock, bucket>>

\* The transaction in Redis, with the time read before.
Count(c) ==
  /\ call[c].verdict = "asked"
  /\ LET others == Within(window, call[c].at)
     IN  /\ window' = others \cup {Scored(c)}
         /\ Answer(c, others, "redis", call[c].at)
  /\ UNCHANGED <<clock, bucket>>

\* Redis fails, before or after the transaction: the clock is read again.
CountInMemory(c) ==
  /\ call[c].verdict = "asked"
  /\ window' \in {window, Within(window, call[c].at) \cup {Scored(c)}}
  /\ LET others == Within(bucket, clock)
     IN  /\ bucket' = others \cup {[by |-> c, at |-> clock]}
         /\ Answer(c, others, "memory", clock)
  /\ UNCHANGED clock

\* The process dies with what it had in memory and with the calls in flight.
LimiterDies ==
  /\ bucket' = {}
  /\ call' = [c \in Calls |-> IF call[c].verdict = "asked"
                              THEN [call[c] EXCEPT !.verdict = "lost"] ELSE call[c]]
  /\ UNCHANGED <<clock, window>>

Tick ==
  /\ clock < MaxTime
  /\ clock' = clock + 1
  /\ UNCHANGED <<window, bucket, call>>

LimiterInit ==
  /\ clock = 0
  /\ window = {} /\ bucket = {}
  /\ call = [c \in Calls |-> [verdict |-> "none", place |-> "none", at |-> 0]]

LimiterNext ==
  \/ \E c \in Calls : Ask(c) \/ Count(c) \/ CountInMemory(c)
  \/ LimiterDies \/ Tick

LimiterSpec == LimiterInit /\ [][LimiterNext]_limiterVars

-----------------------------------------------------------------------------
(* Properties *)

Verdict == [verdict : {"none", "asked", "admitted", "refused", "lost"},
            place : {"none", "redis", "memory"}, at : Nat]

LimiterTypeOK ==
  /\ clock \in Nat
  /\ window \subseteq Entry /\ bucket \subseteq Entry
  /\ call \in [Calls -> Verdict]

\* The calls that were admitted there, with a time that still counts.
Admitted(place) ==
  {c \in Calls : /\ call[c].verdict = "admitted" /\ call[c].place = place
                 /\ call[c].at + Window > clock}

Remembered == {c \in Calls : \E e \in bucket : e.by = c}

\* At no time do more calls of the last minute stand admitted than the limit
\* allows, by Redis and once more by the memory of the running process, however
\* late their transactions reach Redis.
AdmittedWithinLimit ==
  /\ Cardinality(Admitted("redis")) <= Limit
  /\ Cardinality(Admitted("memory") \cap Remembered) <= Limit

\* The calls other than c that were counted and have not left the window.
Recent(c, now) ==
  {d \in Calls \ {c} : call[d].place # "none" /\ call[d].at + Window > now}

\* Nobody is refused for calls made longer than a window ago, or for calls
\* counted both by Redis and in memory: only after as many others as the limit
\* allows.
RefusedOnlyIfBusy ==
  [][\A c \in Calls :
       call[c].verdict = "asked" /\ call'[c].verdict = "refused"
         => Cardinality(Recent(c, call'[c].at)) >= Limit]_limiterVars

=============================================================================
