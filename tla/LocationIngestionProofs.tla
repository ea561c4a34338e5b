---------------------- MODULE LocationIngestionProofs ----------------------
(***************************************************************************)
(* Proofs about RateLimiter and LocationIngestion, for any number of       *)
(* calls, uploads in flight and faults, any limit and any window: never    *)
(* more calls admitted than the limit, and nobody refused without as many  *)
(* others; the uploads use the limiter as it is specified; the copy in     *)
(* Redis is of the upload the row is of, and an upload alone is stored as  *)
(* it was sent.                                                            *)
(***************************************************************************)
EXTENDS LocationIngestion, FiniteSetTheorems, TLAPS

-----------------------------------------------------------------------------
(* The limiter *)

\* A call is counted once in each place, at the time it was answered for or
\* earlier, and only a call that has been counted there.
CountedOnce(entries) == \A e, f \in entries : e.by = f.by => e = f

CountedAt(entries) ==
  \A e \in entries : call[e.by].place # "none" /\ e.at <= call[e.by].at

\* An admitted call that is still within the window has its entry in Redis.
AdmittedKept == \A c \in Admitted("redis") : Scored(c) \in window

LimiterInv ==
  /\ LimiterTypeOK
  /\ IsFiniteSet(window) /\ IsFiniteSet(bucket)
  /\ CountedOnce(window) /\ CountedOnce(bucket)
  /\ CountedAt(window) /\ CountedAt(bucket)
  /\ \A c \in Calls : call[c].verdict \in {"none", "asked"} => call[c].place = "none"
  /\ \A c \in Calls : call[c].at <= clock
  /\ AdmittedKept
  /\ AdmittedWithinLimit

Callers(entries) == {e.by : e \in entries}

-----------------------------------------------------------------------------

\* As many callers as entries, when each is counted once, and never more.
LEMMA CallersCount ==
  ASSUME NEW entries \in SUBSET Entry, IsFiniteSet(entries)
  PROVE  /\ Cardinality(Callers(entries)) <= Cardinality(entries)
         /\ CountedOnce(entries) => Cardinality(Callers(entries)) = Cardinality(entries)
  <1> DEFINE by == [e \in entries |-> e.by]
  <1>1. by \in Surjection(entries, Callers(entries))
    BY DEF Surjection, Callers
  <1>2. CountedOnce(entries) => by \in Injection(entries, Callers(entries))
    BY DEF Injection, IsInjective, Callers, CountedOnce
  <1> QED BY <1>1, <1>2, FS_Surjection

\* What is within the window is a finite part of what there was.
LEMMA WithinFinite ==
  ASSUME NEW entries \in SUBSET Entry, IsFiniteSet(entries), NEW now, NEW e
  PROVE  /\ Within(entries, now) \subseteq entries
         /\ IsFiniteSet(Within(entries, now))
         /\ Cardinality(Within(entries, now)) \in Nat
         /\ IsFiniteSet(Within(entries, now) \cup {e})
         /\ Cardinality(Within(entries, now) \cup {e}) <= Cardinality(Within(entries, now)) + 1
  <1>1. Within(entries, now) \in SUBSET entries
    BY DEF Within
  <1>2. IsFiniteSet(Within(entries, now)) /\ Cardinality(Within(entries, now)) \in Nat
    BY <1>1, FS_Subset, FS_CardinalityType
  <1> QED BY <1>1, <1>2, FS_AddElement

\* A set of calls among the callers of some entries is no larger than those.
LEMMA AtMostEntries ==
  ASSUME NEW entries \in SUBSET Entry, IsFiniteSet(entries),
         NEW cs, cs \subseteq Callers(entries)
  PROVE  Cardinality(cs) <= Cardinality(entries)
  <1>1. Callers(entries) \subseteq Calls
    BY DEF Callers, Entry
  <1>2. IsFiniteSet(Callers(entries))
    BY <1>1, CallsAssumption, FS_Subset
  <1>3. /\ IsFiniteSet(cs) /\ Cardinality(cs) \in Nat
        /\ Cardinality(cs) <= Cardinality(Callers(entries))
    BY <1>2, FS_Subset, FS_CardinalityType
  <1>4. Cardinality(Callers(entries)) \in Nat /\ Cardinality(entries) \in Nat
    BY <1>2, FS_CardinalityType
  <1> QED BY <1>3, <1>4, CallersCount

\* Sets of calls are finite, and smaller ones no larger.
LEMMA FewerCalls ==
  ASSUME NEW cs \in SUBSET Calls, NEW ds \in SUBSET cs
  PROVE  /\ Cardinality(cs) \in Nat /\ Cardinality(ds) \in Nat
         /\ Cardinality(ds) <= Cardinality(cs)
  BY CallsAssumption, FS_Subset, FS_CardinalityType

-----------------------------------------------------------------------------
(* The answer to one call *)

\* A call counted in Redis: what is dropped counts no longer for anybody.
LEMMA CountKeeps ==
  ASSUME LimiterInv, NEW c \in Calls, Count(c)
  PROVE  LimiterInv'
  <1> DEFINE now == call[c].at
             others == Within(window, now)
             v == IF Cardinality(others) + 1 > Limit THEN "refused" ELSE "admitted"
             n == [verdict |-> v, place |-> "redis", at |-> now]
  <1>1. /\ call' = [call EXCEPT ![c] = n] /\ window' = others \cup {Scored(c)}
        /\ call[c].verdict = "asked" /\ call[c].place = "none"
        /\ bucket' = bucket /\ clock' = clock
    BY DEF Count, Answer, LimiterInv
  <1>2. /\ now \in Nat /\ now <= clock /\ clock \in Nat
        /\ Scored(c) \in Entry /\ Scored(c).by = c /\ Scored(c).at = now
    BY DEF LimiterInv, LimiterTypeOK, Verdict, Scored, Entry
  <1>3. LimiterTypeOK'
    BY <1>1, <1>2, WithinFinite DEF LimiterInv, LimiterTypeOK, Verdict
  <1>4. /\ others \subseteq window /\ IsFiniteSet(others) /\ Cardinality(others) \in Nat
        /\ IsFiniteSet(window') /\ IsFiniteSet(bucket')
        /\ Cardinality(window') <= Cardinality(others) + 1
    BY <1>1, WithinFinite DEF LimiterInv, LimiterTypeOK
  <1> HIDE DEF others, v
  <1>5. \A e \in window \cup bucket : e.by # c /\ e.by \in Calls
    BY <1>1 DEF LimiterInv, LimiterTypeOK, CountedAt, Entry
  <1>6. CountedOnce(window') /\ CountedOnce(bucket')
    BY <1>1, <1>2, <1>4, <1>5 DEF LimiterInv, CountedOnce
  <1>7. CountedAt(window)' /\ CountedAt(bucket)'
    BY <1>1, <1>2, <1>4, <1>5 DEF LimiterInv, LimiterTypeOK, CountedAt
  <1>8. /\ \A d \in Calls : call'[d].verdict \in {"none", "asked"} => call'[d].place = "none"
        /\ \A d \in Calls : call'[d].at <= clock'
    BY <1>1, <1>2 DEF LimiterInv, LimiterTypeOK, v
  <1>9. AdmittedKept'
    <2> SUFFICES ASSUME NEW d \in Admitted("redis")' PROVE Scored(d)' \in window'
      BY DEF AdmittedKept
    <2>1. CASE d = c
      BY <1>1, <2>1 DEF Scored, LimiterInv, LimiterTypeOK
    <2>2. CASE d # c
      <3>1. d \in Admitted("redis") /\ Scored(d)' = Scored(d)
        BY <1>1, <2>2 DEF Admitted, Scored, LimiterInv, LimiterTypeOK
      <3>2. Scored(d) \in window /\ Scored(d).at = call[d].at
        BY <3>1 DEF LimiterInv, AdmittedKept, Scored
      <3>3. call[d].at + Window > now
        BY <1>2, <3>1, LimitAssumption DEF Admitted, LimiterInv, LimiterTypeOK, Verdict
      <3>4. Scored(d) \in others
        BY <3>2, <3>3 DEF others, Within
      <3> QED BY <1>1, <3>1, <3>4
    <2> QED BY <2>1, <2>2
  <1>10. Cardinality(Admitted("redis")') <= Limit
    <2>1. CASE v = "admitted"
      <3>1. Admitted("redis")' \subseteq Callers(window')
        <4>1. \A d \in Admitted("redis")' : Scored(d)'.by = d /\ Scored(d)' \in window'
          BY <1>9 DEF AdmittedKept, Scored
        <4> QED BY <4>1 DEF Callers
      <3>2. Cardinality(Admitted("redis")') <= Cardinality(window')
        BY <1>3, <1>4, <3>1, AtMostEntries DEF LimiterTypeOK
      <3>3. Cardinality(others) + 1 <= Limit
        BY <1>4, <2>1, LimitAssumption DEF v
      <3>4. Cardinality(window') \in Nat /\ Cardinality(Admitted("redis")') \in Nat
        BY <1>4, FewerCalls, FS_CardinalityType DEF Admitted
      <3> QED BY <1>4, <3>2, <3>3, <3>4, LimitAssumption
    <2>2. CASE v = "refused"
      <3>1. Admitted("redis")' \subseteq Admitted("redis")
        BY <1>1, <2>2 DEF Admitted, LimiterInv, LimiterTypeOK
      <3>2. Admitted("redis") \subseteq Calls
        BY DEF Admitted
      <3>3. Cardinality(Admitted("redis")) <= Limit
        BY DEF LimiterInv, AdmittedWithinLimit
      <3> QED BY <3>1, <3>2, <3>3, FewerCalls, LimitAssumption
    <2> QED BY <2>1, <2>2 DEF v
  <1>11. Admitted("memory")' = Admitted("memory") /\ Remembered' = Remembered
    BY <1>1 DEF Admitted, Remembered, LimiterInv, LimiterTypeOK
  <1> QED BY <1>3, <1>4, <1>6, <1>7, <1>8, <1>9, <1>10, <1>11 DEF LimiterInv, AdmittedWithinLimit

\* A call counted in memory, whether Redis has counted it before or not.
LEMMA CountInMemoryKeeps ==
  ASSUME LimiterInv, NEW c \in Calls, CountInMemory(c)
  PROVE  LimiterInv'
  <1> DEFINE others == Within(bucket, clock)
             entry == [by |-> c, at |-> clock]
             kept == Within(window, call[c].at)
             v == IF Cardinality(others) + 1 > Limit THEN "refused" ELSE "admitted"
             n == [verdict |-> v, place |-> "memory", at |-> clock]
  <1>1. /\ call' = [call EXCEPT ![c] = n] /\ bucket' = others \cup {entry}
        /\ window' \in {window, kept \cup {Scored(c)}}
        /\ call[c].verdict = "asked" /\ call[c].place = "none"
        /\ clock' = clock
    BY DEF CountInMemory, Answer, LimiterInv
  <1>2. /\ clock \in Nat /\ call[c].at \in Nat /\ call[c].at <= clock
        /\ entry \in Entry /\ entry.by = c /\ entry.at = clock
        /\ Scored(c) \in Entry /\ Scored(c).by = c /\ Scored(c).at = call[c].at
    BY DEF LimiterInv, LimiterTypeOK, Verdict, Scored, Entry
  <1>3. LimiterTypeOK'
    BY <1>1, <1>2, WithinFinite DEF LimiterInv, LimiterTypeOK, Verdict
  <1>4. /\ others \subseteq bucket /\ IsFiniteSet(others) /\ Cardinality(others) \in Nat
        /\ IsFiniteSet(window') /\ IsFiniteSet(bucket') /\ kept \subseteq window
        /\ Cardinality(bucket') <= Cardinality(others) + 1
    <2>1. /\ window \in SUBSET Entry /\ IsFiniteSet(window)
          /\ bucket \in SUBSET Entry /\ IsFiniteSet(bucket)
      BY DEF LimiterInv, LimiterTypeOK
    <2>2. /\ kept \subseteq window /\ IsFiniteSet(kept \cup {Scored(c)})
          /\ others \subseteq bucket /\ IsFiniteSet(others) /\ Cardinality(others) \in Nat
      BY <2>1, WithinFinite
    <2>3. /\ IsFiniteSet(others \cup {entry})
          /\ Cardinality(others \cup {entry}) <= Cardinality(others) + 1
      BY <2>1, WithinFinite
    <2> HIDE DEF others, kept, entry
    <2> QED BY <1>1, <2>1, <2>2, <2>3
  <1>5. \A e \in window \cup bucket : e.by # c /\ e.by \in Calls
    BY <1>1 DEF LimiterInv, LimiterTypeOK, CountedAt, Entry
  <1>6. \A d \in Calls \ {c} : call'[d] = call[d]
    BY <1>1 DEF LimiterInv, LimiterTypeOK
  <1>7. call'[c] = n
    BY <1>1 DEF LimiterInv, LimiterTypeOK
  <1> HIDE DEF others, v, entry, kept
  <1>8. CountedOnce(window') /\ CountedOnce(bucket')
    BY <1>1, <1>2, <1>4, <1>5 DEF LimiterInv, CountedOnce
  <1>9. CountedAt(window)' /\ CountedAt(bucket)'
    BY <1>1, <1>2, <1>4, <1>5, <1>6, <1>7 DEF LimiterInv, CountedAt
  <1>10. /\ \A d \in Calls : call'[d].verdict \in {"none", "asked"} => call'[d].place = "none"
         /\ \A d \in Calls : call'[d].at <= clock'
    BY <1>1, <1>2, <1>6, <1>7 DEF LimiterInv, v
  <1>11. AdmittedKept'
    <2> SUFFICES ASSUME NEW d \in Admitted("redis")' PROVE Scored(d)' \in window'
      BY DEF AdmittedKept
    <2>1. d # c
      BY <1>7 DEF Admitted
    <2>2. d \in Admitted("redis") /\ Scored(d)' = Scored(d)
      BY <1>1, <1>6, <2>1 DEF Admitted, Scored
    <2>3. Scored(d) \in window /\ Scored(d).at = call[d].at
      BY <2>2 DEF LimiterInv, AdmittedKept, Scored
    <2>4. call[d].at + Window > call[c].at
      BY <1>2, <2>2, LimitAssumption DEF Admitted, LimiterInv, LimiterTypeOK, Verdict
    <2>5. Scored(d) \in kept
      BY <2>3, <2>4 DEF kept, Within
    <2> QED BY <1>1, <2>2, <2>3, <2>5
  <1>12. Cardinality(Admitted("redis")') <= Limit
    <2>1. Admitted("redis")' = Admitted("redis")
      BY <1>1, <1>6, <1>7 DEF Admitted
    <2> QED BY <2>1 DEF LimiterInv, AdmittedWithinLimit
  <1>13. Cardinality(Admitted("memory")' \cap Remembered') <= Limit
    <2> DEFINE cs == Admitted("memory") \cap Remembered
    <2>1. cs' \subseteq Callers(bucket') /\ cs' \subseteq Calls /\ cs \subseteq Calls
      BY DEF Remembered, Callers, Admitted
    <2>2. CASE v = "admitted"
      <3>1. Cardinality(cs') <= Cardinality(bucket')
        BY <1>3, <1>4, <2>1, AtMostEntries DEF LimiterTypeOK
      <3>2. Cardinality(others) + 1 <= Limit
        BY <1>4, <2>2, LimitAssumption DEF v
      <3>3. Cardinality(bucket') \in Nat /\ Cardinality(cs') \in Nat
        BY <1>4, <2>1, FewerCalls, FS_CardinalityType
      <3> QED BY <1>4, <3>1, <3>2, <3>3, LimitAssumption
    <2>3. CASE v = "refused"
      <3>1. cs' \subseteq cs
        BY <1>1, <1>2, <1>4, <1>6, <1>7, <2>3 DEF Admitted, Remembered
      <3>2. Cardinality(cs) <= Limit
        BY DEF LimiterInv, AdmittedWithinLimit
      <3> HIDE DEF cs
      <3> QED BY <2>1, <3>1, <3>2, FewerCalls, LimitAssumption DEF cs
    <2> QED BY <2>2, <2>3 DEF v
  <1> QED BY <1>3, <1>4, <1>8, <1>9, <1>10, <1>11, <1>12, <1>13
          DEF LimiterInv, AdmittedWithinLimit

\* The other steps answer no call; time and a restart only forget.
LEMMA OthersKeep ==
  ASSUME LimiterInv, (\E c \in Calls : Ask(c)) \/ LimiterDies \/ Tick \/ UNCHANGED limiterVars
  PROVE  LimiterInv'
  <1>1. /\ window' = window /\ clock' \in Nat /\ clock \in Nat /\ clock <= clock'
        /\ bucket' = bucket \/ bucket' = {}
    BY DEF Ask, LimiterDies, Tick, limiterVars, LimiterInv, LimiterTypeOK
  <1>2. /\ call' \in [Calls -> Verdict]
        /\ \A c \in Calls : /\ call'[c].at = call[c].at \/ (call'[c].at = clock' /\ call[c].verdict = "none")
                            /\ call'[c].verdict = "admitted" => call'[c] = call[c]
                            /\ call[c].place # "none" => call'[c] = call[c]
                            /\ call'[c].verdict \in {"none", "asked"} => call'[c].place = "none"
    <2>1. CASE \E c \in Calls : Ask(c)
      BY <2>1 DEF Ask, LimiterInv, LimiterTypeOK, Verdict
    <2>2. CASE LimiterDies
      BY <2>2 DEF LimiterDies, LimiterInv, LimiterTypeOK, Verdict
    <2>3. CASE Tick \/ UNCHANGED limiterVars
      BY <2>3 DEF Tick, limiterVars, LimiterInv, LimiterTypeOK
    <2> QED BY <2>1, <2>2, <2>3
  <1>3. LimiterTypeOK'
    BY <1>1, <1>2 DEF LimiterInv, LimiterTypeOK
  <1>4. IsFiniteSet(bucket') /\ CountedOnce(bucket') /\ CountedAt(bucket)' /\ CountedAt(window)'
    BY <1>1, <1>2, FS_EmptySet DEF LimiterInv, LimiterTypeOK, CountedOnce, CountedAt, Entry
  <1>5. \A c \in Calls : call'[c].at <= clock'
    BY <1>1, <1>2 DEF LimiterInv, LimiterTypeOK, Verdict
  <1>6. \A place : Admitted(place)' \subseteq Admitted(place)
    BY <1>1, <1>2, LimitAssumption DEF Admitted, LimiterInv, LimiterTypeOK, Verdict
  <1>7. Remembered' \subseteq Remembered
    BY <1>1 DEF Remembered
  <1>8. AdmittedKept'
    <2> SUFFICES ASSUME NEW d \in Admitted("redis")' PROVE Scored(d)' \in window'
      BY DEF AdmittedKept
    <2>1. d \in Admitted("redis") /\ call'[d] = call[d]
      BY <1>2, <1>6 DEF Admitted
    <2> QED BY <1>1, <2>1 DEF LimiterInv, AdmittedKept, Scored
  <1>9. AdmittedWithinLimit'
    <2> DEFINE cs == Admitted("memory") \cap Remembered
    <2>1. /\ Admitted("redis")' \subseteq Admitted("redis") /\ Admitted("redis") \subseteq Calls
          /\ cs' \subseteq cs /\ cs \subseteq Calls
      BY <1>6, <1>7 DEF Admitted
    <2>2. Cardinality(Admitted("redis")) <= Limit /\ Cardinality(cs) <= Limit
      BY DEF LimiterInv, AdmittedWithinLimit
    <2> HIDE DEF cs
    <2>3. Cardinality(Admitted("redis")') <= Limit /\ Cardinality(cs') <= Limit
      BY <2>1, <2>2, FewerCalls, LimitAssumption
    <2> QED BY <2>3 DEF AdmittedWithinLimit, cs
  <1> QED BY <1>1, <1>2, <1>3, <1>4, <1>5, <1>8, <1>9 DEF LimiterInv

-----------------------------------------------------------------------------

LEMMA LimiterInvariant == LimiterSpec => []LimiterInv
<1>1. LimiterInit => LimiterInv
  <2> SUFFICES ASSUME LimiterInit PROVE LimiterInv
    OBVIOUS
  <2>1. /\ LimiterTypeOK /\ \A place : Admitted(place) = {}
        /\ \A c \in Calls : call[c].place = "none" /\ call[c].at <= clock
    BY DEF LimiterInit, LimiterTypeOK, Verdict, Admitted
  <2>2. AdmittedWithinLimit /\ AdmittedKept
    BY <2>1, FS_EmptySet, LimitAssumption DEF AdmittedWithinLimit, AdmittedKept
  <2> QED BY <2>1, <2>2, FS_EmptySet DEF LimiterInit, LimiterInv, CountedOnce, CountedAt
<1>2. LimiterInv /\ [LimiterNext]_limiterVars => LimiterInv'
  BY CountKeeps, CountInMemoryKeeps, OthersKeep DEF LimiterNext
<1> QED BY <1>1, <1>2, PTL DEF LimiterSpec

\* AdmittedWithinLimit for any calls, limit and window: what a transaction drops
\* from the sorted set, with a time read earlier, has left every later window.
THEOREM AdmittedWithinLimitHolds == LimiterSpec => []AdmittedWithinLimit
BY LimiterInvariant, PTL DEF LimiterInv

\* A refused call has found, in one place, the entries of as many recent others.
LEMMA EntriesAreRecent ==
  ASSUME LimiterInv, NEW c \in Calls, call[c].verdict = "asked", NEW now \in Nat,
         NEW entries \in {window, bucket}, Cardinality(Within(entries, now)) + 1 > Limit
  PROVE  Cardinality(Recent(c, now)) >= Limit
  <1> DEFINE others == Within(entries, now)
  <1>1. others \subseteq entries /\ entries \subseteq Entry /\ IsFiniteSet(others)
        /\ Cardinality(others) \in Nat
    BY WithinFinite DEF LimiterInv, LimiterTypeOK
  <1>2. Callers(others) \subseteq Recent(c, now)
    <2> SUFFICES ASSUME NEW e \in others PROVE e.by \in Recent(c, now)
      BY DEF Callers
    <2>1. e \in entries /\ e \in Entry /\ e.at + Window > now
      BY <1>1 DEF Within
    <2>2. e.by \in Calls /\ call[e.by].place # "none" /\ e.at <= call[e.by].at
      BY <2>1 DEF LimiterInv, CountedAt, Entry
    <2>3. e.by # c
      BY <2>2 DEF LimiterInv
    <2>4. call[e.by].at + Window > now
      BY <2>1, <2>2, LimitAssumption DEF Entry, LimiterInv, LimiterTypeOK, Verdict
    <2> QED BY <2>2, <2>3, <2>4 DEF Recent
  <1>3. Cardinality(Callers(others)) = Cardinality(others)
    BY <1>1, CallersCount DEF LimiterInv, CountedOnce
  <1>4. Recent(c, now) \subseteq Calls
    BY DEF Recent
  <1> HIDE DEF others
  <1>5. Cardinality(Callers(others)) <= Cardinality(Recent(c, now))
    BY <1>2, <1>4, FewerCalls
  <1>6. Cardinality(Recent(c, now)) \in Nat
    BY <1>4, FewerCalls
  <1> QED BY <1>1, <1>3, <1>5, <1>6, LimitAssumption DEF others

\* RefusedOnlyIfBusy for any calls, limit and window: each caller is counted once
\* in each place, and never at a time later than the one it counts for.
THEOREM RefusedOnlyIfBusyHolds == LimiterSpec => RefusedOnlyIfBusy
<1>1. LimiterInv /\ [LimiterNext]_limiterVars
        => [\A c \in Calls :
              call[c].verdict = "asked" /\ call'[c].verdict = "refused"
                => Cardinality(Recent(c, call'[c].at)) >= Limit]_limiterVars
  <2> SUFFICES ASSUME LimiterInv, LimiterNext, NEW c \in Calls,
                      call[c].verdict = "asked", call'[c].verdict = "refused"
               PROVE  Cardinality(Recent(c, call'[c].at)) >= Limit
    OBVIOUS
  <2>1. Count(c) \/ CountInMemory(c)
    <3>1. \A d \in Calls : Ask(d) => call'[c] = call[c]
      BY DEF Ask, LimiterInv, LimiterTypeOK
    <3>2. \A d \in Calls \ {c} : Count(d) \/ CountInMemory(d) => call'[c] = call[c]
      BY DEF Count, CountInMemory, Answer, LimiterInv, LimiterTypeOK
    <3>3. LimiterDies \/ Tick => call'[c].verdict # "refused"
      BY DEF LimiterDies, Tick, LimiterInv, LimiterTypeOK, Verdict
    <3> QED BY <3>1, <3>2, <3>3 DEF LimiterNext
  <2>2. CASE Count(c)
    <3>1. /\ call'[c].at = call[c].at /\ call[c].at \in Nat
          /\ Cardinality(Within(window, call[c].at)) + 1 > Limit
      BY <2>2 DEF Count, Answer, LimiterInv, LimiterTypeOK, Verdict
    <3> QED BY <3>1, EntriesAreRecent
  <2>3. CASE CountInMemory(c)
    <3>1. /\ call'[c].at = clock /\ clock \in Nat
          /\ Cardinality(Within(bucket, clock)) + 1 > Limit
      BY <2>3 DEF CountInMemory, Answer, LimiterInv, LimiterTypeOK
    <3> QED BY <3>1, EntriesAreRecent
  <2> QED BY <2>1, <2>2, <2>3
<1> QED BY <1>1, LimiterInvariant, PTL DEF LimiterSpec, RefusedOnlyIfBusy

-----------------------------------------------------------------------------
(* What the uploads keep *)

Fields == {"point", "by", "seq"}

Waiting == {"admitted", "numbered", "found"}

Phases == {"new", "received", "flushed", "copied", "uncopied", "done"} \cup Waiting

StoreTypeOK ==
  /\ upload \in [Calls -> [phase : Phases, point : Points \cup {None},
                           seq : Nat, read : Record]]
  /\ row \in Record /\ copy \in Record
  /\ counter \in Nat

\* Only one upload holds the row's lock.
OneHolder == \A u, w \in Holders : u = w

\* From its SET to its commit an upload has its copy in Redis, with a new TTL.
CopyIsHolders ==
  \A u \in Calls : upload[u].phase = "copied" => copy.by = u /\ "copy" \notin aged

\* An upload that is not over is neither in the row nor in what it has read.
NotYetStored ==
  \A u \in Calls : upload[u].phase # "done" => row.by # u /\ upload[u].read.by # u

\* An upload that has met no other is the only one in flight, and what it has
\* read is still in the row, or the cleanup worker has deleted that.
ReadStillTrue ==
  \A u \in InFlight \ overlapped :
    /\ InFlight = {u}
    /\ upload[u].phase = "found" => row \in {upload[u].read, Absent}
    /\ u \in Holders => row = upload[u].read

StoreInv ==
  StoreTypeOK /\ OneHolder /\ CopyIsHolders /\ NotYetStored /\ CopyMatchesRow /\ ReadStillTrue

-----------------------------------------------------------------------------
(* Uploads are calls of the limiter *)

\* Every step of an upload is a step of the limiter or does not concern it.
LEMMA StepOfLimiter ==
  ASSUME [IngestionNext]_ingestionVars PROVE [LimiterNext]_limiterVars
  <1>1. ASSUME NEW u \in Calls, Serve(u) PROVE [LimiterNext]_limiterVars
    BY <1>1 DEF Serve, Admit, Refuse, Number, NumberFromRows, FindRow, Flush, Copy, CopyFails,
                Commit, DatabaseFails, LimiterNext
  <1>2. ASSUME NEW u \in Calls, NEW p \in Points, Receive(u, p) PROVE LimiterNext
    BY <1>2 DEF Receive, LimiterNext
  <1>3. Restart \/ Tick => LimiterNext
    BY DEF Restart, LimiterNext
  <1>4. Age \/ CleanUp \/ CopyExpires \/ CounterExpires => UNCHANGED limiterVars
    BY DEF Age, CleanUp, CopyExpires, CounterExpires
  <1>5. UNCHANGED ingestionVars => UNCHANGED limiterVars
    BY DEF ingestionVars
  <1> QED BY <1>1, <1>2, <1>3, <1>4, <1>5 DEF IngestionNext

\* The uploads use the limiter as RateLimiter describes its callers, so that
\* what is proved of the limiter holds of them.
THEOREM IngestionLimited == IngestionSpec => LimiterSpec
<1>1. IngestionInit => LimiterInit
  BY DEF IngestionInit
<1> QED BY <1>1, StepOfLimiter, PTL DEF IngestionSpec, LimiterSpec

\* So no more uploads of a visitor are admitted than the limit, and none is
\* refused without as many others.
THEOREM UploadsLimited == IngestionSpec => []AdmittedWithinLimit /\ RefusedOnlyIfBusy
BY IngestionLimited, AdmittedWithinLimitHolds, RefusedOnlyIfBusyHolds

-----------------------------------------------------------------------------
(* The row and its copy *)

LEMMA AbsentTyped == Absent \in Record /\ \A u \in Calls : Absent.by # u
  BY NoneAssumption DEF Absent, Record

\* What the UPDATE leaves in the row, for an upload not seen there before.
LEMMA UpdatedRow ==
  ASSUME StoreTypeOK, NEW u \in Calls, upload[u].read.by # u
  PROVE  /\ Updated(u) \in Record /\ Updated(u).by = u
         /\ row = upload[u].read => Updated(u) = Carried(u)
  <1> DEFINE C == Carried(u)
             read == upload[u].read
  <1>1. C \in Record /\ C.by = u
    BY DEF Carried, StoreTypeOK, Record
  <1>2. row \in Record /\ read \in Record
    BY DEF StoreTypeOK
  <1>3. DOMAIN row = Fields /\ DOMAIN C = Fields
    BY <1>1, <1>2 DEF Record, Fields
  <1>4. Updated(u) = [f \in Fields |-> IF C[f] # read[f] THEN C[f] ELSE row[f]]
    BY <1>3 DEF Updated
  <1>5. C["by"] = u /\ read["by"] # u
    BY <1>1 DEF Record
  <1>6. Updated(u).by = u
    BY <1>4, <1>5 DEF Fields
  <1>7. Updated(u) \in Record
    <2>1. Updated(u) = [point |-> Updated(u).point, by |-> Updated(u).by, seq |-> Updated(u).seq]
      BY <1>4 DEF Fields
    <2>2. /\ Updated(u).point \in {C.point, row.point}
          /\ Updated(u).by \in {C.by, row.by}
          /\ Updated(u).seq \in {C.seq, row.seq}
      BY <1>4 DEF Fields
    <2> QED BY <1>1, <1>2, <2>1, <2>2 DEF Record
  <1>8. ASSUME row = read PROVE Updated(u) = C
    <2>1. Updated(u) = [f \in Fields |-> C[f]]
      BY <1>4, <1>8
    <2>2. C = [f \in Fields |-> C[f]]
      BY <1>1, <1>3 DEF Record
    <2> QED BY <2>1, <2>2
  <1> QED BY <1>6, <1>7, <1>8

\* A step of an upload outside the lock that touches neither row nor copy.
LEMMA UnlockedStep ==
  ASSUME StoreInv, NEW u \in Calls, NEW n \in [phase : Waiting \cup {"done"}, point : Points \cup {None},
                                              seq : Nat, read : Record],
         upload' = [upload EXCEPT ![u] = n],
         upload[u].phase \in Waiting \cup {"received"}, u \notin Holders,
         n.read \in {upload[u].read, row, Absent}, n.phase = "found" => n.read = row,
         row' = row, copy' = copy, aged' \subseteq aged, ~degraded' => ~degraded,
         overlapped' = overlapped, counter' \in Nat
  PROVE  StoreInv'
  <1>1. StoreTypeOK'
    BY DEF StoreInv, StoreTypeOK, Phases
  <1>2. Holders' = Holders
    BY DEF Holders, Waiting, StoreInv, StoreTypeOK
  <1>3. InFlight' \subseteq InFlight /\ u \in InFlight
    BY DEF InFlight, Waiting, StoreInv, StoreTypeOK
  <1>4. OneHolder' /\ CopyMatchesRow'
    BY <1>2 DEF StoreInv, OneHolder, CopyMatchesRow, Unlocked
  <1>5. CopyIsHolders'
    BY DEF StoreInv, StoreTypeOK, CopyIsHolders, Waiting
  <1>6. NotYetStored'
    <2>1. row.by # u /\ upload[u].read.by # u
      BY DEF StoreInv, NotYetStored, Waiting
    <2> QED BY <2>1, AbsentTyped DEF StoreInv, StoreTypeOK, NotYetStored
  <1>7. ReadStillTrue'
    <2> SUFFICES ASSUME NEW w \in InFlight' \ overlapped
                 PROVE  /\ InFlight' = {w}
                        /\ upload'[w].phase = "found" => row \in {upload'[w].read, Absent}
                        /\ w \in Holders => row = upload'[w].read
      BY <1>2 DEF ReadStillTrue
    <2>1. InFlight = {w} /\ w = u
      BY <1>3 DEF StoreInv, ReadStillTrue
    <2> QED BY <1>3, <2>1 DEF StoreInv, StoreTypeOK
  <1> QED BY <1>1, <1>4, <1>5, <1>6, <1>7 DEF StoreInv

LEMMA GatesKeep ==
  ASSUME StoreInv, NEW u \in Calls,
         Admit(u) \/ Refuse(u) \/ Number(u) \/ NumberFromRows(u) \/ FindRow(u)
  PROVE  StoreInv'
  <1> DEFINE q == upload[u]
  <1>0. /\ q \in [phase : Phases, point : Points \cup {None}, seq : Nat, read : Record]
        /\ row \in Record /\ Absent \in Record
    BY AbsentTyped DEF StoreInv, StoreTypeOK
  <1>1. CASE Admit(u)
    <2>1. PICK n \in {[q EXCEPT !.phase = "admitted"],
                      [q EXCEPT !.phase = "done", !.read = Absent]} :
            upload' = [upload EXCEPT ![u] = n]
      BY <1>1 DEF Admit, Goto, Done
    <2>2. n \in [phase : Waiting \cup {"done"}, point : Points \cup {None}, seq : Nat, read : Record]
      BY <1>0 DEF Waiting
    <2>3. n.read \in {q.read, row, Absent} /\ n.phase # "found"
      BY <1>0
    <2> HIDE DEF q
    <2> QED BY <1>1, <2>1, <2>2, <2>3, UnlockedStep
            DEF Admit, Holders, StoreInv, StoreTypeOK, q
  <1>2. CASE Refuse(u)
    <2> DEFINE n == [q EXCEPT !.phase = "done", !.read = Absent]
    <2>1. upload' = [upload EXCEPT ![u] = n] /\ q.phase = "admitted"
      BY <1>2 DEF Refuse, Done
    <2>2. n \in [phase : Waiting \cup {"done"}, point : Points \cup {None}, seq : Nat, read : Record]
      BY <1>0 DEF Waiting
    <2>3. n.read = Absent /\ n.phase # "found"
      BY <1>0
    <2> HIDE DEF n
    <2> QED BY <1>2, <2>1, <2>2, <2>3, UnlockedStep DEF Refuse, Holders, Waiting, StoreInv, StoreTypeOK
  <1>3. CASE Number(u)
    <2> DEFINE n == [q EXCEPT !.phase = "numbered", !.seq = counter + 1]
    <2>1. upload' = [upload EXCEPT ![u] = n] /\ q.phase = "admitted"
      BY <1>3, <1>0 DEF Number, StoreInv, StoreTypeOK
    <2>2. counter + 1 \in Nat
      BY DEF StoreInv, StoreTypeOK
    <2>3. n \in [phase : Waiting \cup {"done"}, point : Points \cup {None}, seq : Nat, read : Record]
      BY <1>0, <2>2 DEF Waiting
    <2>4. n.read = q.read /\ n.phase # "found"
      BY <1>0
    <2> HIDE DEF n
    <2> QED BY <1>3, <2>1, <2>2, <2>3, <2>4, UnlockedStep DEF Number, Holders, Waiting
  <1>4. CASE NumberFromRows(u)
    <2> DEFINE n == [q EXCEPT !.phase = "numbered", !.seq = Greatest(row.seq, OthersMax) + 1]
    <2>1. upload' = [upload EXCEPT ![u] = n] /\ q.phase = "admitted"
      BY <1>4, <1>0 DEF NumberFromRows, StoreInv, StoreTypeOK
    <2>2. Greatest(row.seq, OthersMax) + 1 \in Nat /\ counter' \in Nat /\ aged' \subseteq aged
      BY <1>4, IngestionAssumption DEF NumberFromRows, StoreInv, StoreTypeOK, Record, Greatest
    <2>3. n \in [phase : Waiting \cup {"done"}, point : Points \cup {None}, seq : Nat, read : Record]
      BY <1>0, <2>2 DEF Waiting
    <2>4. n.read = q.read /\ n.phase # "found"
      BY <1>0
    <2> HIDE DEF n
    <2> QED BY <1>4, <2>1, <2>2, <2>3, <2>4, UnlockedStep DEF NumberFromRows, Holders, Waiting
  <1>5. CASE FindRow(u)
    <2> DEFINE n == [q EXCEPT !.phase = "found", !.read = row]
    <2>1. upload' = [upload EXCEPT ![u] = n] /\ q.phase = "numbered"
      BY <1>5, <1>0 DEF FindRow, StoreInv, StoreTypeOK
    <2>2. n \in [phase : Waiting \cup {"done"}, point : Points \cup {None}, seq : Nat, read : Record]
      BY <1>0 DEF Waiting
    <2>3. n.read = row
      BY <1>0
    <2> HIDE DEF n
    <2> QED BY <1>5, <2>1, <2>2, <2>3, UnlockedStep DEF FindRow, Holders, Waiting, StoreInv, StoreTypeOK
  <1> QED BY <1>1, <1>2, <1>3, <1>4, <1>5

\* The flush takes the lock or ends the upload.
LEMMA FlushKeeps ==
  ASSUME StoreInv, NEW u \in Calls, Flush(u) PROVE StoreInv'
  <1> DEFINE q == upload[u]
  <1>0. /\ q \in [phase : Phases, point : Points \cup {None}, seq : Nat, read : Record]
        /\ row \in Record /\ Absent \in Record /\ q.phase = "found" /\ Holders = {}
    BY AbsentTyped DEF StoreInv, StoreTypeOK, Flush, Unlocked
  <1>1. CASE (q.read = Absent) # (row = Absent)
    <2> DEFINE n == [q EXCEPT !.phase = "done", !.read = Absent]
    <2>1. upload' = [upload EXCEPT ![u] = n]
      BY <1>1 DEF Flush, Done
    <2>2. n \in [phase : Waiting \cup {"done"}, point : Points \cup {None}, seq : Nat, read : Record]
      BY <1>0 DEF Waiting
    <2>3. n.read = Absent /\ n.phase # "found"
      BY <1>0
    <2> HIDE DEF n
    <2> QED BY <1>0, <2>1, <2>2, <2>3, UnlockedStep DEF Flush, Holders, Waiting, StoreInv, StoreTypeOK
  <1>2. CASE (q.read = Absent) = (row = Absent)
    <2>1. /\ upload' = [upload EXCEPT ![u].phase = "flushed"]
          /\ row' = row /\ copy' = copy /\ aged' = aged /\ counter' = counter
          /\ overlapped' = overlapped
      BY <1>2 DEF Flush, Goto
    <2>2. StoreTypeOK'
      BY <2>1 DEF StoreInv, StoreTypeOK, Phases
    <2>3. Holders' = {u} /\ InFlight' = InFlight /\ u \in InFlight
      BY <1>0, <2>1 DEF Holders, InFlight, StoreInv, StoreTypeOK
    <2>4. OneHolder' /\ CopyMatchesRow'
      BY <2>3 DEF OneHolder, CopyMatchesRow, Unlocked
    <2>5. CopyIsHolders' /\ NotYetStored'
      BY <1>0, <2>1 DEF StoreInv, StoreTypeOK, CopyIsHolders, NotYetStored
    <2>6. ReadStillTrue'
      BY <1>0, <1>2, <2>1, <2>3 DEF StoreInv, StoreTypeOK, ReadStillTrue
    <2> QED BY <2>2, <2>4, <2>5, <2>6 DEF StoreInv
  <1> QED BY <1>1, <1>2

\* The SET is that of the only holder of the lock.
LEMMA CopyKeeps ==
  ASSUME StoreInv, NEW u \in Calls, Copy(u) \/ CopyFails(u) PROVE StoreInv'
  <1>1. /\ upload[u].phase = "flushed" /\ u \in Holders
        /\ row' = row /\ counter' = counter /\ overlapped' = overlapped
        /\ \/ /\ upload' = [upload EXCEPT ![u].phase = "copied"]
              /\ copy' = Carried(u) /\ aged' = aged \ {"copy"}
           \/ /\ upload' = [upload EXCEPT ![u].phase = "uncopied"]
              /\ copy' \in {copy, Carried(u)}
    BY DEF Copy, CopyFails, Goto, Holders
  <1>2. Carried(u) \in Record /\ Carried(u).by = u
    BY DEF Carried, StoreInv, StoreTypeOK, Record
  <1>3. StoreTypeOK'
    BY <1>1, <1>2 DEF StoreInv, StoreTypeOK, Phases
  <1>4. Holders' = Holders /\ InFlight' = InFlight
    BY <1>1 DEF Holders, InFlight, StoreInv, StoreTypeOK
  <1>5. \A w \in Holders : w = u
    BY <1>1 DEF StoreInv, OneHolder
  <1>6. OneHolder' /\ CopyMatchesRow'
    BY <1>1, <1>4 DEF StoreInv, OneHolder, CopyMatchesRow, Unlocked
  <1>7. CopyIsHolders'
    <2>1. \A w \in Calls : upload'[w].phase = "copied" => w = u
      BY <1>4, <1>5 DEF Holders
    <2> QED BY <1>1, <1>2, <2>1 DEF StoreInv, StoreTypeOK, CopyIsHolders
  <1>8. \A w \in Calls : /\ upload'[w].read = upload[w].read
                         /\ upload'[w].phase = "found" => upload[w].phase = "found"
                         /\ upload[w].phase = "done" => upload'[w].phase = "done"
    <2>1. PICK ph \in {"copied", "uncopied"} : upload' = [upload EXCEPT ![u].phase = ph]
      BY <1>1
    <2>2. /\ \A w \in Calls \ {u} : upload'[w] = upload[w]
          /\ upload'[u].read = upload[u].read /\ upload'[u].phase = ph
      BY <2>1 DEF StoreInv, StoreTypeOK
    <2> QED BY <1>1, <2>2
  <1>9. row' = row /\ overlapped' = overlapped
    BY <1>1
  <1>10. NotYetStored'
    <2> SUFFICES ASSUME NEW w \in Calls, upload'[w].phase # "done"
                 PROVE  row.by # w /\ upload'[w].read.by # w
      BY <1>9 DEF NotYetStored
    <2>1. upload[w].phase # "done" /\ upload'[w].read = upload[w].read
      BY <1>8
    <2> QED BY <2>1 DEF StoreInv, NotYetStored
  <1>11. ReadStillTrue'
    <2> SUFFICES ASSUME NEW w \in InFlight \ overlapped
                 PROVE  /\ InFlight = {w}
                        /\ upload'[w].phase = "found" => row \in {upload'[w].read, Absent}
                        /\ w \in Holders => row = upload'[w].read
      BY <1>4, <1>9 DEF ReadStillTrue
    <2>1. /\ w \in Calls /\ upload'[w].read = upload[w].read
          /\ upload'[w].phase = "found" => upload[w].phase = "found"
      BY <1>8 DEF InFlight
    <2> QED BY <2>1 DEF StoreInv, ReadStillTrue
  <1> QED BY <1>3, <1>6, <1>7, <1>10, <1>11 DEF StoreInv

\* The commit releases the lock: row and copy are now of the same upload.
LEMMA CommitKeeps ==
  ASSUME StoreInv, NEW u \in Calls, Commit(u) PROVE StoreInv'
  <1> DEFINE n == [upload[u] EXCEPT !.phase = "done", !.read = Absent]
  <1>1. /\ upload[u].phase \in {"copied", "uncopied"} /\ u \in Holders
        /\ row' = Updated(u) /\ aged' = aged \ {"row"} /\ copy' = copy /\ counter' = counter
        /\ degraded' = (upload[u].phase = "uncopied") /\ overlapped' = overlapped
        /\ upload' = [upload EXCEPT ![u] = n]
    BY DEF Commit, Done, Holders
  <1>2. Updated(u) \in Record /\ Updated(u).by = u
    BY <1>1, UpdatedRow DEF StoreInv, NotYetStored
  <1>3. /\ n \in [phase : Phases, point : Points \cup {None}, seq : Nat, read : Record]
        /\ n.phase = "done"
    BY AbsentTyped DEF StoreInv, StoreTypeOK, Phases
  <1> HIDE DEF n
  <1>4. StoreTypeOK'
    BY <1>1, <1>2, <1>3 DEF StoreInv, StoreTypeOK
  <1>5. Holders' = {}
    BY <1>1, <1>3 DEF Holders, StoreInv, StoreTypeOK, OneHolder
  <1>6. OneHolder' /\ CopyIsHolders'
    BY <1>5 DEF OneHolder, CopyIsHolders, Holders
  <1>7. CopyMatchesRow'
    BY <1>1, <1>2 DEF StoreInv, CopyIsHolders, CopyMatchesRow
  <1>8. NotYetStored'
    BY <1>1, <1>2, <1>3 DEF StoreInv, StoreTypeOK, NotYetStored
  <1>9. ReadStillTrue'
    <2>1. u \in InFlight /\ InFlight' = InFlight \ {u}
      BY <1>1, <1>3 DEF InFlight, StoreInv, StoreTypeOK
    <2> QED BY <1>1, <2>1 DEF StoreInv, ReadStillTrue
  <1> QED BY <1>4, <1>6, <1>7, <1>8, <1>9 DEF StoreInv

\* An upload that the database fails is over; one that had the lock releases it
\* and may leave its copy behind.
LEMMA DatabaseFailsKeeps ==
  ASSUME StoreInv, NEW u \in Calls, DatabaseFails(u) PROVE StoreInv'
  <1> DEFINE n == [upload[u] EXCEPT !.phase = "done", !.read = Absent]
  <1>1. /\ upload[u].phase \in {"numbered", "found", "copied", "uncopied"}
        /\ row' = row /\ copy' = copy /\ aged' = aged /\ counter' = counter
        /\ overlapped' = overlapped /\ degraded' = (degraded \/ u \in Holders)
        /\ upload' = [upload EXCEPT ![u] = n]
    BY DEF DatabaseFails, Done
  <1>2. /\ n \in [phase : Waiting \cup {"done"}, point : Points \cup {None}, seq : Nat, read : Record]
        /\ n.phase = "done" /\ n.read = Absent
    BY AbsentTyped DEF StoreInv, StoreTypeOK, Waiting
  <1> HIDE DEF n
  <1>3. CASE u \notin Holders
    <2>1. ~degraded' => ~degraded
      BY <1>1
    <2>2. upload[u].phase \in Waiting \cup {"received"} /\ counter' \in Nat
      BY <1>1, <1>3 DEF Holders, Waiting, StoreInv, StoreTypeOK
    <2> QED BY <1>1, <1>2, <1>3, <2>1, <2>2, UnlockedStep
  <1>4. CASE u \in Holders
    <2>1. StoreTypeOK'
      BY <1>1, <1>2 DEF StoreInv, StoreTypeOK, Phases, Waiting
    <2>2. Holders' = {}
      BY <1>1, <1>2, <1>4 DEF Holders, StoreInv, StoreTypeOK, OneHolder
    <2>3. OneHolder' /\ CopyIsHolders'
      BY <2>2 DEF OneHolder, CopyIsHolders, Holders
    <2>4. CopyMatchesRow'
      BY <1>1, <1>4 DEF CopyMatchesRow
    <2>5. NotYetStored'
      BY <1>1, <1>2 DEF StoreInv, StoreTypeOK, NotYetStored
    <2>6. ReadStillTrue'
      <3>1. u \in InFlight /\ InFlight' = InFlight \ {u}
        BY <1>1, <1>2 DEF InFlight, StoreInv, StoreTypeOK
      <3> QED BY <1>1, <3>1 DEF StoreInv, ReadStillTrue
    <2> QED BY <2>1, <2>3, <2>4, <2>5, <2>6 DEF StoreInv
  <1> QED BY <1>3, <1>4

\* A new upload makes those it meets overlapped, and itself.
LEMMA ReceiveKeeps ==
  ASSUME StoreInv, NEW u \in Calls, NEW p \in Points, Receive(u, p) PROVE StoreInv'
  <1>1. /\ upload[u].phase = "new"
        /\ upload' = [upload EXCEPT ![u].phase = "received", ![u].point = p]
        /\ overlapped' = overlapped \cup (IF InFlight = {} THEN {} ELSE InFlight \cup {u})
        /\ row' = row /\ copy' = copy /\ aged' = aged /\ counter' = counter
        /\ degraded' = degraded
    BY DEF Receive
  <1>2. StoreTypeOK'
    BY <1>1 DEF StoreInv, StoreTypeOK, Phases
  <1>3. Holders' = Holders /\ InFlight' = InFlight \cup {u}
    BY <1>1 DEF Holders, InFlight, StoreInv, StoreTypeOK
  <1>4. OneHolder' /\ CopyMatchesRow'
    BY <1>1, <1>3 DEF StoreInv, OneHolder, CopyMatchesRow, Unlocked
  <1>6. CopyIsHolders' /\ NotYetStored'
    BY <1>1 DEF StoreInv, StoreTypeOK, CopyIsHolders, NotYetStored
  <1>5. ReadStillTrue'
    <2>1. u \notin Holders
      BY <1>1 DEF Holders
    <2> QED BY <1>1, <1>3, <2>1 DEF StoreInv, StoreTypeOK, ReadStillTrue
  <1> QED BY <1>2, <1>4, <1>5, <1>6 DEF StoreInv

LEMMA RestartKeeps ==
  ASSUME StoreInv, Restart PROVE StoreInv'
  <1>1. /\ row' = row /\ copy' = copy /\ aged' = aged /\ counter' = counter
        /\ degraded' = (degraded \/ Holders # {})
        /\ \A u \in Calls : upload'[u].phase \in {"new", "done"}
        /\ \A u \in Calls : upload'[u].phase # "done" => upload'[u] = upload[u]
    BY DEF Restart, InFlight, StoreInv, StoreTypeOK
  <1>2. StoreTypeOK'
    BY <1>1, AbsentTyped DEF Restart, StoreInv, StoreTypeOK, Phases
  <1>3. Holders' = {} /\ InFlight' = {}
    BY <1>1 DEF Holders, InFlight
  <1>4. CopyMatchesRow'
    BY <1>1 DEF StoreInv, CopyMatchesRow, Unlocked
  <1>5. OneHolder' /\ CopyIsHolders' /\ NotYetStored' /\ ReadStillTrue'
    BY <1>1, <1>3 DEF StoreInv, OneHolder, CopyIsHolders, NotYetStored, ReadStillTrue, Holders
  <1> QED BY <1>2, <1>4, <1>5 DEF StoreInv

\* Retention takes away the row, the copy or the counter, never what a holder
\* of the lock has written.
LEMMA RetentionKeeps ==
  ASSUME StoreInv,
         Age \/ CleanUp \/ CopyExpires \/ CounterExpires \/ UNCHANGED <<storeVars, faults, overlapped>>
  PROVE  StoreInv'
  <1>1. /\ upload' = upload /\ overlapped' = overlapped /\ degraded' = degraded
        /\ row' = row \/ (row' = Absent /\ Holders = {})
        /\ copy' = copy \/ (copy' = Absent /\ "copy" \in aged)
        /\ counter' \in {counter, 0}
        /\ InFlight # {} => aged' \subseteq aged
    BY DEF Age, CleanUp, CopyExpires, CounterExpires, storeVars, Unlocked
  <1>2. StoreTypeOK'
    BY <1>1, AbsentTyped DEF StoreInv, StoreTypeOK
  <1>3. Holders' = Holders /\ InFlight' = InFlight
    BY <1>1 DEF Holders, InFlight
  <1>4. OneHolder' /\ CopyMatchesRow' /\ CopyIsHolders'
    BY <1>1, <1>3 DEF StoreInv, OneHolder, CopyMatchesRow, Unlocked, CopyIsHolders, InFlight
  <1>5. NotYetStored' /\ ReadStillTrue'
    BY <1>1, <1>3, AbsentTyped DEF StoreInv, NotYetStored, ReadStillTrue
  <1> QED BY <1>2, <1>4, <1>5 DEF StoreInv

LEMMA StoreInvariant == IngestionSpec => []StoreInv
<1>1. IngestionInit => StoreInv
  BY AbsentTyped, NoneAssumption
  DEF IngestionInit, Fresh, StoreInv, StoreTypeOK, Phases, OneHolder, Holders, CopyIsHolders,
      NotYetStored, CopyMatchesRow, ReadStillTrue, InFlight
<1>2. StoreInv /\ [IngestionNext]_ingestionVars => StoreInv'
  BY GatesKeep, FlushKeeps, CopyKeeps, CommitKeeps, DatabaseFailsKeeps, ReceiveKeeps,
     RestartKeeps, RetentionKeeps
  DEF IngestionNext, Serve, ingestionVars
<1> QED BY <1>1, <1>2, PTL DEF IngestionSpec

\* CopyMatchesRow for any number of uploads and faults: only the holder of the
\* row's lock writes the copy, and it commits the row before it lets go.
THEOREM CopyMatchesRowHolds == IngestionSpec => []CopyMatchesRow
BY StoreInvariant, PTL DEF StoreInv

\* SoleUploadStored for any history of uploads, faults and cleanups before it.
THEOREM SoleUploadStoredHolds == IngestionSpec => SoleUploadStored
<1>1. StoreInv => \A u \in Calls \ overlapped : Commit(u) => row' = Carried(u)
  <2> SUFFICES ASSUME StoreInv, NEW u \in Calls \ overlapped, Commit(u) PROVE row' = Carried(u)
    OBVIOUS
  <2>1. u \in Holders /\ u \in InFlight /\ row' = Updated(u)
    BY DEF Commit, Holders, InFlight
  <2>2. row = upload[u].read /\ upload[u].read.by # u
    BY <2>1 DEF StoreInv, ReadStillTrue, NotYetStored, Holders
  <2> QED BY <2>1, <2>2, UpdatedRow DEF StoreInv
<1> QED BY <1>1, StoreInvariant, PTL DEF SoleUploadStored

-----------------------------------------------------------------------------
(* Type correctness *)

TracksTypeOK ==
  /\ faults \in 0 .. MaxFaults
  /\ aged \subseteq {"row", "copy", "counter"}
  /\ degraded \in BOOLEAN
  /\ overlapped \subseteq Calls

LEMMA TracksKept ==
  ASSUME TracksTypeOK, [IngestionNext]_ingestionVars
  PROVE  TracksTypeOK'
  <1>1. faults' \in 0 .. MaxFaults
    <2>1. ASSUME Fault PROVE faults' \in 0 .. MaxFaults
      BY <2>1, IngestionAssumption DEF Fault, TracksTypeOK
    <2>2. ASSUME faults' = faults PROVE faults' \in 0 .. MaxFaults
      BY <2>2 DEF TracksTypeOK
    <2> QED
      BY <2>1, <2>2
      DEF IngestionNext, Serve, Receive, Admit, Refuse, Number, NumberFromRows, FindRow, Flush,
          Copy, CopyFails, Commit, DatabaseFails, Restart, Age, CleanUp, CopyExpires, CounterExpires,
          ingestionVars
  <1>2. aged' \subseteq aged \cup {"row", "copy", "counter"}
    BY DEF IngestionNext, Serve, Receive, Admit, Refuse, Number, NumberFromRows, FindRow, Flush,
           Copy, CopyFails, Commit, DatabaseFails, Restart, Age, CleanUp, CopyExpires,
           CounterExpires, ingestionVars, storeVars
  <1>3. degraded' \in BOOLEAN
    <2>1. ASSUME degraded' = degraded PROVE degraded' \in BOOLEAN
      BY <2>1 DEF TracksTypeOK
    <2>2. ASSUME NEW u \in Calls, Commit(u) PROVE degraded' \in BOOLEAN
      BY <2>2 DEF Commit
    <2>3. ASSUME Restart PROVE degraded' \in BOOLEAN
      BY <2>3 DEF Restart, TracksTypeOK
    <2>4. ASSUME NEW u \in Calls, DatabaseFails(u) PROVE degraded' \in BOOLEAN
      BY <2>4 DEF DatabaseFails, TracksTypeOK
    <2> QED
      BY <2>1, <2>2, <2>3, <2>4
      DEF IngestionNext, Serve, Receive, Admit, Refuse, Number, NumberFromRows, FindRow, Flush,
          Copy, CopyFails, Age, CleanUp, CopyExpires, CounterExpires, ingestionVars, storeVars
  <1>4. overlapped' \subseteq Calls
    <2>1. ASSUME overlapped' = overlapped PROVE overlapped' \subseteq Calls
      BY <2>1 DEF TracksTypeOK
    <2>2. ASSUME NEW u \in Calls, NEW p \in Points, Receive(u, p) PROVE overlapped' \subseteq Calls
      BY <2>2 DEF Receive, InFlight, TracksTypeOK
    <2> QED
      BY <2>1, <2>2
      DEF IngestionNext, Serve, Admit, Refuse, Number, NumberFromRows, FindRow, Flush, Copy,
          CopyFails, Commit, DatabaseFails, Restart, Age, CleanUp, CopyExpires, CounterExpires,
          ingestionVars
  <1> QED BY <1>1, <1>2, <1>3, <1>4 DEF TracksTypeOK

\* Uploads, rows, copies and counters stay within their types, the limiter's
\* entries too.
THEOREM IngestionTypeCorrect == IngestionSpec => []IngestionTypeOK
<1>1. IngestionInit => TracksTypeOK
  <2>1. ASSUME IngestionInit PROVE faults \in 0 .. MaxFaults /\ aged = {} /\ overlapped = {}
    BY <2>1, IngestionAssumption DEF IngestionInit
  <2>2. ASSUME IngestionInit PROVE degraded \in BOOLEAN
    BY <2>2 DEF IngestionInit
  <2> QED BY <2>1, <2>2 DEF TracksTypeOK
<1>2. TracksTypeOK /\ [IngestionNext]_ingestionVars => TracksTypeOK'
  BY TracksKept
<1>3. LimiterInv /\ StoreInv /\ TracksTypeOK => IngestionTypeOK
  BY DEF LimiterInv, StoreInv, StoreTypeOK, Phases, Waiting, TracksTypeOK, IngestionTypeOK
<1>4. IngestionSpec => []LimiterInv
  BY IngestionLimited, LimiterInvariant
<1> QED BY <1>1, <1>2, <1>3, <1>4, StoreInvariant, PTL DEF IngestionSpec

=============================================================================
