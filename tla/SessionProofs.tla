--------------------------- MODULE SessionProofs ---------------------------
(***************************************************************************)
(* Proofs about AuthSessions and MobileSession, for any number of          *)
(* connections, tokens and calls: the records of the token endpoints keep  *)
(* their types, void credentials obtain nothing, the application sends the *)
(* server only what AuthSessions knows, and a logout stays a logout.       *)
(***************************************************************************)
EXTENDS MobileSession, TLAPS

Rows == [Tokens -> {"NONE", "LIVE", "REVOKED"}]

Phases == {"idle", "begun", "reused", "exchanging", "owned", "ready", "answered"}

\* The values of req[r] when ts are the tokens issued.
Request(ts) == [op : AuthOps, token : ts \cup {NoToken}, late : BOOLEAN, phase : Phases,
                siblings : SUBSET ts, answer : ts \cup {NoToken}]

\* A step that moves on the request in slot r.
LEMMA RequestAfter ==
  ASSUME NEW ts, req \in [Slots -> Request(ts)], NEW r \in Slots, NEW q \in Request(ts),
         req' = [req EXCEPT ![r] = q]
  PROVE  req' \in [Slots -> Request(ts)]
  OBVIOUS

\* Tokens are issued and never withdrawn, so that records stay records.
LEMMA MoreIssued ==
  ASSUME NEW ts, NEW us, ts \subseteq us, req \in [Slots -> Request(ts)]
  PROVE  req \in [Slots -> Request(us)]
  BY DEF Request

LEMMA TypeUnfolded ==
  AuthTypeOK <=> /\ account \in {"NONE", "ACTIVE", "DELETED"}
                 /\ token \in Rows
                 /\ lapsed \subseteq Issued
                 /\ req \in [Slots -> Request(Issued)]
  BY DEF AuthTypeOK, Rows, Request, Phases

LEMMA NoTokenIsNoRow == NoToken \notin Tokens
  BY TokensAssumption DEF NoToken, Tokens

\* What the helper operators leave in the slot.
LEMMA AnswerAfter ==
  ASSUME NEW ts, req \in [Slots -> Request(ts)], NEW r \in Slots, NEW t \in ts \cup {NoToken},
         Answer(r, t)
  PROVE  /\ req' \in [Slots -> Request(ts)]
         /\ req'[r].answer = t /\ req'[r].phase = "answered"
         /\ req'[r].late = req[r].late /\ req'[r].op = req[r].op
         /\ req'[r].token = req[r].token
         /\ \A s \in Slots \ {r} : req'[s] = req[s]
  BY DEF Answer, Request, Phases

LEMMA ContinueAfter ==
  ASSUME NEW ts, req \in [Slots -> Request(ts)], NEW r \in Slots, NEW p \in Phases,
         Continue(r, p)
  PROVE  /\ req' \in [Slots -> Request(ts)]
         /\ req'[r].answer = req[r].answer /\ req'[r].phase = p
         /\ req'[r].late = req[r].late /\ req'[r].op = req[r].op
         /\ req'[r].token = req[r].token
         /\ \A s \in Slots \ {r} : req'[s] = req[s]
  BY DEF Continue, Request

\* A token that is issued is new, and the others keep their rows.
LEMMA IssueAfter ==
  ASSUME token \in Rows, NEW ts \in SUBSET (Issued \cup {NoToken}), NEW t \in Tokens, Fresh(t),
         token' = [Revoke(ts) EXCEPT ![t] = "LIVE"]
  PROVE  /\ token' \in Rows /\ Issued' = Issued \cup {t}
         /\ \A u \in Tokens : token[u] = "REVOKED" => token'[u] = "REVOKED"
  BY NoTokenIsNoRow DEF Rows, Revoke, Fresh, Issued

LEMMA RevokeAfter ==
  ASSUME token \in Rows, NEW ts \in SUBSET (Issued \cup {NoToken}), token' = Revoke(ts)
  PROVE  /\ token' \in Rows /\ Issued' = Issued
         /\ \A u \in Tokens : token[u] = "REVOKED" => token'[u] = "REVOKED"
  BY NoTokenIsNoRow DEF Rows, Revoke, Issued

-----------------------------------------------------------------------------
(* One step of the token endpoints *)

\* A late request has met the deletion or the revocation at each of its reads.
LateStopped(r) ==
  req[r].late =>
    /\ req[r].answer = NoToken
    /\ \/ account = "DELETED"
       \/ /\ req[r].op = "Refresh" /\ req[r].phase # "exchanging"
          /\ req[r].token \in Tokens /\ token[req[r].token] = "REVOKED"
    /\ req[r].op \in {"Register", "Login"} => req[r].phase # "ready"
    /\ req[r].op = "Refresh" => req[r].phase # "owned"

AuthInv == AuthTypeOK /\ \A r \in Slots : LateStopped(r)

\* What no step undoes: a deleted account and a revoked token stay that way.
Lasting ==
  /\ account = "DELETED" => account' = "DELETED"
  /\ \A t \in Tokens : token[t] = "REVOKED" => token'[t] = "REVOKED"

\* It is enough to look at the slot in which a step is made.
LEMMA OneSlot ==
  ASSUME AuthInv, AuthTypeOK', Lasting, NEW r \in Slots,
         \A s \in Slots \ {r} : req'[s] = req[s], LateStopped(r)'
  PROVE  AuthInv'
  <1>1. ASSUME NEW s \in Slots \ {r} PROVE LateStopped(s)'
    BY <1>1 DEF AuthInv, LateStopped, Lasting
  <1> QED BY <1>1 DEF AuthInv

\* The reads change one slot only.
LEMMA ReadKept ==
  ASSUME AuthInv, NEW r \in Slots, ReadUser(r) \/ ReadToken(r) \/ ReadFamily(r) \/ ReadOwner(r)
  PROVE  AuthInv'
  <1>1. UNCHANGED <<account, token, lapsed>>
    BY DEF ReadUser, ReadToken, ReadFamily, ReadOwner
  <1>2. Lasting /\ UNCHANGED Issued
    BY <1>1 DEF Lasting, Issued
  <1>3. /\ req \in [Slots -> Request(Issued)] /\ token \in Rows /\ NoToken \in Issued \cup {NoToken}
        /\ LateStopped(r)
    BY TypeUnfolded DEF AuthInv
  <1>4. ASSUME req' \in [Slots -> Request(Issued)],
               \A s \in Slots \ {r} : req'[s] = req[s], LateStopped(r)'
        PROVE  AuthInv'
    <2>1. AuthTypeOK'
      BY <1>1, <1>2, <1>4, TypeUnfolded DEF AuthInv, AuthTypeOK, Rows, Request, Phases
    <2> QED BY <1>2, <1>4, <2>1, OneSlot
  <1>5. CASE Answer(r, NoToken)
    <2>1. LateStopped(r)'
      BY <1>1, <1>3, <1>5, AnswerAfter DEF LateStopped
    <2> QED BY <1>3, <1>4, <1>5, <2>1, AnswerAfter
  <1>6. CASE ReadUser(r) /\ Continue(r, "ready")
    <2>1. "ready" \in Phases
      BY DEF Phases
    <2>2. LateStopped(r)'
      <3>1. req[r].op \in {"Register", "Login"} /\ (account # "DELETED" \/ Answer(r, NoToken))
        BY <1>6 DEF ReadUser
      <3>2. CASE account # "DELETED"
        BY <1>1, <1>3, <1>6, <2>1, <3>1, <3>2, ContinueAfter DEF LateStopped
      <3>3. CASE Answer(r, NoToken)
        BY <1>1, <1>3, <3>3, AnswerAfter DEF LateStopped
      <3> QED BY <3>1, <3>2, <3>3
    <2> QED BY <1>3, <1>4, <1>6, <2>1, <2>2, ContinueAfter
  <1>7. CASE ReadToken(r) /\ token[req[r].token] = "REVOKED" /\ Continue(r, "reused")
    <2>1. "reused" \in Phases
      BY DEF Phases
    <2>2. LateStopped(r)'
      BY <1>1, <1>3, <1>7, <2>1, ContinueAfter DEF LateStopped
    <2> QED BY <1>3, <1>4, <1>7, <2>1, <2>2, ContinueAfter
  <1>8. CASE ReadToken(r) /\ token[req[r].token] = "LIVE" /\ Continue(r, "exchanging")
    <2>1. "exchanging" \in Phases
      BY DEF Phases
    <2>2. LateStopped(r)'
      BY <1>1, <1>3, <1>8, <2>1, ContinueAfter DEF LateStopped, ReadToken, Is
    <2> QED BY <1>3, <1>4, <1>8, <2>1, <2>2, ContinueAfter
  <1>9. CASE ReadFamily(r)
    <2>1. Live \subseteq Issued
      BY <1>3 DEF Live, Issued, Rows
    <2>2. /\ req' \in [Slots -> Request(Issued)]
          /\ \A s \in Slots \ {r} : req'[s] = req[s]
          /\ req'[r].op = req[r].op /\ req'[r].token = req[r].token
          /\ req'[r].late = req[r].late /\ req'[r].answer = req[r].answer
          /\ req'[r].phase = "ready"
      BY <1>3, <1>9, <2>1 DEF ReadFamily, Request, Phases
    <2>3. req[r].op \in {"Refresh", "Delete"}
      BY <1>9 DEF ReadFamily, Is
    <2>4. LateStopped(r)'
      BY <1>1, <1>3, <2>2, <2>3 DEF LateStopped
    <2> QED BY <1>4, <2>2, <2>4
  <1>10. CASE ReadOwner(r) /\ account # "DELETED" /\ Continue(r, "owned")
    <2>1. "owned" \in Phases
      BY DEF Phases
    <2>2. LateStopped(r)'
      BY <1>1, <1>3, <1>10, <2>1, ContinueAfter DEF LateStopped, ReadOwner, Is
    <2> QED BY <1>3, <1>4, <1>10, <2>1, <2>2, ContinueAfter
  <1>11. ReadUser(r) => Answer(r, NoToken) \/ Continue(r, "ready")
    BY DEF ReadUser
  <1>12. ReadToken(r) =>
           \/ Answer(r, NoToken)
           \/ token[req[r].token] = "REVOKED" /\ Continue(r, "reused")
           \/ token[req[r].token] = "LIVE" /\ Continue(r, "exchanging")
    BY DEF ReadToken
  <1>13. ReadOwner(r) => Answer(r, NoToken) \/ (account # "DELETED" /\ Continue(r, "owned"))
    BY DEF ReadOwner
  <1> QED BY <1>5, <1>6, <1>7, <1>8, <1>9, <1>10, <1>11, <1>12, <1>13

\* The commits: what they do to account and tokens lasts.
LEMMA CommitKept ==
  ASSUME AuthInv, NEW r \in Slots,
         Register(r) \/ Login(r) \/ Rotate(r) \/ RevokeFamily(r) \/ Logout(r) \/ Delete(r)
  PROVE  AuthInv'
  <1>1. /\ req \in [Slots -> Request(Issued)] /\ token \in Rows /\ LateStopped(r)
        /\ account \in {"NONE", "ACTIVE", "DELETED"} /\ lapsed \subseteq Issued
    BY TypeUnfolded DEF AuthInv
  <1>2. UNCHANGED lapsed
    BY DEF Register, Login, Rotate, RevokeFamily, Logout, Delete
  <1>3. ASSUME NEW t \in Issued' \cup {NoToken}, Answer(r, t), t = NoToken \/ ~req[r].late,
               token' \in Rows, Issued \subseteq Issued', Lasting,
               account' \in {"NONE", "ACTIVE", "DELETED"}
        PROVE  AuthInv'
    <2>1. req \in [Slots -> Request(Issued')]
      BY <1>1, <1>3, MoreIssued
    <2>2. /\ req' \in [Slots -> Request(Issued')]
          /\ req'[r].answer = t /\ req'[r].phase = "answered"
          /\ req'[r].late = req[r].late /\ req'[r].op = req[r].op
          /\ req'[r].token = req[r].token
          /\ \A s \in Slots \ {r} : req'[s] = req[s]
      BY <1>3, <2>1, AnswerAfter
    <2>3. AuthTypeOK'
      BY <1>1, <1>2, <1>3, <2>2 DEF AuthTypeOK, Rows, Request, Phases
    <2>4. LateStopped(r)'
      BY <1>1, <1>3, <2>2 DEF LateStopped, Lasting
    <2> QED BY <1>3, <2>2, <2>3, <2>4, OneSlot
  <1>4. Issued \subseteq Issued /\ {} \subseteq Issued /\ token = Revoke({})
    BY <1>1 DEF Revoke, Rows
  <1>5. ASSUME UNCHANGED <<account, token>>, Answer(r, NoToken) PROVE AuthInv'
    <2>1. UNCHANGED Issued /\ Lasting /\ token' \in Rows
      BY <1>1, <1>5 DEF Issued, Lasting
    <2> QED BY <1>1, <1>3, <1>5, <2>1
  \* A request that reaches the insertion of a token is not late.
  <1>6. ASSUME NEW t \in Tokens, NEW ts \in SUBSET (Issued \cup {NoToken}), Fresh(t), Answer(r, t),
               token' = [Revoke(ts) EXCEPT ![t] = "LIVE"],
               account' = account \/ (account = "NONE" /\ account' = "ACTIVE"),
               \/ req[r].op \in {"Register", "Login"} /\ req[r].phase = "ready"
               \/ req[r].op = "Refresh" /\ req[r].phase = "owned"
        PROVE  AuthInv'
    <2>1. /\ token' \in Rows /\ Issued' = Issued \cup {t}
          /\ \A u \in Tokens : token[u] = "REVOKED" => token'[u] = "REVOKED"
      BY <1>1, <1>6, IssueAfter
    <2>2. Lasting /\ ~req[r].late
      BY <1>1, <1>6, <2>1 DEF Lasting, LateStopped
    <2> QED BY <1>1, <1>3, <1>6, <2>1, <2>2
  <1>7. ASSUME NEW ts \in SUBSET (Issued \cup {NoToken}), token' = Revoke(ts), Answer(r, NoToken),
               account' = account \/ account' = "DELETED"
        PROVE  AuthInv'
    <2>1. /\ token' \in Rows /\ Issued' = Issued
          /\ \A u \in Tokens : token[u] = "REVOKED" => token'[u] = "REVOKED"
      BY <1>1, <1>7, RevokeAfter
    <2>2. Lasting
      BY <1>7, <2>1 DEF Lasting
    <2> QED BY <1>1, <1>3, <1>7, <2>1, <2>2
  <1>8. CASE Register(r)
    <2>1. CASE account = "NONE"
      <3>1. PICK t \in Tokens : /\ Fresh(t) /\ Answer(r, t) /\ account' = "ACTIVE"
                                /\ token' = [token EXCEPT ![t] = "LIVE"]
        BY <1>8, <2>1 DEF Register
      <3> QED BY <1>4, <1>6, <1>8, <2>1, <3>1 DEF Register, Is
    <2>2. CASE account # "NONE"
      BY <1>5, <1>8, <2>2 DEF Register
    <2> QED BY <2>1, <2>2
  <1>9. CASE Login(r)
    <2>1. PICK t \in Tokens : /\ Fresh(t) /\ Answer(r, t)
                              /\ token' = [token EXCEPT ![t] = "LIVE"]
      BY <1>9 DEF Login
    <2> QED BY <1>4, <1>6, <1>9, <2>1 DEF Login, Is
  <1>10. CASE Rotate(r)
    <2>1. PICK t \in Tokens : /\ Fresh(t) /\ Answer(r, t)
                              /\ token' = [Revoke({req[r].token}) EXCEPT ![t] = "LIVE"]
      BY <1>10 DEF Rotate
    <2>2. {req[r].token} \subseteq Issued \cup {NoToken}
      BY <1>1 DEF Request
    <2> QED BY <1>6, <1>10, <2>1, <2>2 DEF Rotate, Is
  <1>11. CASE RevokeFamily(r)
    <2>1. req[r].siblings \subseteq Issued
      BY <1>1 DEF Request
    <2> QED BY <1>7, <1>11, <2>1 DEF RevokeFamily
  <1>12. CASE Logout(r)
    <2>1. {req[r].token} \subseteq Issued \cup {NoToken}
      BY <1>1 DEF Request
    <2> QED BY <1>7, <1>12, <2>1 DEF Logout
  <1>13. CASE Delete(r)
    <2>1. req[r].siblings \subseteq Issued
      BY <1>1 DEF Request
    <2> QED BY <1>7, <1>13, <2>1 DEF Delete
  <1> QED BY <1>8, <1>9, <1>10, <1>11, <1>12, <1>13

\* The clients: a request is sent, its answer taken.
LEMMA ClientKept ==
  ASSUME AuthInv, NEW r \in Slots,
         \/ Take(r)
         \/ \E op \in AuthOps, t \in Tokens \cup {NoToken} : Begin(r, op, t)
  PROVE  AuthInv'
  <1>1. req \in [Slots -> Request(Issued)] /\ account \in {"NONE", "ACTIVE", "DELETED"}
    BY TypeUnfolded DEF AuthInv
  <1>2. UNCHANGED <<account, token, lapsed>>
    BY DEF Take, Begin
  <1>3. Lasting /\ UNCHANGED Issued
    BY <1>2 DEF Lasting, Issued
  <1>4. ASSUME NEW q \in Request(Issued), req' = [req EXCEPT ![r] = q], LateStopped(r)'
        PROVE  AuthInv'
    <2>1. AuthTypeOK'
      BY <1>1, <1>2, <1>3, <1>4, RequestAfter
      DEF AuthInv, AuthTypeOK, Rows, Request, Phases
    <2> QED BY <1>1, <1>3, <1>4, <2>1, OneSlot
  <1>5. CASE Take(r)
    <2>1. Unused \in Request(Issued) /\ ~Unused.late
      BY DEF Unused, Request, Phases, AuthOps
    <2>2. LateStopped(r)'
      BY <1>1, <1>5, <2>1 DEF Take, LateStopped
    <2> QED BY <1>4, <1>5, <2>1, <2>2 DEF Take
  <1>6. ASSUME NEW op \in AuthOps, NEW t \in Tokens \cup {NoToken}, Begin(r, op, t)
        PROVE  AuthInv'
    <2> DEFINE late == account = "DELETED" \/ (op = "Refresh" /\ token[t] = "REVOKED")
               q == [Unused EXCEPT !.op = op, !.phase = "begun", !.token = t, !.late = late]
    <2>1. t \in Issued \cup {NoToken} /\ (op = "Refresh" => t \in Tokens)
      BY <1>6 DEF Begin, Issued
    <2>2. /\ q \in Request(Issued) /\ q.answer = NoToken /\ q.phase = "begun"
          /\ q.op = op /\ q.token = t /\ q.late = late
      BY <2>1 DEF Unused, Request, Phases
    <2>3. req' = [req EXCEPT ![r] = q]
      BY <1>6 DEF Begin
    <2> HIDE DEF q
    <2>4. req'[r] = q
      BY <1>1, <2>3
    <2>5. LateStopped(r)'
      BY <1>2, <2>1, <2>2, <2>4 DEF LateStopped
    <2> QED BY <1>4, <2>2, <2>3, <2>5
  <1> QED BY <1>5, <1>6

LEMMA AuthInvKept ==
  ASSUME AuthInv, [AuthNext]_authVars
  PROVE  AuthInv'
  <1>1. ASSUME NEW r \in Slots, ServeAuth(r) PROVE AuthInv'
    BY <1>1, ReadKept, CommitKept DEF ServeAuth
  <1>2. ASSUME NEW t \in Tokens, Lapse(t) PROVE AuthInv'
    <2>1. UNCHANGED <<account, token, req, Issued>> /\ lapsed' = lapsed \cup {t} /\ t \in Issued
      BY <1>2 DEF Lapse, Issued
    <2> QED BY <2>1 DEF AuthInv, AuthTypeOK, LateStopped
  <1>3. CASE UNCHANGED authVars
    BY <1>3 DEF authVars, AuthInv, AuthTypeOK, LateStopped, Issued
  <1> QED BY <1>1, <1>2, <1>3, ClientKept DEF AuthNext

-----------------------------------------------------------------------------
(* The sessions of the server *)

LEMMA AuthInvHolds == AuthSpec => []AuthInv
<1>1. AuthInit => AuthInv
  <2>1. SUFFICES ASSUME AuthInit PROVE AuthInv
    OBVIOUS
  <2>2. \A r \in Slots : req[r] = Unused
    BY <2>1 DEF AuthInit
  <2>3. Unused \in Request(Issued) /\ ~Unused.late
    BY DEF Unused, Request, Phases, AuthOps
  <2>4. AuthTypeOK
    BY <2>1, <2>3, TypeUnfolded DEF AuthInit, Rows
  <2> QED BY <2>2, <2>3, <2>4 DEF AuthInv, LateStopped
<1>2. AuthInv /\ [AuthNext]_authVars => AuthInv'
  BY AuthInvKept
<1> QED BY <1>1, <1>2, PTL DEF AuthSpec

\* Whatever the application does (its calls, retries, sign-ins and lost
\* answers), the server is asked for nothing that AuthSessions does not know.
THEOREM SessionImplementsAuth == SessionSpec => AuthSpec
<1>1. SessionInit => AuthInit
  BY DEF SessionInit
<1>2. [SessionNext]_sessionVars => [AuthNext]_authVars
  <2> SUFFICES ASSUME [SessionNext]_sessionVars PROVE [AuthNext]_authVars
    OBVIOUS
  <2>1. User \in Slots /\ Calls \subseteq Slots /\ {"Register", "Login", "Refresh", "Logout",
                                                   "Delete"} = AuthOps
    BY CallsAssumption DEF AuthOps
  <2>2. ASSUME NEW r \in Slots, NEW op \in AuthOps, NEW t, Begin(r, op, t) PROVE AuthNext
    <3>1. t \in Tokens \cup {NoToken}
      BY <2>2 DEF Begin, Issued
    <3> QED BY <2>2, <3>1 DEF AuthNext
  <2>3. ASSUME NEW r \in Slots, ServeSession(r) \/ Drop(r) PROVE AuthNext
    BY <2>3 DEF ServeSession, Drop, AuthNext
  <2>4. ASSUME NEW c \in Calls, Send(c) \/ CallStep(c) \/ RefreshLost(c)
        PROVE  AuthNext \/ UNCHANGED authVars
    <3>1. TryRefresh(c) => Begin(c, "Refresh", stored) \/ UNCHANGED authVars
      BY DEF TryRefresh
    <3>2. Refreshed(c) => Take(c)
      BY DEF Refreshed
    <3>3. Send(c) \/ Served(c) \/ RefreshLost(c) => UNCHANGED authVars
      BY DEF Send, Served, RefreshLost
    <3> QED BY <2>1, <2>2, <2>4, <3>1, <3>2, <3>3 DEF CallStep, AuthNext
  <2>5. ASSUME \/ SignIn("Register") \/ SignIn("Login") \/ SignedIn
               \/ SignOut \/ SignedOut \/ DeleteAccount \/ AccountDeleted \/ ScreenLost
        PROVE  AuthNext \/ UNCHANGED authVars
    <3>1. SignIn("Register") => Begin(User, "Register", NoToken)
      BY DEF SignIn
    <3>2. SignIn("Login") => Begin(User, "Login", NoToken)
      BY DEF SignIn
    <3>3. SignOut => Begin(User, "Logout", stored) \/ UNCHANGED authVars
      BY DEF SignOut
    <3>4. DeleteAccount => Begin(User, "Delete", NoToken)
      BY DEF DeleteAccount
    <3>5. SignedIn \/ SignedOut \/ AccountDeleted => Take(User) \/ UNCHANGED authVars
      BY DEF SignedIn, SignedOut, AccountDeleted
    <3>6. ScreenLost => UNCHANGED authVars
      BY DEF ScreenLost
    <3> QED BY <2>1, <2>2, <2>5, <3>1, <3>2, <3>3, <3>4, <3>5, <3>6 DEF AuthNext
  <2>6. ASSUME NEW t \in Tokens, ExpireAccess(t) \/ Lapse(t)
        PROVE  AuthNext \/ UNCHANGED authVars
    BY <2>6 DEF ExpireAccess, AuthNext
  <2>7. CASE UNCHANGED sessionVars
    BY <2>7 DEF sessionVars
  <2> QED BY <2>3, <2>4, <2>5, <2>6, <2>7 DEF SessionNext
<1> QED BY <1>1, <1>2, PTL DEF SessionSpec, AuthSpec

\* The records of the token endpoints keep their types, with the application
\* as their client.
THEOREM AuthTypeCorrect == SessionSpec => []AuthTypeOK
<1>1. AuthInv => AuthTypeOK
  BY DEF AuthInv
<1> QED BY <1>1, AuthInvHolds, SessionImplementsAuth, PTL

\* A refresh with a revoked token, and any request sent after the deletion of
\* the account, obtains no token, whatever it interleaves with: rotate_refresh_token
\* reads the token and then its owner, and neither comes back to life.
THEOREM NothingIssuedLateHolds == SessionSpec => []NothingIssuedLate
<1>1. AuthInv => NothingIssuedLate
  BY DEF AuthInv, LateStopped, NothingIssuedLate
<1> QED BY <1>1, AuthInvHolds, SessionImplementsAuth, PTL

-----------------------------------------------------------------------------
(* The session of the application *)

CallsArray == call = [c \in Calls |-> call[c]]

LEMMA CallAfter ==
  ASSUME CallsArray, NEW c \in Calls, NEW q, call' = [call EXCEPT ![c] = q]
  PROVE  /\ CallsArray'
         /\ \A d \in Calls : call'[d] = IF d = c THEN q ELSE call[d]
  BY DEF CallsArray

LEMMA CallStepKept ==
  ASSUME CallsArray, NEW c \in Calls, Send(c) \/ CallStep(c) \/ RefreshLost(c)
  PROVE  CallsArray' /\ (SignedOff => SignedOff')
  <1>1. \E q : call' = [call EXCEPT ![c] = q]
    BY DEF Send, CallStep, Served, TryRefresh, Refreshed, RefreshLost
  <1>2. CallsArray'
    BY <1>1, CallAfter
  <1>3. ASSUME SignedOff PROVE SignedOff'
    <2>1. call[c].phase # "refreshing" /\ stored = NoToken
      BY <1>3 DEF SignedOff
    <2>2. UNCHANGED <<stored, screen>>
      BY <1>3, <2>1 DEF Send, CallStep, Served, TryRefresh, Refreshed, RefreshLost
    <2>3. call' = [call EXCEPT ![c] = Ready] \/ call' = [call EXCEPT ![c] = Sent(stored)]
      BY <2>1 DEF Send, CallStep, Served, TryRefresh, Refreshed, RefreshLost
    <2>4. Ready.phase # "refreshing" /\ Sent(stored).phase # "refreshing"
      BY DEF Ready, Sent
    <2>5. ASSUME NEW q, q.phase # "refreshing", call' = [call EXCEPT ![c] = q],
                 NEW d \in Calls
          PROVE  call'[d].phase # "refreshing"
      <3>1. call'[d] = IF d = c THEN q ELSE call[d]
        BY <2>5, CallAfter, Zenon
      <3>2. CASE d = c
        BY <2>5, <3>1, <3>2
      <3>3. CASE d # c
        BY <1>3, <3>1, <3>3 DEF SignedOff
      <3> QED BY <3>2, <3>3
    <2> QED BY <1>3, <2>2, <2>3, <2>4, <2>5 DEF SignedOff
  <1> QED BY <1>2, <1>3

LEMMA SignedOffKept ==
  ASSUME CallsArray, [SessionNext]_sessionVars
  PROVE  CallsArray' /\ (SignedOff => SignedOff' \/ screen' = "signing in")
  <1>1. ASSUME NEW r \in Slots, ServeSession(r) \/ Drop(r)
        PROVE  CallsArray' /\ (SignedOff => SignedOff')
    BY <1>1 DEF ServeSession, Drop, appVars, CallsArray, SignedOff
  <1>2. CASE SignIn("Register") \/ SignIn("Login") \/ SignedIn
    BY <1>2 DEF SignIn, SignedIn, CallsArray, SignedOff
  <1>3. CASE SignOut \/ SignedOut \/ DeleteAccount \/ AccountDeleted \/ ScreenLost
    BY <1>3
    DEF SignOut, SignedOut, Clear, DeleteAccount, AccountDeleted, ScreenLost, CallsArray, SignedOff
  <1>4. ASSUME NEW t \in Tokens, ExpireAccess(t) \/ (Lapse(t) /\ UNCHANGED appVars)
        PROVE  CallsArray' /\ (SignedOff => SignedOff')
    BY <1>4 DEF ExpireAccess, appVars, CallsArray, SignedOff
  <1>5. CASE UNCHANGED sessionVars
    BY <1>5 DEF sessionVars, appVars, CallsArray, SignedOff
  <1> QED BY <1>1, <1>2, <1>3, <1>4, <1>5, CallStepKept DEF SessionNext

\* Once nobody is signed in and no refresh is in flight, denied calls bring no
\* session back: onError finds no refresh token in the storage.
THEOREM SignedOffUntilSignInHolds == SessionSpec => SignedOffUntilSignIn
<1>1. SessionInit => CallsArray
  BY DEF SessionInit, CallsArray
<1>2. CallsArray /\ [SessionNext]_sessionVars
        => CallsArray' /\ (SignedOff => SignedOff' \/ screen' = "signing in")
  BY SignedOffKept
<1> QED BY <1>1, <1>2, PTL DEF SessionSpec, SignedOffUntilSignIn

=============================================================================
