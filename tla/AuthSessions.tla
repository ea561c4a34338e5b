---------------------------- MODULE AuthSessions ----------------------------
(***************************************************************************)
(* The login sessions of one account (services/auth_service.py): refresh   *)
(* tokens are handed out by registration and login, exchanged for a new    *)
(* one by every refresh, and revoked by logout, by account deletion and by *)
(* the second use of an exchanged token.                                   *)
(*                                                                         *)
(* As in JourneySharing a request reads first and commits its writes at    *)
(* the end, on rows that others may have changed in between.  Each slot is *)
(* the connection of one client; its answer stays in it until it is taken. *)
(***************************************************************************)
EXTENDS Naturals, FiniteSets

CONSTANTS
  Slots,         \* connections
  MaxTokens      \* bound on the tokens ever issued

ASSUME TokensAssumption == MaxTokens \in Nat

NoToken == 0
Tokens == 1 .. MaxTokens

VARIABLES
  account,       \* users.status, NONE before the registration
  token,         \* refresh_tokens: NONE, LIVE, REVOKED (revoked_at is set)
  lapsed,        \* tokens whose expires_at has passed
  req            \* the request on each connection

authVars == <<account, token, lapsed, req>>

\* What a request has read (siblings) and its answer: a new token, or none.
\* late is history: the request was sent when its credential was void already.
Unused == [op |-> "Logout", phase |-> "idle", token |-> NoToken, late |-> FALSE,
           siblings |-> {}, answer |-> NoToken]

Issued == {t \in Tokens : token[t] # "NONE"}
Live == {t \in Tokens : token[t] = "LIVE"}

Is(r, op, phase) == req[r].op = op /\ req[r].phase = phase

\* The handler returns with token t, or raises and rolls back (NoToken).
Answer(r, t) ==
  req' = [req EXCEPT ![r] = [@ EXCEPT !.phase = "answered", !.siblings = {}, !.answer = t]]

Continue(r, phase) == req' = [req EXCEPT ![r].phase = phase]

\* _issue_refresh_token generates a token that no row has.
Fresh(t) == /\ token[t] = "NONE"
            /\ \A u \in 1 .. t - 1 : token[u] # "NONE"

-----------------------------------------------------------------------------
(* Requests *)

\* A request is sent, with a refresh token or without; deletion is authenticated
\* by an access token.  Bound: a deleted e-mail address is not registered again,
\* that is another account.
Begin(r, op, t) ==
  /\ req[r].phase = "idle"
  /\ op = "Register" => account # "DELETED"
  /\ IF op \in {"Refresh", "Logout"} THEN t \in Issued ELSE t = NoToken
  /\ op = "Delete" => account = "ACTIVE"
  /\ req' = [req EXCEPT ![r] = [Unused EXCEPT
                !.op = op, !.phase = "begun", !.token = t,
                !.late = account = "DELETED" \/ (op = "Refresh" /\ token[t] = "REVOKED")]]
  /\ UNCHANGED <<account, token, lapsed>>

\* register_user and login look the e-mail address up.
ReadUser(r) ==
  /\ req[r].op \in {"Register", "Login"} /\ req[r].phase = "begun"
  /\ IF account = (IF req[r].op = "Register" THEN "NONE" ELSE "ACTIVE")
     THEN Continue(r, "ready")
     ELSE Answer(r, NoToken)
  /\ UNCHANGED <<account, token, lapsed>>

\* Faulty variant of ReadToken: the second use of a token goes unnoticed.
ReadTokenOnly(r) ==
  /\ Is(r, "Refresh", "begun")
  /\ IF req[r].token \in lapsed THEN Answer(r, NoToken) ELSE Continue(r, "exchanging")
  /\ UNCHANGED <<account, token, lapsed>>

\* rotate_refresh_token looks the token up.
ReadToken(r) ==
  /\ Is(r, "Refresh", "begun")
  /\ \/ token[req[r].token] = "REVOKED" /\ Continue(r, "reused")
     \/ token[req[r].token] = "LIVE" /\ req[r].token \in lapsed /\ Answer(r, NoToken)
     \/ token[req[r].token] = "LIVE" /\ req[r].token \notin lapsed /\ Continue(r, "exchanging")
  /\ UNCHANGED <<account, token, lapsed>>

\* A token is used again: the account's live tokens are read, to be revoked.
ReadFamily(r) ==
  /\ \/ Is(r, "Refresh", "reused")
     \/ Is(r, "Delete", "begun")                    \* revoke_all_sessions
  /\ req' = [req EXCEPT ![r].phase = "ready", ![r].siblings = Live]
  /\ UNCHANGED <<account, token, lapsed>>

\* The owner of the token is read.
ReadOwner(r) ==
  /\ Is(r, "Refresh", "exchanging")
  /\ IF account = "DELETED" THEN Answer(r, NoToken) ELSE Continue(r, "owned")
  /\ UNCHANGED <<account, token, lapsed>>

-----------------------------------------------------------------------------
(* Commits *)

Revoke(ts) == [t \in Tokens |-> IF t \in ts THEN "REVOKED" ELSE token[t]]

\* The unique index on users.email lets one of two registrations commit.
Register(r) ==
  /\ Is(r, "Register", "ready")
  /\ IF account = "NONE"
     THEN \E t \in Tokens : /\ Fresh(t)
                            /\ token' = [token EXCEPT ![t] = "LIVE"]
                            /\ Answer(r, t)
                            /\ account' = "ACTIVE"
     ELSE Answer(r, NoToken) /\ UNCHANGED <<token, account>>
  /\ UNCHANGED lapsed

\* Faulty variant of Login: the new token is handed out but not stored.
LoginUnstored(r) ==
  /\ Is(r, "Login", "ready")
  /\ \E t \in Tokens : Fresh(t) /\ Answer(r, t)
  /\ UNCHANGED <<account, token, lapsed>>

Login(r) ==
  /\ Is(r, "Login", "ready")
  /\ \E t \in Tokens : /\ Fresh(t)
                       /\ token' = [token EXCEPT ![t] = "LIVE"]
                       /\ Answer(r, t)
  /\ UNCHANGED <<account, lapsed>>

\* The token that was read is revoked and a new one issued.
Rotate(r) ==
  /\ Is(r, "Refresh", "owned")
  /\ \E t \in Tokens : /\ Fresh(t)
                       /\ token' = [Revoke({req[r].token}) EXCEPT ![t] = "LIVE"]
                       /\ Answer(r, t)
  /\ UNCHANGED <<account, lapsed>>

\* The explicit commit before the error is raised.
RevokeFamily(r) ==
  /\ Is(r, "Refresh", "ready")
  /\ token' = Revoke(req[r].siblings)
  /\ Answer(r, NoToken)
  /\ UNCHANGED <<account, lapsed>>

\* The look-up and the write of a logout: it revokes the token or finds it revoked.
Logout(r) ==
  /\ Is(r, "Logout", "begun")
  /\ token' = Revoke({req[r].token})
  /\ Answer(r, NoToken)
  /\ UNCHANGED <<account, lapsed>>

Delete(r) ==
  /\ Is(r, "Delete", "ready")
  /\ account' = "DELETED"
  /\ token' = Revoke(req[r].siblings)
  /\ Answer(r, NoToken)
  /\ UNCHANGED lapsed

\* The client takes the answer.
Take(r) ==
  /\ req[r].phase = "answered"
  /\ req' = [req EXCEPT ![r] = Unused]
  /\ UNCHANGED <<account, token, lapsed>>

\* jwt_refresh_expires_days have passed.
Lapse(t) ==
  /\ t \in Issued
  /\ lapsed' = lapsed \cup {t}
  /\ UNCHANGED <<account, token, req>>

-----------------------------------------------------------------------------
(* Specification *)

\* The address is free, or registered with no session left.
AuthInit ==
  /\ account \in {"NONE", "ACTIVE"}
  /\ token = [t \in Tokens |-> "NONE"]
  /\ lapsed = {}
  /\ req = [r \in Slots |-> Unused]

\* What the server does with a request once it has been received.
ServeAuth(r) ==
  \/ ReadUser(r) \/ ReadToken(r) \/ ReadFamily(r) \/ ReadOwner(r)
  \/ Register(r) \/ Login(r) \/ Rotate(r) \/ RevokeFamily(r) \/ Logout(r) \/ Delete(r)

AuthOps == {"Register", "Login", "Refresh", "Logout", "Delete"}

\* Any client may present any token that was ever issued, also twice.
AuthNext ==
  \/ \E r \in Slots : Take(r) \/ ServeAuth(r)
  \/ \E r \in Slots, op \in AuthOps, t \in Tokens \cup {NoToken} : Begin(r, op, t)
  \/ \E t \in Tokens : Lapse(t)

AuthSpec == AuthInit /\ [][AuthNext]_authVars

-----------------------------------------------------------------------------
(* Properties *)

AuthTypeOK ==
  /\ account \in {"NONE", "ACTIVE", "DELETED"}
  /\ token \in [Tokens -> {"NONE", "LIVE", "REVOKED"}]
  /\ lapsed \subseteq Issued
  /\ req \in [Slots -> [op : AuthOps, token : Issued \cup {NoToken}, late : BOOLEAN,
                        phase : {"idle", "begun", "reused", "exchanging", "owned",
                                 "ready", "answered"},
                        siblings : SUBSET Issued, answer : Issued \cup {NoToken}]]

\* A request that was sent after its refresh token had been revoked, or after
\* the account was deleted, obtains nothing, however it interleaves with the
\* exchanges, logins and revocations still in progress.
NothingIssuedLate == \A r \in Slots : req[r].late => req[r].answer = NoToken

\* "Reuse of a rotated token revokes the entire family" (docs/security.md:6):
\* no two refreshes are both answered with a new token for the same old one.
ExchangedOnce ==
  \A r, s \in Slots :
    (/\ r # s /\ req[r].op = "Refresh" /\ req[s].op = "Refresh"
     /\ req[r].answer # NoToken /\ req[s].answer # NoToken)
      => req[r].token # req[s].token

=============================================================================
