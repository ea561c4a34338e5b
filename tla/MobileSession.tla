--------------------------- MODULE MobileSession ----------------------------
(***************************************************************************)
(* The session of the mobile application (core/network/api_client.dart,    *)
(* core/storage/token_storage.dart, features/auth) against AuthSessions.   *)
(*                                                                         *)
(* Any number of API calls are in flight.  One that is answered 401 posts  *)
(* the refresh token found in the storage at that moment; what comes back  *)
(* replaces the stored pair and the call is sent again through the same    *)
(* interceptor, anything else clears the storage.  The user signs in and   *)
(* out meanwhile.  Each call has a connection of its own for its refresh,  *)
(* and the user has one.                                                   *)
(***************************************************************************)
EXTENDS AuthSessions, Integers

CONSTANTS
  Calls,         \* API calls the application may have in flight
  User           \* the connection for what the user does on the auth screens

ASSUME CallsAssumption == User \notin Calls /\ Slots = Calls \cup {User}

VARIABLES
  stored,        \* the token pair in the storage, NoToken: signed out
  expired,       \* the pairs whose access token has expired
  call,          \* each call: its phase and the access token it carries
  screen         \* what the auth screen waits for

appVars == <<stored, expired, call, screen>>
sessionVars == <<authVars, appVars>>

Ready == [phase |-> "ready", access |-> NoToken]

Sent(t) == [phase |-> "sent", access |-> t]

\* saveSession and clear, in memory (what later calls read).
SaveSession(t) == stored' = t
Clear == stored' = NoToken

\* Bound on the clients: what is in flight must find unused tokens left.
Unspent == Cardinality(Tokens \ Issued) - Cardinality(Calls)
Spare == Unspent >= (IF req[User].phase = "idle" THEN 0 ELSE 1)

\* Pairs whose expiry can still be noticed.
Held == ({stored} \cup {call[c].access : c \in Calls}) \ {NoToken}

-----------------------------------------------------------------------------
(* API calls *)

Send(c) ==
  /\ call[c] = Ready
  /\ Spare /\ req[c].phase = "idle"
  /\ call' = [call EXCEPT ![c] = Sent(stored)]
  /\ UNCHANGED <<authVars, stored, expired, screen>>

\* get_requester judges the access token.
Accepted(c) == call[c].access \in Issued \ expired /\ account = "ACTIVE"

Served(c) ==
  /\ call[c].phase = "sent" /\ Accepted(c)
  /\ call' = [call EXCEPT ![c] = Ready]
  /\ UNCHANGED <<authVars, stored, expired, screen>>

\* Faulty variant of TryRefresh: the refresh token sent is the one that belongs to
\* the access token of the call, whatever the storage holds by now.
TryRefreshCarried(c) ==
  /\ call[c].phase = "sent" /\ ~Accepted(c)
  /\ IF call[c].access = NoToken
     THEN call' = [call EXCEPT ![c] = Ready] /\ UNCHANGED authVars
     ELSE /\ Begin(c, "Refresh", call[c].access)
          /\ call' = [call EXCEPT ![c] = [phase |-> "refreshing", access |-> NoToken]]
  /\ UNCHANGED <<stored, expired, screen>>

\* The call comes back with a 401 and onError reads the refresh token: it is
\* posted, or the error passed on.  (A token once denied is denied ever after,
\* so that nothing is lost by judging it when the 401 arrives.)
TryRefresh(c) ==
  /\ call[c].phase = "sent" /\ ~Accepted(c)
  /\ IF stored = NoToken
     THEN call' = [call EXCEPT ![c] = Ready] /\ UNCHANGED authVars
     ELSE /\ Begin(c, "Refresh", stored)
          /\ call' = [call EXCEPT ![c] = [phase |-> "refreshing", access |-> NoToken]]
  /\ UNCHANGED <<stored, expired, screen>>

\* Faulty variant of Refreshed: a refused refresh passes no error on.
RefreshedOnly(c) ==
  /\ call[c].phase = "refreshing"
  /\ Take(c)
  /\ IF req[c].answer # NoToken
     THEN SaveSession(req[c].answer) /\ call' = [call EXCEPT ![c] = Sent(req[c].answer)]
     ELSE Clear /\ UNCHANGED call
  /\ UNCHANGED <<expired, screen>>

\* The answer arrives: the pair is saved and the call retried, or all is cleared.
Refreshed(c) ==
  /\ call[c].phase = "refreshing"
  /\ Take(c)
  /\ IF req[c].answer # NoToken
     THEN SaveSession(req[c].answer) /\ call' = [call EXCEPT ![c] = Sent(req[c].answer)]
     ELSE Clear /\ call' = [call EXCEPT ![c] = Ready]
  /\ UNCHANGED <<expired, screen>>

\* No answer arrives, whether or not the request was served.
RefreshLost(c) ==
  /\ call[c].phase = "refreshing"
  /\ Clear
  /\ call' = [call EXCEPT ![c] = Ready]
  /\ UNCHANGED <<authVars, expired, screen>>

\* The answer to a connection nobody waits on any more is dropped.
Drop(r) ==
  /\ IF r = User THEN screen \in {"closed", "deleted"} ELSE call[r].phase # "refreshing"
  /\ Take(r)
  /\ UNCHANGED appVars

-----------------------------------------------------------------------------
(* The auth and profile screens *)

SignIn(op) ==
  /\ screen = "closed" /\ stored = NoToken
  /\ Unspent >= 1
  /\ Begin(User, op, NoToken)
  /\ screen' = "signing in"
  /\ UNCHANGED <<stored, expired, call>>

\* register and login save the pair, unless the request was refused.
SignedIn ==
  /\ screen = "signing in"
  /\ Take(User)
  /\ IF req[User].answer # NoToken THEN SaveSession(req[User].answer) ELSE UNCHANGED stored
  /\ screen' = "closed"
  /\ UNCHANGED <<expired, call>>

\* logout: asked for by the user, or what follows a deleted account.
SignOut ==
  /\ (screen = "closed" /\ stored # NoToken) \/ screen = "deleted"
  /\ IF stored # NoToken
     THEN Begin(User, "Logout", stored) /\ screen' = "signing out"
     ELSE UNCHANGED authVars /\ screen' = "closed"
  /\ UNCHANGED <<stored, expired, call>>

\* The local logout proceeds whatever became of the request.
SignedOut ==
  /\ screen = "signing out"
  /\ Take(User) \/ UNCHANGED authVars
  /\ Clear
  /\ screen' = "closed"
  /\ UNCHANGED <<expired, call>>

\* _deleteAccount: DELETE /me with the stored access token, and then logout.
DeleteAccount ==
  /\ screen = "closed" /\ stored # NoToken /\ stored \notin expired
  /\ Begin(User, "Delete", NoToken)
  /\ screen' = "deleting"
  /\ UNCHANGED <<stored, expired, call>>

AccountDeleted ==
  /\ screen = "deleting"
  /\ Take(User)
  /\ screen' = "deleted"
  /\ UNCHANGED <<stored, expired, call>>

\* The request of a screen fails on the network; it may have been served.
ScreenLost ==
  /\ screen \in {"signing in", "deleting"}
  /\ screen' = "closed"
  /\ UNCHANGED <<authVars, stored, expired, call>>

\* jwt_access_expires_minutes have passed.
ExpireAccess(t) ==
  /\ t \in Held \ expired /\ Spare
  /\ expired' = expired \cup {t}
  /\ UNCHANGED <<authVars, stored, call, screen>>

-----------------------------------------------------------------------------
(* Specification *)

SessionInit ==
  /\ AuthInit
  /\ stored = NoToken
  /\ expired = {}
  /\ call = [c \in Calls |-> Ready]
  /\ screen = "closed"

ServeSession(r) == ServeAuth(r) /\ UNCHANGED appVars

CallStep(c) == Served(c) \/ TryRefresh(c) \/ Refreshed(c)

SessionNext ==
  \/ \E r \in Slots : ServeSession(r) \/ Drop(r)
  \/ \E c \in Calls : Send(c) \/ CallStep(c) \/ RefreshLost(c)
  \/ SignIn("Register") \/ SignIn("Login") \/ SignedIn
  \/ SignOut \/ SignedOut \/ DeleteAccount \/ AccountDeleted \/ ScreenLost
  \/ \E t \in Tokens : ExpireAccess(t) \/ (t = stored /\ Lapse(t) /\ UNCHANGED appVars)

\* The server serves what it has received, and the application handles what it
\* is answered.  The user, the network's failures and time owe nothing.
SessionSpec ==
  /\ SessionInit /\ [][SessionNext]_sessionVars
  /\ \A r \in Slots : WF_sessionVars(ServeSession(r)) /\ WF_sessionVars(Drop(r))
  /\ \A c \in Calls : WF_sessionVars(CallStep(c))

-----------------------------------------------------------------------------
(* Properties *)

\* Nobody is signed in, nobody signs in, and no refresh is in flight.
SignedOff ==
  /\ stored = NoToken /\ screen # "signing in"
  /\ \A c \in Calls : call[c].phase # "refreshing"

\* A session comes back after a logout only through a refresh that was in flight
\* at the logout: once nobody is signed in and none is, the calls still
\* unanswered bring no session back when they are denied; a sign-in must follow.
SignedOffUntilSignIn == [][SignedOff => SignedOff' \/ screen' = "signing in"]_sessionVars

\* Every API call ends, answered or with an error: the retry goes through the
\* interceptor again, but a pair that was just issued or a cleared storage
\* ends the chain.
CallsSettle == \A c \in Calls : call[c] # Ready ~> call[c] = Ready

=============================================================================
