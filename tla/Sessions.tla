------------------------------ MODULE Sessions ------------------------------
(***************************************************************************)
(* Users and refresh tokens: authLogin and authRefresh                      *)
(* (internal/api/server.go), the two user stores (internal/auth), and       *)
(* seedAdminUser (cmd/server/main.go).                                      *)
(*                                                                         *)
(* Both stores keep refresh tokens in memory and users where they can, so a *)
(* restart ends every session.  A refresh uses up its token in one critical *)
(* section and issues the next one in another; requests with the same token *)
(* may run at the same time.  Access tokens are signed, not stored, and are *)
(* good until they expire.                                                  *)
(***************************************************************************)
EXTENDS Naturals, FiniteSets

CONSTANTS
  Tokens,       \* what randomHex gives: never the same value twice
  Refreshers,   \* authRefresh requests in progress at once
  Admin,        \* the user of seedAdminUser
  NoToken, NoUser

ASSUME SessionsAssumption ==
  NoToken \notin Tokens /\ NoUser # Admin /\ Tokens \cap Refreshers = {}

VARIABLES
  durable,     \* the users are in SQLite
  users,       \* users in the store
  live,        \* refreshTokens: token -> its user, or NoUser
  expired,     \* tokens whose time is over
  refresh,     \* request -> [user, root], NoUser when there is none
  spent,       \* tokens issued so far
  root         \* history: token -> the token of the login that it stems from

sessionVars == <<durable, users, live, expired, refresh, spent, root>>

NoRefresh == [user |-> NoUser, root |-> NoToken]

SessionsInit ==
  /\ durable \in BOOLEAN
  /\ users = {} /\ expired = {} /\ spent = {}
  /\ live = [t \in Tokens |-> NoUser]
  /\ refresh = [r \in Refreshers |-> NoRefresh]
  /\ root = [t \in Tokens |-> NoToken]

\* CreateUser refuses a user that is there; main goes on.
SeedAdminUser ==
  /\ Admin \notin users
  /\ users' = users \cup {Admin}
  /\ UNCHANGED <<durable, live, expired, refresh, spent, root>>

\* IssueRefreshToken for user u, in the session that began with token r.
IssueRefreshToken(t, u, r) ==
  /\ t \notin spent
  /\ spent' = spent \cup {t}
  /\ live' = [live EXCEPT ![t] = u]
  /\ root' = [root EXCEPT ![t] = r]

\* The password is right; otherwise nothing changes.
authLogin(t) ==
  /\ Admin \in users
  /\ IssueRefreshToken(t, Admin, t)
  /\ UNCHANGED <<durable, users, expired, refresh>>

Expire(t) ==
  /\ t \in spent /\ t \notin expired
  /\ expired' = expired \cup {t}
  /\ UNCHANGED <<durable, users, live, refresh, spent, root>>

\* Mutant: the token is used up only when its time is over.
ValidateRefreshToken_Keep(r, t) ==
  /\ refresh[r] = NoRefresh /\ t \in spent
  /\ refresh' = [refresh EXCEPT ![r] =
       IF live[t] = NoUser \/ t \in expired THEN NoRefresh
       ELSE [user |-> live[t], root |-> root[t]]]
  /\ live' = IF t \in expired THEN [live EXCEPT ![t] = NoUser] ELSE live
  /\ UNCHANGED <<durable, users, expired, spent, root>>

\* The token is deleted whether it is good or not.
ValidateRefreshToken(r, t) ==
  /\ refresh[r] = NoRefresh /\ t \in spent
  /\ live' = [live EXCEPT ![t] = NoUser]
  /\ refresh' = [refresh EXCEPT ![r] =
       IF live[t] = NoUser \/ t \in expired THEN NoRefresh
       ELSE [user |-> live[t], root |-> root[t]]]
  /\ UNCHANGED <<durable, users, expired, spent, root>>

\* The second half of authRefresh: the user gets a new token.  The user is there,
\* since nothing deletes users while the process runs.
FinishRefresh(r, t) ==
  /\ refresh[r].user \in users
  /\ IssueRefreshToken(t, refresh[r].user, refresh[r].root)
  /\ refresh' = [refresh EXCEPT ![r] = NoRefresh]
  /\ UNCHANGED <<durable, users, expired>>

\* The process ends and starts again: requests and tokens are gone.
Restart ==
  /\ live' = [t \in Tokens |-> NoUser]
  /\ refresh' = [r \in Refreshers |-> NoRefresh]
  /\ users' = IF durable THEN users ELSE {}
  /\ UNCHANGED <<durable, expired, spent, root>>

SessionsNext ==
  \/ SeedAdminUser \/ Restart
  \/ \E t \in Tokens : authLogin(t) \/ Expire(t)
  \/ \E r \in Refreshers, t \in Tokens : ValidateRefreshToken(r, t) \/ FinishRefresh(r, t)

SessionsSpec == SessionsInit /\ [][SessionsNext]_sessionVars

-----------------------------------------------------------------------------
(***************************************************************************)
(* Properties.                                                              *)
(***************************************************************************)
\* Type invariant of the sessions.
SessionsTypeOK ==
  /\ durable \in BOOLEAN /\ users \subseteq {Admin}
  /\ live \in [Tokens -> {Admin, NoUser}]
  /\ expired \subseteq Tokens /\ spent \subseteq Tokens
  /\ refresh \in [Refreshers -> [user : {Admin, NoUser}, root : Tokens \cup {NoToken}]]
  /\ root \in [Tokens -> Tokens \cup {NoToken}]

\* Who can go on with the session that began with token s: the live tokens of
\* the session, and the refreshes that used one up.
Holders(s) ==
  {t \in Tokens : live[t] # NoUser /\ root[t] = s}
    \cup {r \in Refreshers : refresh[r] # NoRefresh /\ refresh[r].root = s}

\* A session never forks: at most one refresh token of a login is good, or is
\* being exchanged, however many requests come with the same token and whatever
\* expires or restarts between the two halves of an exchange
\* (internal/auth/store.go:81-92 "Rotate: delete old token, caller will issue a
\* new one").
SessionsNeverFork ==
  \A s \in Tokens : \A x, y \in Holders(s) : x = y
=============================================================================
