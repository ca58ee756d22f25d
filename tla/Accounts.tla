------------------------------ MODULE Accounts ------------------------------
(***************************************************************************)
(* One account: its password, its one-time tokens and its sessions, under  *)
(* requests that overlap.                                                  *)
(*                                                                         *)
(* Nothing is locked. A request works on the snapshot that its first       *)
(* SELECT fixes, takes the time after it, and writes by primary key, so    *)
(* the last COMMIT wins; unique keys stop a second account and a second    *)
(* notification for one token. Times are the whole seconds MySQL keeps.    *)
(*                                                                         *)
(* Source: app/modules/usuarios (AuthService) and app/api/deps.py. The     *)
(* limiter of attempts, asked in a transaction of its own, is RateLimiter. *)
(***************************************************************************)
EXTENDS Integers, FiniteSets

CONSTANTS
  Requests,     \* requests that may be in flight at the same time
  Tokens,       \* rows auth_tokens may get
  Sessions,     \* rows auth_sessions may get
  Passwords,
  SessionLife,  \* ACCESS_TOKEN_EXPIRE_MINUTES
  TokenLife,    \* the life of a one-time token
  MaxClock,     \* bound on the clock
  NULL

Time == 0 .. MaxClock
Purpose == {"PASSWORD_RESET", "EMAIL_VERIFICATION"}
User == [password: Passwords, verified: BOOLEAN, invalidated: Time \cup {NULL}]
AuthToken == [purpose: Purpose, expires: Nat, used: BOOLEAN]
AuthSession == [issued: Time, expires: Nat, revoked: BOOLEAN]

ASSUME AccountsAssumption ==
  /\ SessionLife \in Nat \ {0} /\ TokenLife \in Nat \ {0} /\ MaxClock \in Nat
  /\ IsFiniteSet(Requests) /\ IsFiniteSet(Tokens)
  /\ NULL \notin Passwords /\ NULL \notin Sessions /\ NULL \notin Nat
  /\ NULL \notin User /\ NULL \notin AuthToken /\ NULL \notin AuthSession

VARIABLES
  clock,
  user,      \* the row of users, NULL before the registration
  tokens,    \* auth_tokens
  sessions,  \* auth_sessions
  notices,   \* the tokens that the dedupe keys of the notifications name
  req        \* the requests in flight, with their snapshots

data == <<user, tokens, sessions, notices>>
vars == <<clock, data, req>>

Idle == [op |-> "idle"]
Snapshot == [op: {"open"}, start: Time, via: Sessions \cup {NULL},
             user: User \cup {NULL}, tokens: [Tokens -> AuthToken \cup {NULL}],
             sessions: [Sessions -> AuthSession \cup {NULL}]]
LoggingIn == [op: {"login"}, start: Time]
Registered == [op: {"registered"}, start: Time]

Init ==
  /\ clock = 0
  /\ user = NULL
  /\ tokens = [t \in Tokens |-> NULL]
  /\ sessions = [s \in Sessions |-> NULL]
  /\ notices = {}
  /\ req = [r \in Requests |-> Idle]

Tick == clock < MaxClock /\ clock' = clock + 1 /\ UNCHANGED <<data, req>>

End(r) == req' = [req EXCEPT ![r] = Idle]

\* _authenticate: what a token of a session is accepted for.
Usable(s) ==
  /\ sessions[s] # NULL /\ ~sessions[s].revoked
  /\ clock < sessions[s].expires
  /\ user.invalidated # NULL => user.invalidated < sessions[s].issued

Open(r, via) ==
  /\ req[r] = Idle
  /\ req' = [req EXCEPT ![r] = [op |-> "open", start |-> clock, via |-> via, user |-> user,
                                tokens |-> tokens, sessions |-> sessions]]
  /\ UNCHANGED <<clock, data>>

\* The first SELECT of an endpoint for anyone, after the limiter's COMMIT.
Arrive(r) == Open(r, NULL)

Authenticate(r, s) == user # NULL /\ Usable(s) /\ Open(r, s)

\* A refusal, an error of the database or a crash.
Rollback(r) ==
  /\ req[r] # Idle
  /\ End(r)
  /\ UNCHANGED <<clock, data>>

IsOpen(r) == req[r].op = "open"

\* The request called datetime.now at some time since it began.
Now(r) == req[r].start .. clock

(***************************************************************************)
(* One-time tokens.                                                        *)
(***************************************************************************)
Live(token, purpose) == token # NULL /\ token.purpose = purpose /\ ~token.used

\* The rows it found in its snapshot, as they are now, but used.
InvalidateTokens(r, purpose) ==
  [t \in Tokens |-> IF Live(req[r].tokens[t], purpose)
                    THEN [tokens[t] EXCEPT !.used = TRUE] ELSE tokens[t]]

\* Mutant: a new token leaves the former ones alone.
AddToken(r, t, purpose, now) ==
  /\ tokens[t] = NULL
  /\ tokens' = [tokens EXCEPT ![t] =
                  [purpose |-> purpose, expires |-> now + TokenLife, used |-> FALSE]]

CreateOneTimeToken(r, t, purpose, now) ==
  /\ tokens[t] = NULL
  /\ tokens' = [InvalidateTokens(r, purpose) EXCEPT ![t] =
                  [purpose |-> purpose, expires |-> now + TokenLife, used |-> FALSE]]

FindsToken(r, t, purpose, now) ==
  /\ Live(req[r].tokens[t], purpose)
  /\ now < req[r].tokens[t].expires

(***************************************************************************)
(* Registration: the account in one transaction, its token in the next.    *)
(***************************************************************************)
Register(r, password) ==
  /\ IsOpen(r) /\ req[r].user = NULL
  /\ user = NULL   \* users.email is unique
  /\ user' = [password |-> password, verified |-> FALSE, invalidated |-> NULL]
  /\ req' = [req EXCEPT ![r] = [op |-> "registered", start |-> clock]]
  /\ UNCHANGED <<clock, tokens, sessions, notices>>

IssueEmailVerification(r, t, now) ==
  /\ req[r].op = "registered"
  /\ tokens[t] = NULL
  /\ tokens' = [tokens EXCEPT ![t] = [purpose |-> "EMAIL_VERIFICATION",
                                      expires |-> now + TokenLife, used |-> FALSE]]
  /\ End(r)
  /\ UNCHANGED <<clock, user, sessions, notices>>

VerifyEmail(r, t, now) ==
  /\ IsOpen(r)
  /\ FindsToken(r, t, "EMAIL_VERIFICATION", now)
  /\ tokens' = [tokens EXCEPT ![t].used = TRUE]
  /\ user' = [user EXCEPT !.verified = TRUE]
  /\ End(r)
  /\ UNCHANGED <<clock, sessions, notices>>

(***************************************************************************)
(* Sessions.                                                               *)
(***************************************************************************)
\* The password is right in the snapshot; the COMMIT of the limiter's reset ends it.
Login(r, password) ==
  /\ IsOpen(r) /\ req[r].user # NULL
  /\ password = req[r].user.password
  /\ req' = [req EXCEPT ![r] = [op |-> "login", start |-> clock]]
  /\ UNCHANGED <<clock, data>>

\* Mutant: a login lifts the invalidation of former sessions.
LoginClearsDate(r, s, now) ==
  /\ req[r].op = "login"
  /\ sessions[s] = NULL
  /\ sessions' = [sessions EXCEPT ![s] =
                    [issued |-> now, expires |-> now + SessionLife, revoked |-> FALSE]]
  /\ user' = [user EXCEPT !.invalidated = NULL]
  /\ End(r)
  /\ UNCHANGED <<clock, tokens, notices>>

CreateAccessToken(r, s, now) ==
  /\ req[r].op = "login"
  /\ sessions[s] = NULL
  /\ sessions' = [sessions EXCEPT ![s] =
                    [issued |-> now, expires |-> now + SessionLife, revoked |-> FALSE]]
  /\ End(r)
  /\ UNCHANGED <<clock, user, tokens, notices>>

Revoke(chosen) ==
  [s \in Sessions |-> IF s \in chosen THEN [sessions[s] EXCEPT !.revoked = TRUE]
                      ELSE sessions[s]]

\* Logout.
RevokeSession(r) ==
  /\ IsOpen(r) /\ req[r].via # NULL
  /\ sessions' = Revoke({req[r].via})
  /\ End(r)
  /\ UNCHANGED <<clock, user, tokens, notices>>

(***************************************************************************)
(* A new password ends what was given out under the former one.            *)
(***************************************************************************)
RevokeAllSessions(r, now) ==
  sessions' = Revoke({s \in Sessions : /\ req[r].sessions[s] # NULL
                                       /\ ~req[r].sessions[s].revoked
                                       /\ now < req[r].sessions[s].expires})

\* Mutant: only the session it is asked through ends.
KeepOtherSessions(r, password, now) ==
  /\ user' = [user EXCEPT !.password = password]
  /\ sessions' = Revoke({req[r].via} \ {NULL})

SetPassword(r, password, now) ==
  /\ user' = [user EXCEPT !.password = password, !.invalidated = now]
  /\ RevokeAllSessions(r, now)

ChangePassword(r, current, new, now) ==
  /\ IsOpen(r) /\ req[r].via # NULL
  /\ current = req[r].user.password /\ new # current
  /\ tokens' = InvalidateTokens(r, "PASSWORD_RESET")
  /\ SetPassword(r, new, now)
  /\ End(r)
  /\ UNCHANGED <<clock, notices>>

RequestPasswordReset(r, t, now) ==
  /\ IsOpen(r) /\ req[r].user # NULL
  /\ CreateOneTimeToken(r, t, "PASSWORD_RESET", now)
  /\ End(r)
  /\ UNCHANGED <<clock, user, sessions, notices>>

\* Mutant: each reset has a key of its own.
UnkeyedNotice(t) == notices' = notices \cup {t}

\* The key password_changed:reset:<token> is unique.
KeyedNotice(t) == t \notin notices /\ notices' = notices \cup {t}

ResetPassword(r, t, new, now) ==
  /\ IsOpen(r)
  /\ FindsToken(r, t, "PASSWORD_RESET", now)
  /\ tokens' = InvalidateTokens(r, "PASSWORD_RESET")
  /\ SetPassword(r, new, now)
  /\ KeyedNotice(t)
  /\ End(r)
  /\ UNCHANGED clock

Next ==
  \/ Tick
  \/ \E r \in Requests :
       \/ Arrive(r) \/ Rollback(r) \/ RevokeSession(r)
       \/ \E password \in Passwords : Register(r, password) \/ Login(r, password)
       \/ \E s \in Sessions : Authenticate(r, s)
       \/ /\ req[r] # Idle
          /\ \E now \in Now(r) :
               \/ \E s \in Sessions : CreateAccessToken(r, s, now)
               \/ \E current, new \in Passwords : ChangePassword(r, current, new, now)
               \/ \E t \in Tokens :
                    \/ IssueEmailVerification(r, t, now) \/ VerifyEmail(r, t, now)
                    \/ RequestPasswordReset(r, t, now)
                    \/ \E new \in Passwords : ResetPassword(r, t, new, now)

Spec == Init /\ [][Next]_vars

=============================================================================
