---------------------------- MODULE AccountProofs ----------------------------
(***************************************************************************)
(* Theorems about Accounts, for any requests, tokens, sessions and lives,  *)
(* and about RateLimiter, for any logins, limits and times.                *)
(***************************************************************************)
EXTENDS AccountProperties, RateLimiterProperties, FiniteSetTheorems,
        NaturalsInduction, WellFoundedInduction, TLAPS

Others(r) == \A q \in Requests : q # r => req'[q] = req[q]

LEMMA OpenType ==
  ASSUME TypeOK, NEW r \in Requests, IsOpen(r)
  PROVE  req[r] \in Snapshot
BY DEF TypeOK, IsOpen, Idle, Snapshot, LoggingIn, Registered

\* Writing one request.
LEMMA WriteGoes ==
  ASSUME TypeOK, NEW r \in Requests,
         NEW state \in {Idle} \cup Snapshot \cup LoggingIn \cup Registered,
         req' = [req EXCEPT ![r] = state]
  PROVE  /\ Others(r) /\ req'[r] = state
         /\ req' \in [Requests -> {Idle} \cup Snapshot \cup LoggingIn \cup Registered]
BY DEF TypeOK, Others

LEMMA EndGoes ==
  ASSUME TypeOK, NEW r \in Requests, End(r)
  PROVE  /\ Others(r) /\ req'[r] = Idle
         /\ req' \in [Requests -> {Idle} \cup Snapshot \cup LoggingIn \cup Registered]
BY WriteGoes DEF End

\* A moment of a request in flight.
LEMMA NowType ==
  ASSUME TypeOK, NEW r \in Requests, req[r] # Idle, NEW now \in Now(r)
  PROVE  now \in Time /\ req[r].start \in Time /\ req[r].start <= now /\ now <= clock
<1>1. req[r].start \in Time BY DEF TypeOK, Snapshot, LoggingIn, Registered
<1> QED BY <1>1, AccountsAssumption DEF TypeOK, Now, Time

(***************************************************************************)
(* The tables only grow: a row stays, with its purpose or its times, and   *)
(* what is used or revoked stays so.                                       *)
(***************************************************************************)
TokensGrow(new) == \A t \in Tokens : tokens[t] # NULL =>
  /\ new[t] # NULL /\ new[t].purpose = tokens[t].purpose
  /\ tokens[t].used => new[t].used

SessionsGrow(new) == \A s \in Sessions : sessions[s] # NULL =>
  /\ new[s] # NULL /\ new[s].issued = sessions[s].issued /\ new[s].expires = sessions[s].expires
  /\ sessions[s].revoked => new[s].revoked

Grows ==
  /\ user # NULL => user' # NULL
  /\ TokensGrow(tokens') /\ SessionsGrow(sessions')
  /\ clock <= clock'

\* What a request has seen is still there.
Knows(r) ==
  /\ req[r].user # NULL => user # NULL
  /\ req[r].user # NULL /\ req[r].user.invalidated # NULL => req[r].user.invalidated <= req[r].start
  /\ \A t \in Tokens : req[r].tokens[t] # NULL =>
       /\ req[r].user # NULL
       /\ tokens[t] # NULL /\ tokens[t].purpose = req[r].tokens[t].purpose
       /\ req[r].tokens[t].used => tokens[t].used
  /\ \A s \in Sessions : req[r].sessions[s] # NULL =>
       /\ sessions[s] # NULL /\ sessions[s].expires = req[r].sessions[s].expires
       /\ req[r].sessions[s].revoked => sessions[s].revoked
  /\ req[r].via # NULL => req[r].user # NULL /\ req[r].sessions[req[r].via] # NULL

Sound(r) == req[r] # Idle =>
  /\ req[r].start <= clock
  /\ req[r].op \in {"login", "registered"} => user # NULL
  /\ IsOpen(r) => Knows(r)

Owned ==
  /\ \A t \in Tokens : tokens[t] # NULL => user # NULL
  /\ \A s \in Sessions : sessions[s] # NULL => user # NULL
  /\ user # NULL /\ user.invalidated # NULL => user.invalidated <= clock

Inv == TypeOK /\ Owned /\ \A r \in Requests : Sound(r)

LEMMA InvInit == Init => Inv
BY AccountsAssumption DEF Init, Inv, TypeOK, Owned, Sound, Time

LEMMA SoundKept ==
  ASSUME Inv, Grows, NEW r \in Requests, req'[r] = req[r], clock' \in Time
  PROVE  Sound(r)'
<1>1. CASE req[r] = Idle BY <1>1 DEF Sound
<1>2. CASE req[r] # Idle
  <2>1. req[r].start \in Time BY <1>2 DEF Inv, TypeOK, Snapshot, LoggingIn, Registered
  <2>2. req[r].start <= clock' BY <1>2, <2>1, AccountsAssumption DEF Inv, Sound, Grows, TypeOK, Time
  <2>3. IsOpen(r)' => Knows(r)'
    <3> SUFFICES ASSUME IsOpen(r) PROVE Knows(r)' BY DEF IsOpen
    <3>1. Knows(r) /\ req[r] \in Snapshot BY <1>2, OpenType DEF Inv, Sound
    <3> QED BY <3>1 DEF Knows, Grows, TokensGrow, SessionsGrow, Snapshot
  <2> QED BY <1>2, <2>2, <2>3 DEF Inv, Sound, Grows
<1> QED BY <1>1, <1>2

\* Steps of one request that leave it without a snapshot.
LEMMA LeaveStep ==
  ASSUME Inv, NEW r \in Requests, Others(r), TypeOK', Owned', Grows,
         req'[r] # Idle => /\ req'[r].op # "open" /\ req'[r].start <= clock'
                           /\ user' # NULL
  PROVE  Inv'
<1>1. \A q \in Requests : q # r => Sound(q)' BY SoundKept DEF Others, TypeOK
<1>2. Sound(r)' BY DEF Sound, IsOpen
<1> QED BY <1>1, <1>2 DEF Inv

LEMMA SameTables ==
  ASSUME Inv, UNCHANGED data, clock' \in Time, clock <= clock'
  PROVE  Grows /\ Owned'
BY AccountsAssumption DEF Inv, TypeOK, Grows, TokensGrow, SessionsGrow, Owned, data, User, Time

(***************************************************************************)
(* What each write of a table does.                                        *)
(***************************************************************************)
\* A token that is there, used.
LEMMA UseToken ==
  ASSUME NEW token \in AuthToken
  PROVE  LET used == [token EXCEPT !.used = TRUE]
         IN  used \in AuthToken /\ used.purpose = token.purpose /\ used.used
BY DEF AuthToken

LEMMA RevokedSession ==
  ASSUME NEW session \in AuthSession
  PROVE  LET revoked == [session EXCEPT !.revoked = TRUE]
         IN  /\ revoked \in AuthSession /\ revoked.revoked
             /\ revoked.issued = session.issued /\ revoked.expires = session.expires
BY DEF AuthSession

LEMMA KnownToken ==
  ASSUME Inv, NEW r \in Requests, IsOpen(r), NEW t \in Tokens, req[r].tokens[t] # NULL
  PROVE  tokens[t] \in AuthToken /\ tokens[t].purpose = req[r].tokens[t].purpose /\ user # NULL
BY DEF Inv, Sound, IsOpen, Idle, Knows, TypeOK, Owned

LEMMA InvalidateGoes ==
  ASSUME Inv, NEW r \in Requests, IsOpen(r), NEW purpose
  PROVE  /\ InvalidateTokens(r, purpose) \in [Tokens -> AuthToken \cup {NULL}]
         /\ TokensGrow(InvalidateTokens(r, purpose))
         /\ \A t \in Tokens : /\ Live(req[r].tokens[t], purpose)
                                   => InvalidateTokens(r, purpose)[t].used
                              /\ ~Live(req[r].tokens[t], purpose)
                                   => InvalidateTokens(r, purpose)[t] = tokens[t]
                              /\ InvalidateTokens(r, purpose)[t] # NULL => tokens[t] # NULL
<1> DEFINE new == InvalidateTokens(r, purpose)
<1>1. \A t \in Tokens : Live(req[r].tokens[t], purpose) =>
        /\ new[t] \in AuthToken /\ new[t].used
        /\ new[t].purpose = tokens[t].purpose /\ tokens[t] # NULL
  <2> SUFFICES ASSUME NEW t \in Tokens, Live(req[r].tokens[t], purpose)
               PROVE  /\ new[t] \in AuthToken /\ new[t].used
                      /\ new[t].purpose = tokens[t].purpose /\ tokens[t] # NULL
    OBVIOUS
  <2>1. tokens[t] \in AuthToken BY KnownToken DEF Live
  <2>2. new[t] = [tokens[t] EXCEPT !.used = TRUE] BY DEF InvalidateTokens
  <2> QED BY <2>1, <2>2, UseToken, AccountsAssumption
<1>2. \A t \in Tokens : ~Live(req[r].tokens[t], purpose) => new[t] = tokens[t]
  BY DEF InvalidateTokens
<1>3. new = [t \in Tokens |-> new[t]] BY DEF InvalidateTokens
<1>4. tokens \in [Tokens -> AuthToken \cup {NULL}] BY DEF Inv, TypeOK
<1> HIDE DEF new
<1>5. \A t \in Tokens : new[t] \in AuthToken \cup {NULL} BY <1>1, <1>2, <1>4
<1>6. new \in [Tokens -> AuthToken \cup {NULL}] BY <1>3, <1>5, Zenon
<1>7. TokensGrow(new) BY <1>1, <1>2, AccountsAssumption DEF TokensGrow
<1> QED BY <1>1, <1>2, <1>6, <1>7 DEF new

LEMMA RevokeGoes ==
  ASSUME Inv, NEW chosen, \A s \in Sessions \cap chosen : sessions[s] # NULL
  PROVE  /\ Revoke(chosen) \in [Sessions -> AuthSession \cup {NULL}]
         /\ SessionsGrow(Revoke(chosen))
         /\ \A s \in Sessions : /\ s \in chosen => Revoke(chosen)[s].revoked
                                /\ s \notin chosen => Revoke(chosen)[s] = sessions[s]
                                /\ Revoke(chosen)[s] # NULL => sessions[s] # NULL
<1> DEFINE new == Revoke(chosen)
<1>1. sessions \in [Sessions -> AuthSession \cup {NULL}] BY DEF Inv, TypeOK
<1>2. \A s \in Sessions : s \in chosen =>
        /\ new[s] \in AuthSession /\ new[s].revoked /\ sessions[s] # NULL
        /\ new[s].issued = sessions[s].issued /\ new[s].expires = sessions[s].expires
  <2> SUFFICES ASSUME NEW s \in Sessions, s \in chosen
               PROVE  /\ new[s] \in AuthSession /\ new[s].revoked /\ sessions[s] # NULL
                      /\ new[s].issued = sessions[s].issued /\ new[s].expires = sessions[s].expires
    OBVIOUS
  <2>1. sessions[s] \in AuthSession BY <1>1
  <2>2. new[s] = [sessions[s] EXCEPT !.revoked = TRUE] BY DEF Revoke
  <2> QED BY <2>1, <2>2, RevokedSession
<1>3. \A s \in Sessions : s \notin chosen => new[s] = sessions[s] BY DEF Revoke
<1>4. new = [s \in Sessions |-> new[s]] BY DEF Revoke
<1> HIDE DEF new
<1>5. \A s \in Sessions : new[s] \in AuthSession \cup {NULL} BY <1>1, <1>2, <1>3
<1>6. new \in [Sessions -> AuthSession \cup {NULL}] BY <1>4, <1>5, Zenon
<1>7. SessionsGrow(new) BY <1>2, <1>3, AccountsAssumption DEF SessionsGrow
<1> QED BY <1>2, <1>3, <1>6, <1>7 DEF new

\* A row at a free place of a table.
LEMMA NewTokenGoes ==
  ASSUME Inv, NEW base \in [Tokens -> AuthToken \cup {NULL}], TokensGrow(base),
         NEW t \in Tokens, tokens[t] = NULL, NEW token \in AuthToken,
         NEW new, new = [base EXCEPT ![t] = token]
  PROVE  /\ new \in [Tokens -> AuthToken \cup {NULL}] /\ TokensGrow(new)
         /\ new[t] = token /\ \A u \in Tokens \ {t} : new[u] = base[u]
BY DEF TokensGrow

LEMMA NewTokenType ==
  ASSUME NEW now \in Time, NEW purpose \in Purpose
  PROVE  [purpose |-> purpose, expires |-> now + TokenLife, used |-> FALSE] \in AuthToken
<1>1. now + TokenLife \in Nat BY AccountsAssumption DEF Time
<1> QED BY <1>1 DEF AuthToken

LEMMA SameGrows ==
  /\ UNCHANGED tokens => TokensGrow(tokens')
  /\ UNCHANGED sessions => SessionsGrow(sessions')
BY DEF TokensGrow, SessionsGrow

(***************************************************************************)
(* Every step keeps the invariant.                                         *)
(***************************************************************************)
LEMMA TickStep == ASSUME Inv, Tick PROVE Inv'
<1>1. clock' \in Time /\ clock <= clock' BY AccountsAssumption DEF Inv, TypeOK, Tick, Time
<1>2. Grows /\ Owned' BY <1>1, SameTables DEF Tick
<1>3. TypeOK' BY <1>1 DEF Inv, TypeOK, Tick, data
<1>4. \A r \in Requests : Sound(r)' BY <1>1, <1>2, SoundKept DEF Tick
<1> QED BY <1>2, <1>3, <1>4 DEF Inv

LEMMA OpenGoes ==
  ASSUME Inv, NEW r \in Requests, NEW via \in Sessions \cup {NULL}, Open(r, via)
  PROVE  /\ Others(r) /\ TypeOK' /\ req'[r] \in Snapshot
         /\ req'[r].start = clock /\ req'[r].via = via /\ req'[r].user = user
         /\ req'[r].tokens = tokens /\ req'[r].sessions = sessions
<1> DEFINE state == [op |-> "open", start |-> clock, via |-> via, user |-> user,
                     tokens |-> tokens, sessions |-> sessions]
<1>1. state \in Snapshot BY DEF Inv, TypeOK, Snapshot
<1>2. /\ state.start = clock /\ state.via = via /\ state.user = user
      /\ state.tokens = tokens /\ state.sessions = sessions
  OBVIOUS
<1>3. req' = [req EXCEPT ![r] = state] BY DEF Open
<1> HIDE DEF state
<1>4. Others(r) /\ req'[r] = state
      /\ req' \in [Requests -> {Idle} \cup Snapshot \cup LoggingIn \cup Registered]
  BY <1>1, <1>3, WriteGoes DEF Inv
<1> QED BY <1>1, <1>2, <1>4 DEF Inv, TypeOK, Open, data

LEMMA OpenStep ==
  ASSUME Inv, NEW r \in Requests, NEW via \in Sessions \cup {NULL}, Open(r, via),
         via # NULL => sessions[via] # NULL
  PROVE  Inv'
<1>1. UNCHANGED <<clock, data>> BY DEF Open
<1>2. clock \in Time /\ clock <= clock' /\ clock' \in Time
  BY <1>1, AccountsAssumption DEF Inv, TypeOK, Time
<1>3. Grows /\ Owned' BY <1>1, <1>2, SameTables
<1>4. /\ Others(r) /\ TypeOK' /\ req'[r] \in Snapshot
      /\ req'[r].start = clock /\ req'[r].via = via /\ req'[r].user = user
      /\ req'[r].tokens = tokens /\ req'[r].sessions = sessions
  BY OpenGoes
<1>5. \A q \in Requests : q # r => Sound(q)' BY <1>2, <1>3, <1>4, SoundKept DEF Others
<1>6. Sound(r)'
  <2>1. req'[r].op = "open" BY <1>4 DEF Snapshot
  <2>2. Knows(r)'
    <3>1. via # NULL => user # NULL BY DEF Inv, Owned
    <3>2. user # NULL /\ user.invalidated # NULL => user.invalidated <= clock BY DEF Inv, Owned
    <3>3. \A t \in Tokens : tokens[t] # NULL => user # NULL BY DEF Inv, Owned
    <3> QED BY <1>1, <1>4, <3>1, <3>2, <3>3 DEF Knows, data
  <2> QED BY <1>1, <1>2, <1>4, <2>1, <2>2 DEF Sound
<1> QED BY <1>3, <1>4, <1>5, <1>6 DEF Inv

LEMMA RollbackStep == ASSUME Inv, NEW r \in Requests, Rollback(r) PROVE Inv'
<1>1. UNCHANGED <<clock, data>> /\ End(r) BY DEF Rollback
<1>2. clock' \in Time /\ clock <= clock' BY <1>1, AccountsAssumption DEF Inv, TypeOK, Time
<1>3. Grows /\ Owned' BY <1>1, <1>2, SameTables
<1>4. Others(r) /\ req'[r] = Idle /\ TypeOK' BY <1>1, EndGoes DEF Inv, TypeOK, data
<1> QED BY <1>3, <1>4, LeaveStep

LEMMA RegisterGoes ==
  ASSUME Inv, NEW r \in Requests, NEW password \in Passwords, Register(r, password)
  PROVE  /\ Others(r) /\ TypeOK' /\ user = NULL /\ user' # NULL /\ user'.invalidated = NULL
         /\ req'[r] # Idle /\ req'[r].op = "registered" /\ req'[r].start = clock
<1> DEFINE account == [password |-> password, verified |-> FALSE, invalidated |-> NULL]
           state == [op |-> "registered", start |-> clock]
<1>1. account \in User BY DEF User
<1>2. account # NULL BY <1>1, AccountsAssumption
<1>3. state \in Registered BY DEF Inv, TypeOK, Registered
<1>4. state.op = "registered" /\ state.start = clock OBVIOUS
<1>5. state # Idle BY DEF Idle
<1>6. user' = account /\ req' = [req EXCEPT ![r] = state] BY DEF Register
<1>7. account.invalidated = NULL OBVIOUS
<1> HIDE DEF account, state
<1>8. Others(r) /\ req'[r] = state
      /\ req' \in [Requests -> {Idle} \cup Snapshot \cup LoggingIn \cup Registered]
  BY <1>3, <1>6, WriteGoes DEF Inv
<1> QED BY <1>1, <1>2, <1>4, <1>5, <1>6, <1>7, <1>8 DEF Inv, TypeOK, Register

LEMMA RegisterStep ==
  ASSUME Inv, NEW r \in Requests, NEW password \in Passwords, Register(r, password)
  PROVE  Inv'
<1>1. UNCHANGED <<clock, tokens, sessions>> BY DEF Register
<1>2. /\ Others(r) /\ TypeOK' /\ user = NULL /\ user' # NULL /\ user'.invalidated = NULL
      /\ req'[r] # Idle /\ req'[r].op = "registered" /\ req'[r].start = clock
  BY RegisterGoes
<1>3. clock <= clock' BY <1>1, AccountsAssumption DEF Inv, TypeOK, Time
<1>4. Grows BY <1>1, <1>2, <1>3, SameGrows DEF Grows
<1>5. Owned' BY <1>1, <1>2 DEF Owned
<1> QED BY <1>1, <1>2, <1>3, <1>4, <1>5, LeaveStep

LEMMA LoginStep ==
  ASSUME Inv, NEW r \in Requests, NEW password \in Passwords, Login(r, password)
  PROVE  Inv'
<1> DEFINE state == [op |-> "login", start |-> clock]
<1>1. UNCHANGED <<clock, data>> /\ req' = [req EXCEPT ![r] = state] /\ IsOpen(r)
  BY DEF Login
<1>2. state \in LoggingIn BY DEF Inv, TypeOK, LoggingIn
<1>3. state.op = "login" /\ state.start = clock OBVIOUS
<1> HIDE DEF state
<1>4. clock' \in Time /\ clock <= clock' BY <1>1, AccountsAssumption DEF Inv, TypeOK, Time
<1>5. Grows /\ Owned' BY <1>1, <1>4, SameTables
<1>6. Others(r) /\ req'[r] = state
      /\ req' \in [Requests -> {Idle} \cup Snapshot \cup LoggingIn \cup Registered]
  BY <1>1, <1>2, WriteGoes DEF Inv
<1>7. TypeOK' BY <1>1, <1>6 DEF Inv, TypeOK, data
<1>8. user' # NULL BY <1>1 DEF Inv, Sound, Knows, IsOpen, Idle, data, Login
<1> QED BY <1>1, <1>3, <1>4, <1>5, <1>6, <1>7, <1>8, LeaveStep

LEMMA IssueStep ==
  ASSUME Inv, NEW r \in Requests, req[r] # Idle, NEW now \in Now(r), NEW t \in Tokens,
         IssueEmailVerification(r, t, now)
  PROVE  Inv'
<1> DEFINE token == [purpose |-> "EMAIL_VERIFICATION", expires |-> now + TokenLife,
                     used |-> FALSE]
<1>1. now \in Time BY NowType DEF Inv
<1>2. token \in AuthToken BY <1>1, NewTokenType DEF Purpose
<1>3. /\ UNCHANGED <<clock, user, sessions, notices>> /\ End(r) /\ tokens[t] = NULL
      /\ tokens' = [tokens EXCEPT ![t] = token]
  BY DEF IssueEmailVerification
<1> HIDE DEF token
<1>4. tokens \in [Tokens -> AuthToken \cup {NULL}] /\ TokensGrow(tokens)
  BY DEF Inv, TypeOK, TokensGrow
<1>5. /\ tokens' \in [Tokens -> AuthToken \cup {NULL}] /\ TokensGrow(tokens')
      /\ \A u \in Tokens \ {t} : tokens'[u] = tokens[u]
  BY <1>2, <1>3, <1>4, NewTokenGoes
<1>6. user # NULL BY DEF Inv, Sound, IssueEmailVerification
<1>7. clock <= clock' BY <1>3, AccountsAssumption DEF Inv, TypeOK, Time
<1>8. Grows BY <1>3, <1>5, <1>7, SameGrows DEF Grows
<1>9. Others(r) /\ req'[r] = Idle /\ TypeOK' BY <1>3, <1>5, EndGoes DEF Inv, TypeOK
<1>10. Owned' BY <1>3, <1>6 DEF Inv, Owned
<1> QED BY <1>8, <1>9, <1>10, LeaveStep

LEMMA VerifyGoes ==
  ASSUME Inv, NEW r \in Requests, NEW now, NEW t \in Tokens, VerifyEmail(r, t, now)
  PROVE  /\ tokens' \in [Tokens -> AuthToken \cup {NULL}] /\ TokensGrow(tokens')
         /\ \A u \in Tokens \ {t} : tokens'[u] = tokens[u]
         /\ user \in User /\ user' \in User /\ user'.invalidated = user.invalidated
         /\ user'.password = user.password
         /\ tokens[t].purpose = "EMAIL_VERIFICATION" /\ tokens'[t].purpose = "EMAIL_VERIFICATION"
<1>1. IsOpen(r) /\ Live(req[r].tokens[t], "EMAIL_VERIFICATION")
  BY DEF VerifyEmail, FindsToken
<1>2. tokens[t] \in AuthToken /\ tokens[t].purpose = "EMAIL_VERIFICATION" /\ user # NULL
  BY <1>1, KnownToken DEF Live
<1> DEFINE token == [tokens[t] EXCEPT !.used = TRUE]
<1>3. token \in AuthToken /\ token.purpose = "EMAIL_VERIFICATION" /\ token.used
  BY <1>2, UseToken
<1>4. tokens' = [tokens EXCEPT ![t] = token] BY DEF VerifyEmail
<1> HIDE DEF token
<1>5. tokens \in [Tokens -> AuthToken \cup {NULL}] BY DEF Inv, TypeOK
<1>6. /\ tokens' \in [Tokens -> AuthToken \cup {NULL}]
      /\ \A u \in Tokens \ {t} : tokens'[u] = tokens[u]
      /\ tokens'[t] = token
  BY <1>3, <1>4, <1>5
<1>7. TokensGrow(tokens') BY <1>2, <1>3, <1>6, AccountsAssumption DEF TokensGrow
<1>8. user \in User BY <1>2 DEF Inv, TypeOK
<1>9. user' = [user EXCEPT !.verified = TRUE] BY DEF VerifyEmail
<1>10. /\ user' \in User /\ user'.invalidated = user.invalidated
       /\ user'.password = user.password
  BY <1>8, <1>9 DEF User
<1> QED BY <1>2, <1>3, <1>6, <1>7, <1>8, <1>10

LEMMA VerifyStep ==
  ASSUME Inv, NEW r \in Requests, req[r] # Idle, NEW now, NEW t \in Tokens,
         VerifyEmail(r, t, now)
  PROVE  Inv'
<1>1. UNCHANGED <<clock, sessions, notices>> /\ End(r) BY DEF VerifyEmail
<1>2. /\ tokens' \in [Tokens -> AuthToken \cup {NULL}] /\ TokensGrow(tokens')
      /\ user \in User /\ user' \in User /\ user'.invalidated = user.invalidated
  BY VerifyGoes
<1>3. user # NULL /\ user' # NULL BY <1>2, AccountsAssumption
<1>4. clock <= clock' BY <1>1, AccountsAssumption DEF Inv, TypeOK, Time
<1>5. Grows BY <1>1, <1>2, <1>3, <1>4, SameGrows DEF Grows
<1>6. Others(r) /\ req'[r] = Idle /\ TypeOK' BY <1>1, <1>2, EndGoes DEF Inv, TypeOK
<1>7. Owned' BY <1>1, <1>2, <1>3 DEF Inv, Owned
<1> QED BY <1>5, <1>6, <1>7, LeaveStep

LEMMA SessionStep ==
  ASSUME Inv, NEW r \in Requests, req[r] # Idle, NEW now \in Now(r), NEW s \in Sessions,
         CreateAccessToken(r, s, now)
  PROVE  /\ Inv' /\ Others(r) /\ \A u \in Sessions \ {s} : sessions'[u] = sessions[u]
<1> DEFINE session == [issued |-> now, expires |-> now + SessionLife, revoked |-> FALSE]
<1>1. now \in Time BY NowType DEF Inv
<1>2. now + SessionLife \in Nat BY <1>1, AccountsAssumption DEF Time
<1>3. session \in AuthSession BY <1>1, <1>2 DEF AuthSession
<1>4. /\ UNCHANGED <<clock, user, tokens, notices>> /\ End(r) /\ sessions[s] = NULL
      /\ sessions' = [sessions EXCEPT ![s] = session]
  BY DEF CreateAccessToken
<1> HIDE DEF session
<1>5. /\ sessions' \in [Sessions -> AuthSession \cup {NULL}]
      /\ \A u \in Sessions \ {s} : sessions'[u] = sessions[u]
  BY <1>3, <1>4 DEF Inv, TypeOK
<1>6. SessionsGrow(sessions') BY <1>4, <1>5 DEF SessionsGrow
<1>7. user # NULL BY DEF Inv, Sound, CreateAccessToken
<1>8. clock <= clock' BY <1>4, AccountsAssumption DEF Inv, TypeOK, Time
<1>9. Grows BY <1>4, <1>6, <1>8, SameGrows DEF Grows
<1>10. Others(r) /\ req'[r] = Idle /\ TypeOK' BY <1>4, <1>5, EndGoes DEF Inv, TypeOK
<1>11. Owned' BY <1>4, <1>7 DEF Inv, Owned
<1> QED BY <1>5, <1>9, <1>10, <1>11, LeaveStep

LEMMA LogoutStep ==
  ASSUME Inv, NEW r \in Requests, req[r] # Idle, RevokeSession(r)
  PROVE  Inv' /\ Others(r) /\ SessionsGrow(sessions')
<1>1. /\ UNCHANGED <<clock, user, tokens, notices>> /\ End(r) /\ IsOpen(r)
      /\ sessions' = Revoke({req[r].via}) /\ req[r].via # NULL
  BY DEF RevokeSession
<1>2. Knows(r) BY <1>1 DEF Inv, Sound
<1>3. sessions[req[r].via] # NULL /\ user # NULL
  BY <1>1, <1>2, OpenType DEF Knows, Inv, Snapshot
<1>4. sessions' \in [Sessions -> AuthSession \cup {NULL}] /\ SessionsGrow(sessions')
  BY <1>1, <1>3, RevokeGoes
<1>5. clock <= clock' BY <1>1, AccountsAssumption DEF Inv, TypeOK, Time
<1>6. Grows BY <1>1, <1>4, <1>5, SameGrows DEF Grows
<1>7. Others(r) /\ req'[r] = Idle /\ TypeOK' BY <1>1, <1>4, EndGoes DEF Inv, TypeOK
<1>8. Owned' BY <1>1, <1>3 DEF Inv, Owned
<1> QED BY <1>4, <1>6, <1>7, <1>8, LeaveStep

LEMMA RequestGoes ==
  ASSUME Inv, NEW r \in Requests, req[r] # Idle, NEW now \in Now(r), NEW t \in Tokens,
         RequestPasswordReset(r, t, now)
  PROVE  /\ tokens' \in [Tokens -> AuthToken \cup {NULL}] /\ TokensGrow(tokens')
         /\ IsOpen(r) /\ user # NULL /\ tokens[t] = NULL
         /\ \A u \in Tokens \ {t} :
              tokens'[u] = InvalidateTokens(r, "PASSWORD_RESET")[u]
<1> DEFINE token == [purpose |-> "PASSWORD_RESET", expires |-> now + TokenLife,
                     used |-> FALSE]
           base == InvalidateTokens(r, "PASSWORD_RESET")
<1>1. now \in Time BY NowType DEF Inv
<1>2. token \in AuthToken BY <1>1, NewTokenType DEF Purpose
<1>3. IsOpen(r) /\ tokens[t] = NULL /\ tokens' = [base EXCEPT ![t] = token]
  BY DEF RequestPasswordReset, CreateOneTimeToken
<1>4. user # NULL BY <1>3 DEF RequestPasswordReset, Inv, Sound, Knows
<1>5. base \in [Tokens -> AuthToken \cup {NULL}] /\ TokensGrow(base)
  BY <1>3, InvalidateGoes
<1> HIDE DEF token, base
<1>6. /\ tokens' \in [Tokens -> AuthToken \cup {NULL}] /\ TokensGrow(tokens')
      /\ \A u \in Tokens \ {t} : tokens'[u] = base[u]
  BY <1>2, <1>3, <1>5, NewTokenGoes
<1> QED BY <1>3, <1>4, <1>6 DEF base

LEMMA RequestStep ==
  ASSUME Inv, NEW r \in Requests, req[r] # Idle, NEW now \in Now(r), NEW t \in Tokens,
         RequestPasswordReset(r, t, now)
  PROVE  Inv'
<1>1. UNCHANGED <<clock, user, sessions, notices>> /\ End(r) BY DEF RequestPasswordReset
<1>2. /\ tokens' \in [Tokens -> AuthToken \cup {NULL}] /\ TokensGrow(tokens')
      /\ user # NULL
  BY RequestGoes
<1>3. clock <= clock' BY <1>1, AccountsAssumption DEF Inv, TypeOK, Time
<1>4. Grows BY <1>1, <1>2, <1>3, SameGrows DEF Grows
<1>5. Others(r) /\ req'[r] = Idle /\ TypeOK' BY <1>1, <1>2, EndGoes DEF Inv, TypeOK
<1>6. Owned' BY <1>1, <1>2 DEF Inv, Owned
<1> QED BY <1>4, <1>5, <1>6, LeaveStep

\* The steps that change the password.
Sets(r, password, now) ==
  /\ IsOpen(r) /\ End(r) /\ UNCHANGED clock
  /\ req[r].user # NULL
  /\ tokens' = InvalidateTokens(r, "PASSWORD_RESET")
  /\ SetPassword(r, password, now)
  /\ notices' \in SUBSET Tokens

LEMMA ChangeSets ==
  ASSUME Inv, NEW r \in Requests, NEW now, NEW current, NEW new,
         ChangePassword(r, current, new, now)
  PROVE  Sets(r, new, now)
<1>1. IsOpen(r) /\ req[r].user # NULL
  BY DEF ChangePassword, Inv, Sound, Knows, IsOpen, Idle
<1> QED BY <1>1 DEF ChangePassword, Sets, Inv, TypeOK

LEMMA ResetSets ==
  ASSUME Inv, NEW r \in Requests, NEW now, NEW t \in Tokens, NEW new,
         ResetPassword(r, t, new, now)
  PROVE  Sets(r, new, now)
<1>1. IsOpen(r) /\ req[r].user # NULL
  BY DEF ResetPassword, FindsToken, Live, Inv, Sound, Knows, IsOpen, Idle
<1> QED BY <1>1 DEF ResetPassword, Sets, KeyedNotice, Inv, TypeOK

LEMMA SetsGoes ==
  ASSUME Inv, NEW r \in Requests, req[r] # Idle, NEW now \in Now(r),
         NEW password \in Passwords, Sets(r, password, now)
  PROVE  /\ Inv' /\ Others(r) /\ req'[r] = Idle
         /\ user \in User /\ user' \in User /\ user'.invalidated = now
         /\ user'.verified = user.verified
<1>1. IsOpen(r) /\ End(r) /\ UNCHANGED clock BY DEF Sets
<1>2. Knows(r) /\ req[r] \in Snapshot BY <1>1, OpenType DEF Inv, Sound
<1>3. user # NULL BY <1>2 DEF Sets, Knows
<1>4. user \in User BY <1>3 DEF Inv, TypeOK
<1>5. now \in Time /\ now <= clock BY NowType DEF Inv
<1>6. user' = [user EXCEPT !.password = password, !.invalidated = now] BY DEF Sets, SetPassword
<1>7. /\ user' \in User /\ user'.invalidated = now /\ user'.verified = user.verified
  BY <1>4, <1>5, <1>6 DEF User
<1>8. user' # NULL BY <1>7, AccountsAssumption
<1>9. /\ tokens' \in [Tokens -> AuthToken \cup {NULL}] /\ TokensGrow(tokens')
  BY <1>1, InvalidateGoes DEF Sets
<1>10. sessions' \in [Sessions -> AuthSession \cup {NULL}] /\ SessionsGrow(sessions')
  <2>1. \A s \in Sessions : req[r].sessions[s] # NULL => sessions[s] # NULL
    BY <1>2 DEF Knows
  <2> QED BY <2>1, RevokeGoes DEF Sets, SetPassword, RevokeAllSessions
<1>11. clock <= clock' BY <1>1, AccountsAssumption DEF Inv, TypeOK, Time
<1>12. Grows BY <1>8, <1>9, <1>10, <1>11 DEF Grows
<1>13. Others(r) /\ req'[r] = Idle /\ TypeOK'
  BY <1>1, <1>7, <1>9, <1>10, EndGoes DEF Inv, TypeOK, Sets
<1>14. Owned' BY <1>1, <1>5, <1>7, <1>8 DEF Owned
<1> QED BY <1>4, <1>7, <1>12, <1>13, <1>14, LeaveStep

LEMMA StepGoes == ASSUME Inv, [Next]_vars PROVE Inv'
<1>1. CASE UNCHANGED vars
  BY <1>1 DEF vars, data, Inv, TypeOK, Owned, Sound, Knows, IsOpen
<1>2. CASE Tick BY <1>2, TickStep
<1>3. ASSUME NEW r \in Requests, Arrive(r) PROVE Inv'
  BY <1>3, OpenStep DEF Arrive
<1>4. ASSUME NEW r \in Requests, NEW s \in Sessions, Authenticate(r, s) PROVE Inv'
  BY <1>4, OpenStep DEF Authenticate, Usable
<1>5. ASSUME NEW r \in Requests, Rollback(r) PROVE Inv'
  BY <1>5, RollbackStep
<1>6. ASSUME NEW r \in Requests, RevokeSession(r) PROVE Inv'
  BY <1>6, LogoutStep DEF RevokeSession, IsOpen, Idle
<1>7. ASSUME NEW r \in Requests, NEW password \in Passwords,
             Register(r, password) \/ Login(r, password)
      PROVE  Inv'
  BY <1>7, RegisterStep, LoginStep
<1>8. ASSUME NEW r \in Requests, req[r] # Idle, NEW now \in Now(r), NEW s \in Sessions,
             CreateAccessToken(r, s, now)
      PROVE  Inv'
  BY <1>8, SessionStep
<1>9. ASSUME NEW r \in Requests, req[r] # Idle, NEW now \in Now(r),
             NEW current \in Passwords, NEW new \in Passwords,
             ChangePassword(r, current, new, now)
      PROVE  Inv'
  BY <1>9, ChangeSets, SetsGoes
<1>10. ASSUME NEW r \in Requests, req[r] # Idle, NEW now \in Now(r), NEW t \in Tokens,
              \/ IssueEmailVerification(r, t, now) \/ VerifyEmail(r, t, now)
              \/ RequestPasswordReset(r, t, now)
       PROVE  Inv'
  BY <1>10, IssueStep, VerifyStep, RequestStep
<1>11. ASSUME NEW r \in Requests, req[r] # Idle, NEW now \in Now(r), NEW t \in Tokens,
              NEW new \in Passwords, ResetPassword(r, t, new, now)
       PROVE  Inv'
  BY <1>11, ResetSets, SetsGoes
<1> QED BY <1>1, <1>2, <1>3, <1>4, <1>5, <1>6, <1>7, <1>8, <1>9, <1>10, <1>11 DEF Next

\* Every row and every request in flight has its type, however the requests overlap.
THEOREM TypeCorrect == Spec => []TypeOK
<1>1. Inv => TypeOK BY DEF Inv
<1> QED BY InvInit, StepGoes, <1>1, PTL DEF Spec

(***************************************************************************)
(* A change of password is one of two steps of the request itself.         *)
(***************************************************************************)
LEMMA OneMoves ==
  ASSUME Inv, Next, NEW r \in Requests, req'[r] # req[r]
  PROVE  \/ Open(r, NULL) \/ \E s \in Sessions : Open(r, s)
         \/ Rollback(r) \/ RevokeSession(r)
         \/ \E password \in Passwords : Register(r, password) \/ Login(r, password)
         \/ /\ req[r] # Idle
            /\ \E now \in Now(r) :
                 \/ \E s \in Sessions : CreateAccessToken(r, s, now)
                 \/ \E current, new \in Passwords : ChangePassword(r, current, new, now)
                 \/ \E t \in Tokens :
                      \/ IssueEmailVerification(r, t, now) \/ VerifyEmail(r, t, now)
                      \/ RequestPasswordReset(r, t, now)
                      \/ \E new \in Passwords : ResetPassword(r, t, new, now)
<1> DEFINE Moves(q) ==
         \/ Open(q, NULL) \/ \E s \in Sessions : Open(q, s)
         \/ Rollback(q) \/ RevokeSession(q)
         \/ \E password \in Passwords : Register(q, password) \/ Login(q, password)
         \/ /\ req[q] # Idle
            /\ \E now \in Now(q) :
                 \/ \E s \in Sessions : CreateAccessToken(q, s, now)
                 \/ \E current, new \in Passwords : ChangePassword(q, current, new, now)
                 \/ \E t \in Tokens :
                      \/ IssueEmailVerification(q, t, now) \/ VerifyEmail(q, t, now)
                      \/ RequestPasswordReset(q, t, now)
                      \/ \E new \in Passwords : ResetPassword(q, t, new, now)
<1>1. ASSUME NEW q \in Requests, Moves(q) PROVE Others(q)
  BY <1>1 DEF Open, Rollback, RevokeSession, Register, Login, CreateAccessToken,
     ChangePassword, IssueEmailVerification, VerifyEmail, RequestPasswordReset,
     ResetPassword, End, Others, Inv, TypeOK
<1>2. ~Tick BY DEF Tick
<1>3. PICK q \in Requests : Moves(q)
  <2> HIDE DEF Moves
  <2> QED BY <1>2 DEF Next, Arrive, Authenticate, Moves
<1>4. q = r
  <2> HIDE DEF Moves
  <2> QED BY <1>1, <1>3 DEF Others
<1> QED BY <1>3, <1>4

LEMMA ChangeIs ==
  ASSUME Inv, Next, NEW r \in Requests, Changes(r)
  PROVE  /\ req[r] # Idle
         /\ \E now \in Now(r) :
              \/ \E current, new \in Passwords : ChangePassword(r, current, new, now)
              \/ \E t \in Tokens, new \in Passwords : ResetPassword(r, t, new, now)
<1>1. IsOpen(r) /\ req'[r] = Idle /\ user' # user /\ user # NULL BY DEF Changes
<1>2. req'[r] # req[r] BY <1>1 DEF IsOpen, Idle
<1>3. ASSUME UNCHANGED user PROVE FALSE BY <1>1, <1>3
<1>4. ASSUME NEW t \in Tokens, NEW now, VerifyEmail(r, t, now) PROVE FALSE
  <2>1. user \in User /\ user' = [user EXCEPT !.verified = TRUE]
    BY <1>4, VerifyGoes DEF VerifyEmail
  <2>2. user.verified = TRUE BY <2>1 DEF Changes, User
  <2> QED BY <1>1, <2>1, <2>2 DEF User
<1>5. ASSUME NEW password \in Passwords, Register(r, password) PROVE FALSE
  BY <1>1, <1>5 DEF Register
<1> QED BY <1>2, <1>3, <1>4, <1>5, OneMoves
    DEF Open, Rollback, RevokeSession, Login, CreateAccessToken, IssueEmailVerification,
        RequestPasswordReset, data

LEMMA ChangeSetsNow ==
  ASSUME Inv, Next, NEW r \in Requests, Changes(r)
  PROVE  /\ req[r] # Idle
         /\ \E now \in Now(r), password \in Passwords : Sets(r, password, now)
BY ChangeIs, ChangeSets, ResetSets

LEMMA ResetAnnounces ==
  ASSUME Inv, Next, NEW r \in Requests, Changes(r), req[r].via = NULL
  PROVE  \E t \in Tokens \ notices : /\ Live(req[r].tokens[t], "PASSWORD_RESET")
                                     /\ notices' = notices \cup {t}
BY ChangeIs DEF ChangePassword, ResetPassword, FindsToken, KeyedNotice

\* A recovery token changes the password at most once, however many requests present it.
THEOREM OnceOnly == Spec => OneResetPerToken
<1>1. Inv /\ [Next]_vars =>
        [\A r \in Requests : Changes(r) /\ req[r].via = NULL =>
           \E t \in Tokens \ notices : /\ Live(req[r].tokens[t], "PASSWORD_RESET")
                                       /\ notices' = notices \cup {t}]_vars
  BY ResetAnnounces
<1> QED BY InvInit, StepGoes, <1>1, PTL DEF Spec, OneResetPerToken

LEMMA ChangeKills ==
  ASSUME Inv, Next, NEW r \in Requests, Changes(r), NEW t \in LiveResets'
  PROVE  req[r].tokens[t] = NULL
<1> SUFFICES ASSUME req[r].tokens[t] # NULL PROVE FALSE OBVIOUS
<1>1. IsOpen(r) /\ t \in Tokens BY DEF Changes, LiveResets
<1>2. tokens' = InvalidateTokens(r, "PASSWORD_RESET") BY ChangeSetsNow DEF Sets
<1>3. tokens'[t].purpose = "PASSWORD_RESET" /\ ~tokens'[t].used /\ tokens'[t] # NULL
  BY DEF LiveResets, Live
<1>4. ~Live(req[r].tokens[t], "PASSWORD_RESET") /\ tokens'[t] = tokens[t]
  BY <1>1, <1>2, <1>3, InvalidateGoes
<1>5. Knows(r) BY <1>1 DEF Inv, Sound, IsOpen, Idle
<1>6. req[r].tokens[t].purpose = "PASSWORD_RESET" BY <1>1, <1>3, <1>4, <1>5 DEF Knows
<1>7. tokens[t].used BY <1>1, <1>4, <1>5, <1>6 DEF Knows, Live
<1> QED BY <1>3, <1>4, <1>7

\* After a change no recovery token works but those asked for while it ran.
THEOREM TokensEnd == Spec => ChangeEndsTokens
<1>1. Inv /\ [Next]_vars =>
        [\A r \in Requests : Changes(r) => \A t \in LiveResets' : req[r].tokens[t] = NULL]_vars
  BY ChangeKills
<1> QED BY InvInit, StepGoes, <1>1, PTL DEF Spec, ChangeEndsTokens

LEMMA ChangeRevokes ==
  ASSUME Inv, Next, NEW r \in Requests, Changes(r),
         NEW s \in Sessions, req[r].sessions[s] # NULL
  PROVE  ~Usable(s)'
<1>1. PICK now \in Now(r), password \in Passwords : Sets(r, password, now) BY ChangeSetsNow
<1>2. IsOpen(r) /\ req[r] # Idle /\ clock' = clock BY <1>1 DEF Sets, IsOpen, Idle
<1>3. Knows(r) /\ req[r] \in Snapshot BY <1>2, OpenType DEF Inv, Sound
<1>4. now \in Time /\ now <= clock BY <1>2, NowType DEF Inv
<1>5. sessions[s].expires = req[r].sessions[s].expires /\ sessions[s].expires \in Nat
  BY <1>3 DEF Knows, Snapshot, AuthSession
<1> DEFINE chosen == {u \in Sessions : /\ req[r].sessions[u] # NULL
                                       /\ ~req[r].sessions[u].revoked
                                       /\ now < req[r].sessions[u].expires}
<1>6. sessions' = Revoke(chosen) BY <1>1 DEF Sets, SetPassword, RevokeAllSessions
<1>7. \A u \in Sessions \cap chosen : sessions[u] # NULL BY <1>3 DEF Knows
<1>8. /\ s \in chosen => sessions'[s].revoked
      /\ s \notin chosen => sessions'[s] = sessions[s]
  <2> HIDE DEF chosen
  <2> QED BY <1>6, <1>7, RevokeGoes
<1>9. CASE s \in chosen BY <1>8, <1>9 DEF Usable
<1>10. CASE s \notin chosen /\ req[r].sessions[s].revoked
  BY <1>3, <1>8, <1>10 DEF Usable, Knows
<1>11. CASE ~(now < req[r].sessions[s].expires)
  <2>1. ~(clock < sessions[s].expires)
    BY <1>4, <1>5, <1>11, AccountsAssumption DEF Time, Inv, TypeOK
  <2> QED BY <1>2, <1>8, <1>9, <2>1 DEF Usable
<1> QED BY <1>9, <1>10, <1>11

\* After a change no session works that was open when it began.
THEOREM SessionsEnd == Spec => ChangeEndsSessions
<1>1. Inv /\ [Next]_vars =>
        [\A r \in Requests : Changes(r) =>
           \A s \in Sessions : req[r].sessions[s] # NULL => ~Usable(s)']_vars
  BY ChangeRevokes
<1> QED BY InvInit, StepGoes, <1>1, PTL DEF Spec, ChangeEndsSessions

LEMMA UsableBack ==
  ASSUME Inv, SessionsGrow(sessions'), clock <= clock', clock' \in Time,
         user'.invalidated = user.invalidated,
         NEW s \in Sessions, sessions[s] # NULL, Usable(s)'
  PROVE  Usable(s)
<1>1. sessions[s] \in AuthSession /\ clock \in Time BY DEF Inv, TypeOK
<1>2. sessions[s].expires \in Nat BY <1>1 DEF AuthSession
<1>3. /\ sessions'[s].issued = sessions[s].issued /\ sessions'[s].expires = sessions[s].expires
      /\ ~sessions[s].revoked
  BY DEF SessionsGrow, Usable
<1>4. clock < sessions[s].expires
  BY <1>1, <1>2, <1>3, AccountsAssumption DEF Usable, Time
<1> QED BY <1>3, <1>4 DEF Usable

LEMMA Revives ==
  ASSUME Inv, Next, NEW s \in Sessions, sessions[s] # NULL, ~Usable(s), Usable(s)'
  PROVE  \E r \in Requests : /\ Changes(r)
                             /\ req[r].user.invalidated # user.invalidated
                             /\ req[r].sessions[s] = NULL
<1>1. Inv' BY StepGoes
<1>2. user # NULL BY DEF Inv, Owned
<1>3. ASSUME SessionsGrow(sessions'), clock <= clock', user'.invalidated = user.invalidated
      PROVE  FALSE
  BY <1>1, <1>3, UsableBack DEF Inv, TypeOK
<1>4. ASSUME UNCHANGED <<user, sessions>>, clock <= clock' PROVE FALSE
  BY <1>3, <1>4, SameGrows
<1>5. clock <= clock BY AccountsAssumption DEF Inv, TypeOK, Time
<1>6. ASSUME NEW r \in Requests, req[r] # Idle, NEW now \in Now(r), NEW u \in Sessions,
             CreateAccessToken(r, u, now)
      PROVE  FALSE
  <2>1. \A x \in Sessions \ {u} : sessions'[x] = sessions[x] BY <1>6, SessionStep
  <2>2. SessionsGrow(sessions') BY <1>6, <2>1 DEF SessionsGrow, CreateAccessToken
  <2> QED BY <1>3, <1>5, <1>6, <2>2 DEF CreateAccessToken
<1>7. ASSUME NEW r \in Requests, RevokeSession(r) PROVE FALSE
  <2>1. SessionsGrow(sessions') BY <1>7, LogoutStep DEF RevokeSession, IsOpen, Idle
  <2> QED BY <1>3, <1>5, <1>7, <2>1 DEF RevokeSession
<1>8. ASSUME NEW r \in Requests, NEW t \in Tokens, NEW now, VerifyEmail(r, t, now)
      PROVE  FALSE
  BY <1>3, <1>5, <1>8, VerifyGoes, SameGrows DEF VerifyEmail
<1>9. ASSUME NEW r \in Requests, req[r] # Idle, NEW now \in Now(r),
             NEW password \in Passwords, Sets(r, password, now)
      PROVE  /\ Changes(r)
             /\ req[r].user.invalidated # user.invalidated
             /\ req[r].sessions[s] = NULL
  <2>1. /\ req'[r] = Idle /\ user \in User /\ user' \in User
        /\ user'.invalidated = now /\ user'.verified = user.verified
    BY <1>9, SetsGoes
  <2>2. IsOpen(r) /\ clock' = clock BY <1>9 DEF Sets
  <2>3. Knows(r) /\ req[r] \in Snapshot BY <1>9, <2>2, OpenType DEF Inv, Sound
  <2>4. now \in Time /\ now <= clock /\ req[r].start \in Time /\ req[r].start <= now
    BY <1>9, NowType DEF Inv
  <2>5. SessionsGrow(sessions')
    <3>1. \A u \in Sessions : req[r].sessions[u] # NULL => sessions[u] # NULL
      BY <2>3 DEF Knows
    <3> QED BY <1>9, <3>1, RevokeGoes DEF Sets, SetPassword, RevokeAllSessions
  <2>6. /\ sessions'[s].issued = sessions[s].issued /\ sessions'[s].expires = sessions[s].expires
        /\ ~sessions[s].revoked
    BY <2>5 DEF SessionsGrow, Usable
  <2>7. sessions[s].issued \in Nat BY DEF Inv, TypeOK, AuthSession, Time
  <2>8. now < sessions[s].issued
    <3>1. now # NULL BY <2>4, AccountsAssumption DEF Time
    <3> QED BY <2>1, <2>6, <3>1 DEF Usable
  <2>9. user.invalidated # NULL /\ ~(user.invalidated < sessions[s].issued)
    BY <2>2, <2>6 DEF Usable
  <2>10. user.invalidated \in Time BY <2>1, <2>9 DEF User
  <2>11. now < user.invalidated
    BY <2>4, <2>7, <2>8, <2>9, <2>10 DEF Time
  <2>12. user' # user BY <2>1, <2>4, <2>10, <2>11 DEF Time
  <2>13. Changes(r) BY <1>2, <2>1, <2>2, <2>12 DEF Changes
  <2>14. req[r].user.invalidated # user.invalidated
    <3> SUFFICES ASSUME req[r].user.invalidated = user.invalidated PROVE FALSE OBVIOUS
    <3>1. user.invalidated <= req[r].start BY <1>9, <2>3, <2>9 DEF Knows, Sets
    <3> QED BY <2>4, <2>10, <2>11, <3>1 DEF Time
  <2>15. req[r].sessions[s] = NULL BY <2>13, ChangeRevokes
  <2> QED BY <2>13, <2>14, <2>15
<1>10. ASSUME Tick PROVE FALSE
  <2>1. clock <= clock' BY <1>10, AccountsAssumption DEF Inv, TypeOK, Time, Tick
  <2> QED BY <1>4, <1>10, <2>1 DEF Tick, data
<1>11. ASSUME NEW r \in Requests, NEW password, Register(r, password) PROVE FALSE
  BY <1>2, <1>11 DEF Register
<1>12. ASSUME NEW r \in Requests, NEW via, Open(r, via) PROVE FALSE
  BY <1>4, <1>5, <1>12 DEF Open, data
<1>13. ASSUME NEW r \in Requests, NEW password, Rollback(r) \/ Login(r, password) PROVE FALSE
  BY <1>4, <1>5, <1>13 DEF Rollback, Login, data
<1>14. ASSUME NEW r \in Requests, NEW t, NEW now,
              IssueEmailVerification(r, t, now) \/ RequestPasswordReset(r, t, now)
       PROVE  FALSE
  BY <1>4, <1>5, <1>14 DEF IssueEmailVerification, RequestPasswordReset
<1>15. PICK r \in Requests :
         \/ Arrive(r) \/ Rollback(r) \/ RevokeSession(r)
         \/ \E password \in Passwords : Register(r, password) \/ Login(r, password)
         \/ \E u \in Sessions : Authenticate(r, u)
         \/ /\ req[r] # Idle
            /\ \E now \in Now(r) :
                 \/ \E u \in Sessions : CreateAccessToken(r, u, now)
                 \/ \E current, new \in Passwords : ChangePassword(r, current, new, now)
                 \/ \E t \in Tokens :
                      \/ IssueEmailVerification(r, t, now) \/ VerifyEmail(r, t, now)
                      \/ RequestPasswordReset(r, t, now)
                      \/ \E new \in Passwords : ResetPassword(r, t, new, now)
  BY <1>10 DEF Next
<1>16. /\ req[r] # Idle
       /\ \E now \in Now(r), password \in Passwords : Sets(r, password, now)
  BY <1>6, <1>7, <1>8, <1>11, <1>12, <1>13, <1>14, <1>15, ChangeSets, ResetSets
     DEF Arrive, Authenticate
<1> QED BY <1>9, <1>16

\* A session refused once stays refused, unless two changes overlapped.
THEOREM RefusedStaysRefused == Spec => OnlyOverlapRevivesSessions
<1>1. Inv /\ [Next]_vars =>
        [\A s \in Sessions :
           sessions[s] # NULL /\ ~Usable(s) /\ Usable(s)' =>
             \E r \in Requests : /\ Changes(r)
                                 /\ req[r].user.invalidated # user.invalidated
                                 /\ req[r].sessions[s] = NULL]_vars
  BY Revives
<1> QED BY InvInit, StepGoes, <1>1, PTL DEF Spec, OnlyOverlapRevivesSessions

(***************************************************************************)
(* How many recovery tokens work at once. An open request can still leave  *)
(* one; it ends the ones it sees. So, whatever set X of tokens is left     *)
(* aside, the tokens that work outside X and the requests that see none of *)
(* them are together at most the requests.                                 *)
(***************************************************************************)
Sees(q, t) == req[q].tokens[t] # NULL
Behind(X) == {q \in Requests : IsOpen(q) /\ \A t \in LiveResets : Sees(q, t) => t \in X}
Slack == \A X \in SUBSET Tokens :
           Cardinality(LiveResets \ X) + Cardinality(Behind(X)) <= Cardinality(Requests)

LEMMA Fewer ==
  ASSUME NEW S, IsFiniteSet(S), NEW T \in SUBSET S
  PROVE  /\ IsFiniteSet(T) /\ Cardinality(T) \in Nat /\ Cardinality(S) \in Nat
         /\ Cardinality(T) <= Cardinality(S)
BY FS_Subset, FS_CardinalityType

LEMMA OneFewer ==
  ASSUME NEW S, IsFiniteSet(S), NEW x \in S, NEW T \in SUBSET (S \ {x})
  PROVE  /\ IsFiniteSet(T) /\ Cardinality(T) \in Nat /\ Cardinality(S) \in Nat
         /\ Cardinality(T) <= Cardinality(S) - 1
<1>1. IsFiniteSet(S \ {x}) /\ Cardinality(S \ {x}) = Cardinality(S) - 1
  BY FS_RemoveElement
<1> QED BY <1>1, Fewer, FS_CardinalityType

LEMMA OneMore ==
  ASSUME NEW S, IsFiniteSet(S), NEW x, NEW T \in SUBSET (S \cup {x})
  PROVE  /\ Cardinality(T) \in Nat /\ Cardinality(S) \in Nat
         /\ Cardinality(T) <= Cardinality(S) + 1
<1>1. /\ IsFiniteSet(S \cup {x}) /\ Cardinality(S \cup {x}) <= Cardinality(S) + 1
      /\ Cardinality(S) \in Nat /\ Cardinality(S \cup {x}) \in Nat
  BY FS_AddElement, FS_CardinalityType
<1>2. Cardinality(T) \in Nat /\ Cardinality(T) <= Cardinality(S \cup {x}) BY <1>1, Fewer
<1> QED BY <1>1, <1>2

LEMMA AllFinite ==
  ASSUME NEW X
  PROVE  IsFiniteSet(LiveResets) /\ IsFiniteSet(LiveResets \ X) /\ IsFiniteSet(Behind(X))
<1>1. IsFiniteSet(LiveResets) BY AccountsAssumption, Fewer DEF LiveResets
<1>2. IsFiniteSet(LiveResets \ X) BY <1>1, Fewer
<1>3. IsFiniteSet(Behind(X)) BY AccountsAssumption, Fewer DEF Behind
<1> QED BY <1>1, <1>2, <1>3

\* A step that adds no token that works and opens no request.
Quiet ==
  /\ LiveResets' \subseteq LiveResets
  /\ \A q \in Requests : IsOpen(q)' => IsOpen(q) /\ req'[q] = req[q]

LEMMA QuietStep == ASSUME Slack, Quiet PROVE Slack'
<1> SUFFICES ASSUME NEW X \in SUBSET Tokens
             PROVE  Cardinality(LiveResets' \ X) + Cardinality(Behind(X)')
                      <= Cardinality(Requests)
  BY DEF Slack
<1> DEFINE Y == X \cup (LiveResets \ LiveResets')
<1>1. Y \in SUBSET Tokens BY DEF LiveResets
<1>2. LiveResets' \ X \in SUBSET (LiveResets \ Y) BY DEF Quiet
<1>3. Behind(X)' \in SUBSET Behind(Y)
  <2> SUFFICES ASSUME NEW q \in Requests, IsOpen(q)',
                      \A t \in LiveResets' : Sees(q, t)' => t \in X
               PROVE  q \in Behind(Y)
    BY DEF Behind
  <2> QED BY DEF Quiet, Behind, Sees
<1>4. Cardinality(LiveResets \ Y) + Cardinality(Behind(Y)) <= Cardinality(Requests)
  BY <1>1 DEF Slack
<1> HIDE DEF Y
<1>5. /\ Cardinality(LiveResets' \ X) \in Nat /\ Cardinality(LiveResets \ Y) \in Nat
      /\ Cardinality(LiveResets' \ X) <= Cardinality(LiveResets \ Y)
  BY <1>2, AllFinite, Fewer
<1>6. /\ Cardinality(Behind(X)') \in Nat /\ Cardinality(Behind(Y)) \in Nat
      /\ Cardinality(Behind(X)') <= Cardinality(Behind(Y))
  BY <1>3, AllFinite, Fewer
<1>7. Cardinality(Requests) \in Nat BY AccountsAssumption, FS_CardinalityType
<1> QED BY <1>4, <1>5, <1>6, <1>7

\* A request that begins sees every token there is.
LEMMA OpenSlack ==
  ASSUME Inv, Slack, NEW r \in Requests, NEW via \in Sessions \cup {NULL}, Open(r, via)
  PROVE  Slack'
<1> SUFFICES ASSUME NEW X \in SUBSET Tokens
             PROVE  Cardinality(LiveResets' \ X) + Cardinality(Behind(X)')
                      <= Cardinality(Requests)
  BY DEF Slack
<1>1. LiveResets' = LiveResets BY DEF Open, data, LiveResets
<1>2. Others(r) /\ req'[r].tokens = tokens BY OpenGoes
<1>3. Cardinality(Requests) \in Nat BY AccountsAssumption, FS_CardinalityType
<1>4. CASE LiveResets \subseteq X
  <2>1. LiveResets' \ X = {} BY <1>1, <1>4
  <2>2. Behind(X)' \in SUBSET Requests BY DEF Behind
  <2>3. Cardinality(Behind(X)') \in Nat /\ Cardinality(Behind(X)') <= Cardinality(Requests)
    BY <2>2, AccountsAssumption, Fewer
  <2> QED BY <1>3, <2>1, <2>3, FS_EmptySet
<1>5. CASE ~(LiveResets \subseteq X)
  <2>1. Behind(X)' \in SUBSET Behind(X)
    <3> SUFFICES ASSUME NEW q \in Requests, IsOpen(q)',
                        \A t \in LiveResets' : Sees(q, t)' => t \in X
                 PROVE  q \in Behind(X)
      BY DEF Behind
    <3>1. PICK t \in LiveResets : t \notin X BY <1>5
    <3>2. q # r BY <1>1, <1>2, <3>1 DEF Sees, LiveResets, Live
    <3> QED BY <1>1, <1>2, <3>2 DEF Others, IsOpen, Sees, Behind
  <2>2. /\ Cardinality(Behind(X)') \in Nat /\ Cardinality(Behind(X)) \in Nat
        /\ Cardinality(Behind(X)') <= Cardinality(Behind(X))
    BY <2>1, AllFinite, Fewer
  <2>3. Cardinality(LiveResets \ X) \in Nat BY AllFinite, FS_CardinalityType
  <2>4. Cardinality(LiveResets \ X) + Cardinality(Behind(X)) <= Cardinality(Requests)
    BY DEF Slack
  <2> QED BY <1>1, <1>3, <2>2, <2>3, <2>4
<1> QED BY <1>4, <1>5

\* A token that its request saw and that a committed invalidation found dies.
LEMMA InvalidateEnds ==
  ASSUME Inv, NEW r \in Requests, IsOpen(r), NEW t \in Tokens, Sees(r, t),
         tokens'[t] = InvalidateTokens(r, "PASSWORD_RESET")[t]
  PROVE  t \notin LiveResets'
<1> SUFFICES ASSUME t \in LiveResets' PROVE FALSE OBVIOUS
<1>1. tokens'[t].purpose = "PASSWORD_RESET" /\ ~tokens'[t].used
  BY DEF LiveResets, Live
<1>2. ~Live(req[r].tokens[t], "PASSWORD_RESET") /\ tokens'[t] = tokens[t]
  BY <1>1, InvalidateGoes
<1>3. Knows(r) BY DEF Inv, Sound, IsOpen, Idle
<1> QED BY <1>1, <1>2, <1>3 DEF Knows, Live, Sees

LEMMA GrowsLive ==
  ASSUME TokensGrow(tokens'), NEW t \in LiveResets', tokens[t] # NULL
  PROVE  t \in LiveResets
BY DEF TokensGrow, LiveResets, Live

\* The one step that adds a token that works, by a request that is then done.
LEMMA RequestSlack ==
  ASSUME Inv, Slack, NEW r \in Requests, req[r] # Idle, NEW now \in Now(r), NEW t \in Tokens,
         RequestPasswordReset(r, t, now)
  PROVE  Slack'
<1> SUFFICES ASSUME NEW X \in SUBSET Tokens
             PROVE  Cardinality(LiveResets' \ X) + Cardinality(Behind(X)')
                      <= Cardinality(Requests)
  BY DEF Slack
<1> DEFINE Y == X \cup (LiveResets \ LiveResets')
<1>1. /\ TokensGrow(tokens') /\ IsOpen(r) /\ tokens[t] = NULL
      /\ tokens' \in [Tokens -> AuthToken \cup {NULL}]
      /\ \A u \in Tokens \ {t} :
           tokens'[u] = InvalidateTokens(r, "PASSWORD_RESET")[u]
  BY RequestGoes
<1>2. Others(r) /\ req'[r] = Idle BY EndGoes DEF RequestPasswordReset, Inv
<1>3. LiveResets' \subseteq LiveResets \cup {t}
  <2> SUFFICES ASSUME NEW u \in LiveResets', u # t PROVE u \in LiveResets OBVIOUS
  <2>1. u \in Tokens /\ tokens'[u] # NULL BY DEF LiveResets, Live
  <2>2. tokens[u] # NULL BY <1>1, <2>1, InvalidateGoes
  <2> QED BY <1>1, <2>2, GrowsLive
<1>4. \A u \in LiveResets : Sees(r, u) => u \notin LiveResets'
  <2> SUFFICES ASSUME NEW u \in LiveResets, Sees(r, u) PROVE u \notin LiveResets' OBVIOUS
  <2>1. u \in Tokens /\ u # t BY <1>1 DEF LiveResets, Live
  <2> QED BY <1>1, <2>1, InvalidateEnds
<1>5. r \in Behind(Y) BY <1>1, <1>4 DEF Behind
<1>6. Behind(X)' \in SUBSET (Behind(Y) \ {r})
  <2> SUFFICES ASSUME NEW q \in Requests, IsOpen(q)',
                      \A u \in LiveResets' : Sees(q, u)' => u \in X
               PROVE  q \in Behind(Y) \ {r}
    BY DEF Behind
  <2>1. q # r BY <1>2 DEF IsOpen, Idle
  <2>2. req'[q] = req[q] BY <1>2, <2>1 DEF Others
  <2> QED BY <2>1, <2>2 DEF Behind, IsOpen, Sees
<1>7. LiveResets' \ X \in SUBSET ((LiveResets \ Y) \cup {t}) BY <1>3
<1>8. Y \in SUBSET Tokens BY DEF LiveResets
<1>9. Cardinality(LiveResets \ Y) + Cardinality(Behind(Y)) <= Cardinality(Requests)
  BY <1>8 DEF Slack
<1> HIDE DEF Y
<1>10. /\ Cardinality(Behind(X)') \in Nat /\ Cardinality(Behind(Y)) \in Nat
       /\ Cardinality(Behind(X)') <= Cardinality(Behind(Y)) - 1
  BY <1>5, <1>6, AllFinite, OneFewer
<1>11. /\ Cardinality(LiveResets' \ X) \in Nat /\ Cardinality(LiveResets \ Y) \in Nat
       /\ Cardinality(LiveResets' \ X) <= Cardinality(LiveResets \ Y) + 1
  BY <1>7, AllFinite, OneMore
<1>12. Cardinality(Requests) \in Nat BY AccountsAssumption, FS_CardinalityType
<1> QED BY <1>9, <1>10, <1>11, <1>12

LEMMA DoneQuiet ==
  ASSUME NEW r \in Requests, Others(r), ~IsOpen(r)', LiveResets' \subseteq LiveResets
  PROVE  Quiet
BY DEF Others, IsOpen, Quiet

LEMMA SameLive == ASSUME UNCHANGED tokens PROVE LiveResets' \subseteq LiveResets
BY DEF LiveResets

LEMMA SlackInit == Init => Slack
<1> SUFFICES ASSUME Init, NEW X \in SUBSET Tokens
             PROVE  Cardinality(LiveResets \ X) + Cardinality(Behind(X)) <= Cardinality(Requests)
  BY DEF Slack
<1>1. LiveResets = {} BY DEF Init, LiveResets, Live
<1>2. Behind(X) = {} BY DEF Init, Behind, IsOpen, Idle
<1>3. Cardinality(Requests) \in Nat BY AccountsAssumption, FS_CardinalityType
<1> QED BY <1>1, <1>2, <1>3, FS_EmptySet

LEMMA SlackStep == ASSUME Inv, Slack, [Next]_vars PROVE Slack'
<1>1. CASE UNCHANGED vars
  BY <1>1 DEF vars, data, Slack, LiveResets, Behind, Sees, IsOpen
<1>2. CASE Tick
  <2>1. Quiet BY <1>2, SameLive DEF Tick, data, Quiet, IsOpen
  <2> QED BY <2>1, QuietStep
<1>3. ASSUME NEW r \in Requests, Arrive(r) PROVE Slack'
  BY <1>3, OpenSlack DEF Arrive
<1>4. ASSUME NEW r \in Requests, NEW s \in Sessions, Authenticate(r, s) PROVE Slack'
  BY <1>4, OpenSlack DEF Authenticate
<1>5. ASSUME NEW r \in Requests, End(r), LiveResets' \subseteq LiveResets PROVE Slack'
  <2>1. Others(r) /\ ~IsOpen(r)' BY <1>5, EndGoes DEF Inv, IsOpen, Idle
  <2> QED BY <1>5, <2>1, DoneQuiet, QuietStep
<1>6. ASSUME NEW r \in Requests, Rollback(r) \/ RevokeSession(r) PROVE Slack'
  BY <1>5, <1>6, SameLive DEF Rollback, RevokeSession, data
<1>7. ASSUME NEW r \in Requests, NEW password \in Passwords,
             Register(r, password) \/ Login(r, password)
      PROVE  Slack'
  <2>1. Others(r) /\ ~IsOpen(r)'
    BY <1>7 DEF Register, Login, Inv, TypeOK, Others, IsOpen
  <2> QED BY <1>7, <2>1, SameLive, DoneQuiet, QuietStep DEF Register, Login, data
<1>8. ASSUME NEW r \in Requests, NEW now, NEW s \in Sessions, CreateAccessToken(r, s, now)
      PROVE  Slack'
  BY <1>5, <1>8, SameLive DEF CreateAccessToken
<1>9. ASSUME NEW r \in Requests, NEW now, NEW password, Sets(r, password, now) PROVE Slack'
  <2>1. IsOpen(r) /\ tokens' = InvalidateTokens(r, "PASSWORD_RESET") BY <1>9 DEF Sets
  <2>2. TokensGrow(tokens') BY <2>1, InvalidateGoes
  <2>3. \A t \in LiveResets' : tokens[t] # NULL
    BY <2>1, InvalidateGoes DEF LiveResets, Live
  <2> QED BY <1>5, <1>9, <2>2, <2>3, GrowsLive DEF Sets
<1>10. ASSUME NEW r \in Requests, NEW now, NEW t \in Tokens, IssueEmailVerification(r, t, now)
       PROVE  Slack'
  <2>1. LiveResets' \subseteq LiveResets
    BY <1>10 DEF IssueEmailVerification, LiveResets, Live, Inv, TypeOK
  <2> QED BY <1>5, <1>10, <2>1 DEF IssueEmailVerification
<1>11. ASSUME NEW r \in Requests, NEW now, NEW t \in Tokens, VerifyEmail(r, t, now)
       PROVE  Slack'
  <2>1. LiveResets' \subseteq LiveResets
    BY <1>11, VerifyGoes DEF LiveResets, Live
  <2> QED BY <1>5, <1>11, <2>1 DEF VerifyEmail
<1>12. ASSUME NEW r \in Requests, req[r] # Idle, NEW now \in Now(r), NEW t \in Tokens,
              RequestPasswordReset(r, t, now)
       PROVE  Slack'
  BY <1>12, RequestSlack
<1> QED BY <1>1, <1>2, <1>3, <1>4, <1>6, <1>7, <1>8, <1>9, <1>10, <1>11, <1>12,
           ChangeSets, ResetSets
    DEF Next

\* Of the requests that overlap, each leaves at most one recovery token that works.
THEOREM TokensBounded == Spec => []LiveTokenSlack
<1>1. Inv /\ Slack => LiveTokenSlack
  <2> SUFFICES ASSUME Slack PROVE LiveTokenSlack OBVIOUS
  <2>1. LiveResets \ {} = LiveResets OBVIOUS
  <2>2. Cardinality(LiveResets) + Cardinality(Behind({})) <= Cardinality(Requests)
    BY <2>1 DEF Slack
  <2>3. /\ Cardinality(LiveResets) \in Nat /\ Cardinality(Behind({})) \in Nat
        /\ Cardinality(Requests) \in Nat
    BY AllFinite, AccountsAssumption, FS_CardinalityType
  <2> QED BY <2>2, <2>3 DEF LiveTokenSlack
<1> QED BY InvInit, StepGoes, SlackInit, SlackStep, <1>1, PTL DEF Spec

-----------------------------------------------------------------------------
(***************************************************************************)
(* The limiter of attempts. What overlapping logins may pass is counted in *)
(* ways of choosing, so the arithmetic of factorials comes first.          *)
(***************************************************************************)
Before == {pair \in Nat \X Nat : pair[1] < pair[2]}

\* A set of numbers with 0 and the successor of each of its members is Nat.
LEMMA Induction ==
  ASSUME NEW T \in SUBSET Nat, 0 \in T, \A n \in T : n + 1 \in T
  PROVE  T = Nat
<1> SUFFICES ASSUME Nat \ T # {} PROVE FALSE
  OBVIOUS
<1>1. IsWellFoundedOn(Before, Nat)
  BY NatLessThanWellFounded, Zenon DEF OpToRel, Before
<1>2. \E n \in Nat \ T : \A m \in Nat \ T : ~(<<m, n>> \in Before)
  BY <1>1, WFMin, Zenon
<1>3. PICK n \in Nat \ T : \A m \in Nat \ T : ~(<<m, n>> \in Before)
  BY <1>2
<1>4. n - 1 \in Nat /\ <<n - 1, n>> \in Before
  BY DEF Before
<1>5. (n - 1) + 1 \in T
  BY <1>3, <1>4
<1> QED
  BY <1>5

(***************************************************************************)
(* The factorial is what its definition says.                              *)
(***************************************************************************)
\* f has the factorials up to n.
Factorials(f, n) == \A i \in 0 .. n : f[i] = IF i = 0 THEN 1 ELSE i * f[i - 1]

LEMMA FactorialsExist ==
  ASSUME NEW n \in Nat
  PROVE  \E f : Factorials(f, n)
<1> DEFINE T == {k \in Nat : \E f : Factorials(f, k)}
<1>1. 0 \in T
  <2> DEFINE f == [i \in 0 .. 0 |-> 1]
  <2>1. Factorials(f, 0)
    BY DEF Factorials
  <2> QED
    BY <2>1
<1>2. ASSUME NEW k \in T PROVE k + 1 \in T
  <2>1. PICK f : Factorials(f, k)
    OBVIOUS
  <2> DEFINE next == (k + 1) * f[k]
             g == [i \in 0 .. (k + 1) |-> IF i = k + 1 THEN next ELSE f[i]]
  <2>2. /\ g[k + 1] = next
        /\ \A i \in 0 .. k : g[i] = f[i]
    OBVIOUS
  <2> HIDE DEF g
  <2>3. ASSUME NEW i \in 0 .. (k + 1)
        PROVE  g[i] = IF i = 0 THEN 1 ELSE i * g[i - 1]
    <3>1. CASE i = k + 1
      <4>1. i # 0 /\ i - 1 = k /\ k \in 0 .. k
        BY <3>1
      <4>2. g[i - 1] = f[k]
        BY <2>2, <4>1
      <4> QED
        BY <2>2, <3>1, <4>1, <4>2
    <3>2. CASE i = 0
      BY <2>1, <2>2, <3>2 DEF Factorials
    <3>3. CASE i \in 1 .. k
      <4>1. g[i] = f[i] /\ g[i - 1] = f[i - 1]
        BY <2>2, <3>3
      <4> QED
        BY <2>1, <3>3, <4>1 DEF Factorials
    <3> QED
      BY <3>1, <3>2, <3>3
  <2>4. Factorials(g, k + 1)
    BY <2>3 DEF Factorials
  <2> QED
    BY <2>4
<1>3. T = Nat
  <2> HIDE DEF T
  <2>1. T \in SUBSET Nat
    BY DEF T
  <2> QED
    BY <1>1, <1>2, <2>1, Induction
<1> QED
  BY <1>3

LEMMA FactorialsAgree ==
  ASSUME NEW f, NEW g, NEW n \in Nat, NEW m \in Nat, Factorials(f, n), Factorials(g, m)
  PROVE  \A i \in Nat : i <= n /\ i <= m => f[i] = g[i]
<1> DEFINE T == {i \in Nat : i <= n /\ i <= m => f[i] = g[i]}
<1>1. 0 \in T
  BY DEF Factorials
<1>2. ASSUME NEW i \in T PROVE i + 1 \in T
  <2> SUFFICES ASSUME i + 1 <= n, i + 1 <= m PROVE f[i + 1] = g[i + 1]
    OBVIOUS
  <2>1. f[i] = g[i]
    OBVIOUS
  <2>2. i + 1 \in 0 .. n /\ i + 1 \in 0 .. m /\ i + 1 # 0 /\ (i + 1) - 1 = i
    OBVIOUS
  <2> QED
    BY <2>1, <2>2 DEF Factorials
<1>3. T = Nat
  <2> HIDE DEF T
  <2>1. T \in SUBSET Nat
    BY DEF T
  <2> QED
    BY <1>1, <1>2, <2>1, Induction
<1> QED
  BY <1>3

LEMMA FactorialDef ==
  factorial = [n \in Nat |-> IF n = 0 THEN 1 ELSE n * factorial[n - 1]]
<1> DEFINE upto(n) == CHOOSE f : Factorials(f, n)
           g == [n \in Nat |-> upto(n)[n]]
<1>1. \A n \in Nat : Factorials(upto(n), n)
  BY FactorialsExist
<1> HIDE DEF upto
<1>2. ASSUME NEW n \in Nat PROVE g[n] = IF n = 0 THEN 1 ELSE n * g[n - 1]
  <2>1. upto(n)[n] = IF n = 0 THEN 1 ELSE n * upto(n)[n - 1]
    <3>1. n \in 0 .. n /\ Factorials(upto(n), n)
      BY <1>1
    <3> QED
      BY <3>1 DEF Factorials
  <2>2. CASE n # 0
    <3>1. n - 1 \in Nat /\ n - 1 <= n /\ n - 1 <= n - 1
      BY <2>2
    <3>2. upto(n)[n - 1] = upto(n - 1)[n - 1]
      BY <1>1, <3>1, FactorialsAgree
    <3> QED
      BY <2>1, <2>2, <3>1, <3>2
  <2> QED
    BY <2>1, <2>2
<1>3. g = [n \in Nat |-> IF n = 0 THEN 1 ELSE n * g[n - 1]]
  <2>1. g = [n \in Nat |-> g[n]]
    OBVIOUS
  <2> HIDE DEF g
  <2> QED
    BY <1>2, <2>1
<1> HIDE DEF g
<1> QED
  BY <1>3 DEF factorial

LEMMA FactorialSteps ==
  /\ factorial[0] = 1
  /\ \A n \in Nat : factorial[n + 1] = (n + 1) * factorial[n]
<1>1. ASSUME NEW n \in Nat PROVE factorial[n] = IF n = 0 THEN 1 ELSE n * factorial[n - 1]
  BY FactorialDef
<1> QED
  BY <1>1

LEMMA FactorialPositive == \A n \in Nat : factorial[n] \in Nat \ {0}
<1> DEFINE T == {n \in Nat : factorial[n] \in Nat \ {0}}
<1>1. 0 \in T
  BY FactorialSteps
<1>2. ASSUME NEW n \in T PROVE n + 1 \in T
  <2>1. factorial[n] \in Nat \ {0} /\ factorial[n + 1] = (n + 1) * factorial[n]
    BY FactorialSteps
  <2>2. \A x \in Nat \ {0}, y \in Nat \ {0} : x * y \in Nat \ {0}
    OBVIOUS
  <2>3. n + 1 \in Nat \ {0}
    OBVIOUS
  <2> QED
    BY <2>1, <2>2, <2>3
<1>3. T = Nat
  <2> HIDE DEF T
  <2>1. T \in SUBSET Nat
    BY DEF T
  <2> QED
    BY <1>1, <1>2, <2>1, Induction
<1> QED
  BY <1>3

(***************************************************************************)
(* The ways of choosing, as the triangle of Pascal.                        *)
(***************************************************************************)
Ways(i, j) == choose(i + j, j)

\* w divides (i + j)! into i! and j!.
Splits(w, i, j) == w * (factorial[i] * factorial[j]) = factorial[i + j]

LEMMA Product ==
  ASSUME NEW x \in Nat, NEW y \in Nat
  PROVE  x * y \in Nat
OBVIOUS

LEMMA SplitsOnce ==
  ASSUME NEW i \in Nat, NEW j \in Nat, NEW v \in Nat, NEW w \in Nat,
         Splits(v, i, j), Splits(w, i, j)
  PROVE  v = w
<1> DEFINE d == factorial[i] * factorial[j]
<1>1. d \in Nat \ {0} /\ v * d = w * d
  <2>1. \A x \in Nat \ {0}, y \in Nat \ {0} : x * y \in Nat \ {0}
    OBVIOUS
  <2> QED
    BY <2>1, FactorialPositive DEF Splits
<1> HIDE DEF d
<1> QED
  BY <1>1

\* What splits for i and j is what splits one row above, on both sides.
LEMMA SplitsAbove ==
  ASSUME NEW i \in Nat, NEW j \in Nat, NEW v \in Nat, NEW w \in Nat,
         Splits(v, i, j + 1), Splits(w, i + 1, j)
  PROVE  Splits(v + w, i + 1, j + 1)
<1> DEFINE p == factorial[i]
           q == factorial[j]
           n == factorial[i + j + 1]
<1>1. p \in Nat /\ q \in Nat /\ n \in Nat
  BY FactorialPositive
<1>2. factorial[i + 1] = (i + 1) * p /\ factorial[j + 1] = (j + 1) * q
  BY FactorialSteps
<1>3. factorial[(i + 1) + (j + 1)] = (i + j + 2) * n
  <2>1. (i + 1) + (j + 1) = (i + j + 1) + 1 /\ i + j + 1 \in Nat
    OBVIOUS
  <2>2. factorial[(i + j + 1) + 1] = ((i + j + 1) + 1) * n
    BY <2>1, FactorialSteps
  <2> QED
    BY <2>1, <2>2
<1>4. v * (p * ((j + 1) * q)) = n
  BY <1>2 DEF Splits
<1>5. w * (((i + 1) * p) * q) = n
  BY <1>2 DEF Splits
<1> HIDE DEF p, q, n
<1>6. (v + w) * (((i + 1) * p) * ((j + 1) * q)) = (i + j + 2) * n
  <2>1. (v + w) * (((i + 1) * p) * ((j + 1) * q))
          = (i + 1) * (v * (p * ((j + 1) * q))) + (j + 1) * (w * (((i + 1) * p) * q))
    BY <1>1
  <2>2. (i + 1) * n + (j + 1) * n = (i + j + 2) * n
    BY <1>1
  <2> QED
    BY <1>4, <1>5, <2>1, <2>2
<1> QED
  BY <1>2, <1>3, <1>6 DEF Splits

LEMMA SplitsEdge ==
  ASSUME NEW n \in Nat
  PROVE  Splits(1, 0, n) /\ Splits(1, n, 0)
<1>1. factorial[n] \in Nat /\ factorial[0] = 1
  BY FactorialPositive, FactorialSteps
<1> QED
  BY <1>1 DEF Splits

LEMMA SomethingSplits ==
  \A i \in Nat, j \in Nat : \E w \in Nat : Splits(w, i, j)
<1> DEFINE T == {n \in Nat : \A i \in Nat, j \in Nat :
                   i + j = n => \E w \in Nat : Splits(w, i, j)}
<1>1. 0 \in T
  BY SplitsEdge
<1>2. ASSUME NEW n \in T PROVE n + 1 \in T
  <2> SUFFICES ASSUME NEW i \in Nat, NEW j \in Nat, i + j = n + 1
               PROVE  \E w \in Nat : Splits(w, i, j)
    OBVIOUS
  <2>1. CASE i = 0 \/ j = 0
    BY <2>1, SplitsEdge
  <2>2. CASE i # 0 /\ j # 0
    <3>1. /\ i - 1 \in Nat /\ j - 1 \in Nat
          /\ (i - 1) + ((j - 1) + 1) = n /\ ((i - 1) + 1) + (j - 1) = n
          /\ (i - 1) + 1 = i /\ (j - 1) + 1 = j
      BY <2>2
    <3>2. PICK v \in Nat : Splits(v, i - 1, (j - 1) + 1)
      BY <3>1
    <3>3. PICK w \in Nat : Splits(w, (i - 1) + 1, j - 1)
      BY <3>1
    <3>4. Splits(v + w, (i - 1) + 1, (j - 1) + 1)
      BY <3>1, <3>2, <3>3, SplitsAbove
    <3> QED
      BY <3>1, <3>4
  <2> QED
    BY <2>1, <2>2
<1>3. T = Nat
  <2> HIDE DEF T
  <2>1. T \in SUBSET Nat
    BY DEF T
  <2> QED
    BY <1>1, <1>2, <2>1, Induction
<1>4. ASSUME NEW i \in Nat, NEW j \in Nat PROVE \E w \in Nat : Splits(w, i, j)
  <2>1. i + j \in T
    <3> HIDE DEF T
    <3> QED
      BY <1>3
  <2> QED
    BY <2>1
<1> QED
  BY <1>4

LEMMA Quotient ==
  ASSUME NEW w \in Nat, NEW d \in Nat \ {0}
  PROVE  (w * d) \div d = w
OBVIOUS

LEMMA WaysSplits ==
  ASSUME NEW i \in Nat, NEW j \in Nat
  PROVE  Ways(i, j) \in Nat /\ Splits(Ways(i, j), i, j)
<1>1. PICK w \in Nat : Splits(w, i, j)
  BY SomethingSplits
<1> DEFINE d == factorial[j] * factorial[i]
<1>2. d \in Nat \ {0} /\ factorial[i + j] = w * d /\ (i + j) - j = i
  <2>1. \A x \in Nat \ {0}, y \in Nat \ {0} : x * y \in Nat \ {0} /\ x * y = y * x
    OBVIOUS
  <2> QED
    BY <1>1, <2>1, FactorialPositive DEF Splits
<1>3. Ways(i, j) = factorial[i + j] \div d
  BY <1>2 DEF Ways, choose
<1> HIDE DEF d
<1>4. Ways(i, j) = w
  BY <1>2, <1>3, Quotient
<1> QED
  BY <1>1, <1>4

LEMMA Pascal ==
  ASSUME NEW i \in Nat, NEW j \in Nat
  PROVE  /\ Ways(0, j) = 1 /\ Ways(i, 0) = 1
         /\ Ways(i + 1, j + 1) = Ways(i, j + 1) + Ways(i + 1, j)
<1>1. Ways(0, j) = 1 /\ Ways(i, 0) = 1
  BY SplitsEdge, WaysSplits, SplitsOnce
<1>2. Ways(i + 1, j + 1) = Ways(i, j + 1) + Ways(i + 1, j)
  <2>1. /\ Ways(i, j + 1) \in Nat /\ Splits(Ways(i, j + 1), i, j + 1)
        /\ Ways(i + 1, j) \in Nat /\ Splits(Ways(i + 1, j), i + 1, j)
        /\ Ways(i + 1, j + 1) \in Nat /\ Splits(Ways(i + 1, j + 1), i + 1, j + 1)
    <3>1. i + 1 \in Nat /\ j + 1 \in Nat
      OBVIOUS
    <3> QED
      BY <3>1, WaysSplits
  <2>2. Splits(Ways(i, j + 1) + Ways(i + 1, j), i + 1, j + 1)
    BY <2>1, SplitsAbove
  <2> QED
    BY <2>1, <2>2, SplitsOnce
<1> QED
  BY <1>1, <1>2

(***************************************************************************)
(* What one more of k adds at level v.                                     *)
(***************************************************************************)
Gain(v, k) == Ways(v, k) - Ways(v - 1, k)

LEMMA GainSteps ==
  ASSUME NEW v \in Nat \ {0}, NEW k \in Nat
  PROVE  Gain(v, 0) = 0 /\ Gain(v, k + 1) = Ways(v, k) /\ Gain(v, k) \in Int
<1>1. v - 1 \in Nat /\ (v - 1) + 1 = v
  OBVIOUS
<1>2. Ways(v, 0) = 1 /\ Ways(v - 1, 0) = 1
  BY <1>1, Pascal
<1>3. Ways((v - 1) + 1, k + 1) = Ways(v - 1, k + 1) + Ways((v - 1) + 1, k)
  BY <1>1, Pascal
<1>4. Ways(v, k) \in Nat /\ Ways(v - 1, k) \in Nat /\ Ways(v - 1, k + 1) \in Nat
  <2>1. v \in Nat /\ k + 1 \in Nat
    OBVIOUS
  <2> QED
    BY <1>1, <2>1, WaysSplits
<1> QED
  BY <1>1, <1>2, <1>3, <1>4 DEF Gain

LEMMA WaysGrow ==
  ASSUME NEW i \in Nat, NEW j \in Nat
  PROVE  Ways(i, j) <= Ways(i, j + 1)
<1>1. CASE i = 0
  <2>1. Ways(0, j) = 1 /\ Ways(0, j + 1) = 1
    BY Pascal
  <2> QED
    BY <1>1, <2>1
<1>2. CASE i # 0
  <2>1. i - 1 \in Nat /\ (i - 1) + 1 = i
    BY <1>2
  <2>2. Ways((i - 1) + 1, j + 1) = Ways(i - 1, j + 1) + Ways((i - 1) + 1, j)
    BY <2>1, Pascal
  <2>3. Ways(i - 1, j + 1) \in Nat /\ Ways(i, j) \in Nat
    <3>1. j + 1 \in Nat
      OBVIOUS
    <3> QED
      BY <2>1, <3>1, WaysSplits
  <2> QED
    BY <2>1, <2>2, <2>3
<1> QED
  BY <1>1, <1>2

LEMMA GainGrows ==
  ASSUME NEW v \in Nat \ {0}, NEW k \in Nat, NEW m \in Nat, k <= m
  PROVE  Gain(v, k) <= Gain(v, m) /\ Gain(v, k) \in Nat
<1>1. \A n \in Nat : Gain(v, n) \in Int /\ Gain(v, n) <= Gain(v, n + 1)
  <2> SUFFICES ASSUME NEW n \in Nat PROVE Gain(v, n) \in Int /\ Gain(v, n) <= Gain(v, n + 1)
    OBVIOUS
  <2>1. Gain(v, 0) = 0 /\ Gain(v, n + 1) = Ways(v, n) /\ Gain(v, n) \in Int
    BY GainSteps
  <2>2. Ways(v, n) \in Nat
    BY WaysSplits
  <2>3. CASE n = 0
    BY <2>1, <2>2, <2>3
  <2>4. CASE n # 0
    <3>1. n - 1 \in Nat /\ (n - 1) + 1 = n
      BY <2>4
    <3>2. Gain(v, (n - 1) + 1) = Ways(v, n - 1) /\ Ways(v, n - 1) <= Ways(v, (n - 1) + 1)
      BY <3>1, GainSteps, WaysGrow
    <3> QED
      BY <2>1, <3>1, <3>2
  <2> QED
    BY <2>3, <2>4
<1> DEFINE T == {d \in Nat : \A n \in Nat : Gain(v, n) <= Gain(v, n + d)}
<1>2. 0 \in T
  BY <1>1
<1>3. ASSUME NEW d \in T PROVE d + 1 \in T
  <2> SUFFICES ASSUME NEW n \in Nat PROVE Gain(v, n) <= Gain(v, n + (d + 1))
    OBVIOUS
  <2>1. n + (d + 1) = (n + d) + 1 /\ n + d \in Nat
    OBVIOUS
  <2>2. /\ Gain(v, n) <= Gain(v, n + d) /\ Gain(v, n + d) <= Gain(v, (n + d) + 1)
        /\ Gain(v, n) \in Int /\ Gain(v, n + d) \in Int /\ Gain(v, (n + d) + 1) \in Int
    BY <1>1, <2>1
  <2> QED
    BY <2>1, <2>2
<1>4. T = Nat
  <2> HIDE DEF T
  <2>1. T \in SUBSET Nat
    BY DEF T
  <2> QED
    BY <1>2, <1>3, <2>1, Induction
<1>5. m - k \in Nat /\ k + (m - k) = m /\ k - 0 \in Nat /\ 0 + k = k
  OBVIOUS
<1>6. Gain(v, k) <= Gain(v, k + (m - k)) /\ Gain(v, 0) <= Gain(v, 0 + k)
  BY <1>4, <1>5
<1>7. Gain(v, 0) = 0
  BY GainSteps
<1> QED
  BY <1>1, <1>5, <1>6, <1>7

(***************************************************************************)
(* The slack, as sums over the levels of the count: s[v] is what may have  *)
(* been admitted at the v highest levels, crowd[v] how many logins are     *)
(* above the level below them.                                             *)
(***************************************************************************)
Levels == 1 .. MaxAttempts - 1

Covers(s, crowd) ==
  /\ s \in [0 .. MaxAttempts - 1 -> Nat]
  /\ s[0] = 0
  /\ \A v \in Levels : s[v] <= s[v - 1] + Gain(v, crowd[v])

LEMMA NothingCovers ==
  ASSUME NEW crowd \in [Levels -> Nat]
  PROVE  Covers([v \in 0 .. MaxAttempts - 1 |-> 0], crowd)
<1>1. MaxAttempts - 1 \in Nat
  BY LimiterAssumption
<1>2. ASSUME NEW v \in Levels PROVE 0 <= 0 + Gain(v, crowd[v])
  <2>1. v \in Nat \ {0} /\ crowd[v] \in Nat /\ crowd[v] <= crowd[v]
    BY <1>1 DEF Levels
  <2>2. Gain(v, crowd[v]) \in Nat
    BY <2>1, GainGrows
  <2> QED
    BY <2>2
<1>3. \A v \in Levels : v \in 0 .. MaxAttempts - 1 /\ v - 1 \in 0 .. MaxAttempts - 1
  BY <1>1 DEF Levels
<1> QED
  BY <1>1, <1>2, <1>3 DEF Covers

LEMMA MoreCover ==
  ASSUME NEW s, NEW crowd \in [Levels -> Nat], NEW more \in [Levels -> Nat],
         Covers(s, crowd), \A v \in Levels : crowd[v] <= more[v]
  PROVE  Covers(s, more)
<1>1. MaxAttempts - 1 \in Nat
  BY LimiterAssumption
<1>2. ASSUME NEW v \in Levels PROVE s[v] <= s[v - 1] + Gain(v, more[v])
  <2>1. /\ v \in Nat \ {0} /\ v \in 0 .. MaxAttempts - 1 /\ v - 1 \in 0 .. MaxAttempts - 1
        /\ crowd[v] \in Nat /\ more[v] \in Nat /\ more[v] <= more[v]
    BY <1>1 DEF Levels
  <2>2. /\ Gain(v, crowd[v]) <= Gain(v, more[v])
        /\ Gain(v, crowd[v]) \in Nat /\ Gain(v, more[v]) \in Nat
    BY <2>1, GainGrows
  <2>3. s[v] \in Nat /\ s[v - 1] \in Nat /\ s[v] <= s[v - 1] + Gain(v, crowd[v])
    BY <2>1 DEF Covers
  <2> QED
    BY <2>2, <2>3
<1> QED
  BY <1>2 DEF Covers

\* Where no more than n are above a level, what is admitted there has its bound.
LEMMA CrowdBounds ==
  ASSUME NEW s, NEW crowd \in [Levels -> Nat], Covers(s, crowd), NEW n \in Nat,
         NEW top \in 0 .. MaxAttempts - 1, \A v \in 1 .. top : crowd[v] <= n
  PROVE  s[top] <= Ways(top, n) - 1
<1>1. MaxAttempts - 1 \in Nat
  BY LimiterAssumption
<1> DEFINE T == {v \in Nat : v <= top => s[v] <= Ways(v, n) - 1}
<1>2. 0 \in T
  <2>1. s[0] = 0 /\ Ways(0, n) = 1
    BY Pascal DEF Covers
  <2> QED
    BY <2>1
<1>3. ASSUME NEW v \in T PROVE v + 1 \in T
  <2> SUFFICES ASSUME v + 1 <= top PROVE s[v + 1] <= Ways(v + 1, n) - 1
    OBVIOUS
  <2>1. /\ v + 1 \in Levels /\ v + 1 \in Nat \ {0} /\ v + 1 \in 1 .. top
        /\ v + 1 \in 0 .. MaxAttempts - 1 /\ v \in 0 .. MaxAttempts - 1
        /\ (v + 1) - 1 = v
    BY <1>1 DEF Levels
  <2>2. s[v + 1] <= s[v] + Gain(v + 1, crowd[v + 1]) /\ s[v] <= Ways(v, n) - 1
    BY <2>1 DEF Covers
  <2>3. crowd[v + 1] \in Nat /\ crowd[v + 1] <= n /\ n <= n
    BY <2>1
  <2>4. /\ Gain(v + 1, crowd[v + 1]) <= Gain(v + 1, n)
        /\ Gain(v + 1, crowd[v + 1]) \in Nat /\ Gain(v + 1, n) \in Nat
    BY <2>1, <2>3, GainGrows
  <2>5. Gain(v + 1, n) = Ways(v + 1, n) - Ways(v, n)
    BY <2>1 DEF Gain
  <2>6. Ways(v, n) \in Nat /\ Ways(v + 1, n) \in Nat /\ s[v] \in Nat /\ s[v + 1] \in Nat
    BY <2>1, WaysSplits DEF Covers
  <2> QED
    BY <2>2, <2>4, <2>5, <2>6
<1>4. T = Nat
  <2> HIDE DEF T
  <2>1. T \in SUBSET Nat
    BY DEF T
  <2> QED
    BY <1>2, <1>3, <2>1, Induction
<1>5. top \in Nat /\ top <= top
  BY <1>1
<1> QED
  BY <1>4, <1>5

\* One more above a level makes up for one more admitted and for all above it that
\* fall back to it.
LEMMA OneMoreCovers ==
  ASSUME NEW s, NEW crowd \in [Levels -> Nat], NEW more \in [Levels -> Nat],
         Covers(s, crowd), NEW at \in Levels, crowd[at] + 1 <= more[at],
         \A v \in Levels : v < at => crowd[v] <= crowd[at],
         \A v \in Levels : v > at => crowd[v] <= more[v]
  PROVE  \E t : Covers(t, more) /\ t[MaxAttempts - 1] = s[MaxAttempts - 1] + 1
<1> DEFINE t == [v \in 0 .. MaxAttempts - 1 |-> IF v < at THEN 0 ELSE s[v] + 1]
<1>1. MaxAttempts - 1 \in Nat /\ at \in Nat \ {0} /\ at \in 0 .. MaxAttempts - 1
  BY LimiterAssumption DEF Levels
<1>2. t \in [0 .. MaxAttempts - 1 -> Nat] /\ t[0] = 0
  BY <1>1 DEF Covers
<1>3. ASSUME NEW v \in Levels PROVE t[v] <= t[v - 1] + Gain(v, more[v])
  <2>1. /\ v \in Nat \ {0} /\ v \in 0 .. MaxAttempts - 1 /\ v - 1 \in 0 .. MaxAttempts - 1
        /\ crowd[v] \in Nat /\ more[v] \in Nat
    BY <1>1 DEF Levels
  <2>2. /\ t[v] = (IF v < at THEN 0 ELSE s[v] + 1)
        /\ t[v - 1] = (IF v - 1 < at THEN 0 ELSE s[v - 1] + 1)
    BY <2>1
  <2>3. s[v] \in Nat /\ s[v - 1] \in Nat /\ s[v] <= s[v - 1] + Gain(v, crowd[v])
    BY <2>1 DEF Covers
  <2>4. Gain(v, more[v]) \in Nat
    BY <2>1, GainGrows
  <2> HIDE DEF t
  <2>5. CASE v < at
    <3>1. t[v] = 0 /\ t[v - 1] = 0
      BY <1>1, <2>1, <2>2, <2>5
    <3> QED
      BY <2>4, <3>1
  <2>6. CASE v = at
    <3> DEFINE n == crowd[at]
    <3>1. n \in Nat /\ n + 1 \in Nat /\ n + 1 <= more[v]
      BY <2>1, <2>6
    <3>2. s[v - 1] <= Ways(v - 1, n) - 1
      <4>1. \A u \in 1 .. v - 1 : crowd[u] <= n
        BY <1>1, <2>1, <2>6 DEF Levels
      <4> HIDE DEF n
      <4> QED
        BY <2>1, <3>1, <4>1, CrowdBounds
    <3>3. /\ Gain(v, n + 1) = Ways(v, n) /\ Gain(v, n + 1) <= Gain(v, more[v])
          /\ Gain(v, n + 1) \in Nat
      BY <2>1, <3>1, GainSteps, GainGrows
    <3>4. Gain(v, n) = Ways(v, n) - Ways(v - 1, n)
      BY DEF Gain
    <3>5. Ways(v, n) \in Nat /\ Ways(v - 1, n) \in Nat
      <4>1. v \in Nat /\ v - 1 \in Nat
        BY <2>1
      <4> QED
        BY <3>1, <4>1, WaysSplits
    <3>6. t[v] = s[v] + 1 /\ t[v - 1] = 0 /\ s[v] <= s[v - 1] + Gain(v, n)
      BY <1>1, <2>2, <2>3, <2>6
    <3> QED
      BY <2>3, <2>4, <3>2, <3>3, <3>4, <3>5, <3>6
  <2>7. CASE v > at
    <3>1. /\ Gain(v, crowd[v]) <= Gain(v, more[v])
          /\ Gain(v, crowd[v]) \in Nat
      BY <2>1, <2>7, GainGrows
    <3>2. t[v] = s[v] + 1 /\ t[v - 1] = s[v - 1] + 1
      BY <1>1, <2>1, <2>2, <2>7
    <3> QED
      BY <2>3, <2>4, <3>1, <3>2
  <2> QED
    BY <1>1, <2>1, <2>5, <2>6, <2>7
<1>4. t[MaxAttempts - 1] = s[MaxAttempts - 1] + 1
  BY <1>1 DEF Levels
<1> HIDE DEF t
<1>5. Covers(t, more)
  BY <1>2, <1>3 DEF Covers
<1> QED
  BY <1>4, <1>5

LEMMA FewerLogins ==
  ASSUME NEW S, NEW T, S \subseteq T, T \subseteq Logins
  PROVE  /\ Cardinality(S) \in Nat /\ Cardinality(T) \in Nat
         /\ Cardinality(S) <= Cardinality(T)
         /\ S # T => Cardinality(S) + 1 <= Cardinality(T)
<1>1. IsFiniteSet(T) /\ IsFiniteSet(S)
  BY LimiterAssumption, FS_Subset
<1>2. Cardinality(S) \in Nat /\ Cardinality(T) \in Nat
  BY <1>1, FS_CardinalityType
<1>3. Cardinality(S) <= Cardinality(T) /\ (S # T => Cardinality(S) # Cardinality(T))
  BY <1>1, FS_Subset
<1> QED
  BY <1>2, <1>3

(***************************************************************************)
(* What a login does.                                                      *)
(***************************************************************************)
LoginState == {NoLogin} \cup Arrived \cup Deciding \cup Verifying \cup Forgetting

\* A login came before now, and knows of no block that is still in force.
Timely(state, now) ==
  /\ state.phase # "idle" => state.now <= now
  /\ state.phase \in {"verifying", "forgetting"} => state.block = NONE \/ state.block <= now
  /\ state.phase = "deciding" /\ state.seen # NONE => state.seen.count >= 1

LimiterInv ==
  /\ LimiterTypeOK
  /\ \A r \in Logins : Timely(login[r], ticks)
  /\ row # NONE => row.count >= 1
  /\ row = NONE => window.counted = 0

LEMMA LoginPhase ==
  ASSUME LimiterTypeOK, NEW r \in Logins
  PROVE  /\ login[r] \in LoginState
         /\ At(r, "arrived") => login[r] \in Arrived
         /\ At(r, "deciding") => login[r] \in Deciding
         /\ At(r, "verifying") => login[r] \in Verifying
         /\ At(r, "forgetting") => login[r] \in Forgetting
BY DEF LimiterTypeOK, LoginState, At, NoLogin, Arrived, Deciding, Verifying, Forgetting

\* A login that goes on is in another phase, and reads only what there is.
Moves(r) ==
  \E state \in LoginState :
    /\ Goes(r, state)
    /\ Timely(state, ticks)
    /\ state.phase # login[r].phase
    /\ state.phase = "deciding" => state.seen = row /\ At(r, "arrived") /\ state.now = login[r].now
    /\ state.phase = "arrived" => state.now = ticks

Steps(r) ==
  \/ Enter(r) \/ GetRateLimit(r) \/ Fail(r)
  \/ AddRateLimit(r) \/ StartWindow(r) \/ RefuseAndBlock(r) \/ Count(r)
  \/ Verified(r) \/ Reset(r)

LEMMA StepsMove ==
  ASSUME LimiterInv, NEW r \in Logins, Steps(r)
  PROVE  Moves(r)
<1>1. /\ LimiterTypeOK /\ Timely(login[r], ticks) /\ ticks \in Ticks /\ row \in Seen
      /\ row # NONE => row.count >= 1
  BY DEF LimiterInv, LimiterTypeOK
<1>2. /\ At(r, "arrived") => login[r] \in Arrived
      /\ At(r, "deciding") => login[r] \in Deciding
      /\ At(r, "verifying") => login[r] \in Verifying
      /\ At(r, "forgetting") => login[r] \in Forgetting
  BY <1>1, LoginPhase
<1>3. CASE Enter(r)
  <2> DEFINE state == [phase |-> "arrived", now |-> ticks]
  <2>1. state \in Arrived
    BY <1>1 DEF Arrived
  <2>2. Timely(state, ticks) /\ Goes(r, state) /\ state.phase # login[r].phase
    BY <1>1, <1>3 DEF Timely, Enter, At, Ticks
  <2> QED
    BY <2>1, <2>2 DEF Moves, LoginState
<1>4. CASE GetRateLimit(r)
  <2> DEFINE state == [phase |-> "deciding", now |-> login[r].now, seen |-> row]
  <2>1. login[r] \in Arrived /\ login[r].phase = "arrived"
    BY <1>2, <1>4 DEF GetRateLimit, At
  <2>2. state \in Deciding
    BY <1>1, <2>1 DEF Arrived, Deciding
  <2>3. Timely(state, ticks) /\ Goes(r, state) /\ state.phase # login[r].phase
    BY <1>1, <1>4, <2>1 DEF Timely, GetRateLimit
  <2>4. state.seen = row /\ At(r, "arrived") /\ state.now = login[r].now
    BY <2>1 DEF At
  <2> QED
    BY <2>2, <2>3, <2>4 DEF Moves, LoginState
<1>5. CASE Fail(r) \/ RefuseAndBlock(r) \/ Reset(r)
  <2>1. Goes(r, NoLogin) /\ login[r].phase # "idle"
    BY <1>5 DEF Fail, RefuseAndBlock, CanWrite, Reset, At
  <2> QED
    BY <2>1 DEF Moves, LoginState, NoLogin, Timely
<1>6. CASE AddRateLimit(r) \/ StartWindow(r) \/ Count(r)
  <2> DEFINE block == BlockOf(login[r].seen)
             state == [phase |-> "verifying", now |-> login[r].now, block |-> block]
  <2>1. /\ login[r] \in Deciding /\ login[r].phase = "deciding" /\ Goes(r, state)
        /\ login[r].seen # NONE => ~Blocked(login[r].seen, login[r].now)
    BY <1>2, <1>6 DEF AddRateLimit, StartWindow, Count, CanWrite, At, Allow
  <2>2. block \in Nat \cup {NONE} /\ (block # NONE => block <= login[r].now)
    <3>1. login[r].now \in Nat /\ login[r].seen \in Row \cup {NONE}
      BY <2>1 DEF Deciding, Ticks, Seen
    <3> QED
      BY <2>1, <3>1, LimiterAssumption DEF BlockOf, Row, Blocked
  <2> HIDE DEF block
  <2>3. state \in Verifying
    BY <2>1, <2>2 DEF Deciding, Verifying
  <2>4. login[r].now <= ticks /\ login[r].now \in Nat /\ ticks \in Nat
    BY <1>1, <2>1 DEF Timely, Deciding, Ticks
  <2>5. Timely(state, ticks) /\ state.phase # login[r].phase
    BY <2>1, <2>2, <2>4 DEF Timely
  <2> QED
    BY <2>1, <2>3, <2>5 DEF Moves, LoginState
<1>7. CASE Verified(r)
  <2> DEFINE state == [phase |-> "forgetting", now |-> login[r].now, block |-> login[r].block,
                       seen |-> row]
  <2>1. login[r] \in Verifying /\ login[r].phase = "verifying" /\ Goes(r, state)
    BY <1>2, <1>7 DEF Verified, At
  <2>2. state \in Forgetting
    BY <1>1, <2>1 DEF Verifying, Forgetting
  <2>3. Timely(state, ticks) /\ state.phase # login[r].phase
    BY <1>1, <2>1 DEF Timely
  <2> QED
    BY <2>1, <2>2, <2>3 DEF Moves, LoginState
<1> QED
  BY <1>3, <1>4, <1>5, <1>6, <1>7 DEF Steps

\* An UPDATE writes the columns that differ.
LEMMA WrittenColumns ==
  ASSUME row \in Row, NEW seen \in Row, NEW values \in Row
  PROVE  /\ Written(seen, values) \in Row
         /\ Written(seen, values).id = IF values.id # seen.id THEN values.id ELSE row.id
         /\ Written(seen, values).count =
              IF values.count # seen.count THEN values.count ELSE row.count
         /\ Written(seen, values).started =
              IF values.started # seen.started THEN values.started ELSE row.started
         /\ Written(seen, values).blocked =
              IF values.blocked # seen.blocked THEN values.blocked ELSE row.blocked
<1>1. DOMAIN row = {"id", "started", "count", "blocked"}
  BY DEF Row
<1> DEFINE new(column) == IF values[column] # seen[column] THEN values[column]
                          ELSE row[column]
<1>2. Written(seen, values) = [id |-> new("id"), started |-> new("started"),
                               count |-> new("count"), blocked |-> new("blocked")]
  BY <1>1 DEF Written
<1> QED
  BY <1>2 DEF Row

\* What Moves says of the logins.
LEMMA MovesGoes ==
  ASSUME LimiterTypeOK, NEW r \in Logins, Moves(r)
  PROVE  /\ login' \in [Logins -> LoginState]
         /\ \A q \in Logins : q # r => login'[q] = login[q]
         /\ Timely(login'[r], ticks) /\ login'[r].phase # login[r].phase
         /\ login'[r].phase = "deciding" =>
              login'[r].seen = row /\ At(r, "arrived") /\ login'[r].now = login[r].now
         /\ login'[r].phase = "arrived" => login'[r].now = ticks
BY DEF Moves, Goes, LimiterTypeOK, LoginState

\* What a step does to the row, to what has been created and to the window of time.
RowKept == row' = row /\ window' = window /\ created' = created
RowCreated(r) ==
  /\ row = NONE /\ row' \in Row /\ row'.count = 1 /\ created' \in 0 .. MaxRows
  /\ At(r, "deciding") /\ login'[r].phase = "verifying"
  /\ row'.started = login[r].now /\ window' = FirstOf(login[r].now)
RowRestarted(r) ==
  /\ row \in Row /\ row' \in Row /\ row'.count >= 1 /\ created' = created
  /\ At(r, "deciding") /\ login[r].seen \in Row /\ login[r].seen.id = row.id
  /\ WindowOver(login[r].seen, login[r].now) /\ login'[r].phase = "verifying"
  /\ row'.id = row.id /\ row'.started = login[r].now
  /\ window' = Restarted(login[r].now)
RowBlocked ==
  /\ row \in Row /\ row' \in Row /\ created' = created
  /\ row'.id = row.id /\ row'.count = row.count /\ row'.started = row.started
  /\ window' = window
RowCounted(r) ==
  /\ row \in Row /\ row' \in Row /\ created' = created
  /\ At(r, "deciding") /\ login[r].seen \in Row /\ login[r].seen.id = row.id
  /\ row'.id = row.id /\ row'.started = row.started
  /\ login[r].seen.count < MaxAttempts /\ row'.count = login[r].seen.count + 1
  /\ window' = [window EXCEPT !.counted = @ + 1, !.admitted = @ + 1]
RowGone == row' = NONE /\ window' = NoWindow /\ created' = created

LEMMA WindowsKept ==
  /\ NoWindow \in Windows /\ NoWindow.counted = 0 /\ NoWindow.admitted = 0
  /\ NoWindow.began = 0 /\ NoWindow.restarts = 0
  /\ \A now \in Ticks :
       /\ FirstOf(now) \in Windows /\ FirstOf(now).counted = 1 /\ FirstOf(now).admitted = 1
       /\ FirstOf(now).began = now /\ FirstOf(now).restarts = 0
BY LimiterAssumption DEF NoWindow, FirstOf, Windows, Ticks

LEMMA CountedWindow ==
  ASSUME window \in Windows,
         window' = [window EXCEPT !.counted = @ + 1, !.admitted = @ + 1]
  PROVE  /\ window' \in Windows /\ window.counted \in Nat
         /\ window'.counted = window.counted + 1 /\ window'.admitted = window.admitted + 1
         /\ window'.began = window.began /\ window'.restarts = window.restarts
<1>1. window' = [began |-> window.began, restarts |-> window.restarts,
                 counted |-> window.counted + 1, admitted |-> window.admitted + 1]
  BY DEF Windows
<1>2. /\ window.began \in Ticks /\ window.restarts \in Nat
      /\ window.counted \in Nat /\ window.admitted \in Nat
  BY DEF Windows
<1>3. window.counted + 1 \in Nat /\ window.admitted + 1 \in Nat
  BY <1>2
<1> QED
  BY <1>1, <1>2, <1>3 DEF Windows

LEMMA RestartedWindow ==
  ASSUME window \in Windows, NEW now \in Ticks, window' = Restarted(now)
  PROVE  /\ window' \in Windows /\ window'.counted = 1
         /\ \/ now - window.began >= Window /\ window' = FirstOf(now)
            \/ /\ ~(now - window.began >= Window)
               /\ window'.began = window.began /\ window'.restarts = window.restarts + 1
               /\ window'.admitted = window.admitted + 1
<1>1. CASE now - window.began >= Window
  BY <1>1, WindowsKept DEF Restarted
<1>2. CASE ~(now - window.began >= Window)
  <2>1. window' = [began |-> window.began, restarts |-> window.restarts + 1,
                   counted |-> 1, admitted |-> window.admitted + 1]
    BY <1>2 DEF Restarted, Windows
  <2>2. window.began \in Ticks /\ window.restarts \in Nat /\ window.admitted \in Nat
    BY DEF Windows
  <2>3. window.restarts + 1 \in Nat /\ window.admitted + 1 \in Nat
    BY <2>2
  <2> QED
    BY <1>2, <2>1, <2>2, <2>3 DEF Windows
<1> QED
  BY <1>1, <1>2

LEMMA RowSteps ==
  ASSUME LimiterInv, NEW r \in Logins, Steps(r)
  PROVE  /\ ticks' = ticks
         /\ RowKept \/ RowCreated(r) \/ RowRestarted(r) \/ RowBlocked
         \/ RowCounted(r) \/ RowGone
<1>1. /\ row \in Row \cup {NONE} /\ created \in 0 .. MaxRows /\ NONE \notin Row
      /\ row # NONE => row.count >= 1
  BY LimiterAssumption DEF LimiterInv, LimiterTypeOK, Seen
<1>2. ASSUME At(r, "deciding")
      PROVE  /\ login[r].seen \in Row \cup {NONE} /\ login[r].now \in Ticks
             /\ login[r].now \in Nat
             /\ login[r].seen # NONE => login[r].seen.count >= 1
  <2>1. login[r] \in Deciding /\ Timely(login[r], ticks)
    BY <1>2, LoginPhase DEF LimiterInv
  <2> QED
    BY <1>2, <2>1, LimiterAssumption DEF Deciding, Seen, Timely, At, Ticks
<1>3. CASE Enter(r) \/ GetRateLimit(r) \/ Fail(r) \/ Verified(r)
  BY <1>3 DEF Enter, GetRateLimit, Fail, Verified, RowKept
<1>4. CASE Reset(r)
  BY <1>4 DEF Reset, RowKept, RowGone
<1>5. CASE AddRateLimit(r)
  <2>1. /\ row = NONE /\ created' = created + 1 /\ created < MaxRows
        /\ window' = FirstOf(login[r].now) /\ login'[r].phase = "verifying"
        /\ row' = [id |-> created + 1, started |-> login[r].now, count |-> 1,
                   blocked |-> NONE]
        /\ ticks' = ticks
    BY <1>5 DEF AddRateLimit, Allow, Goes, LimiterInv, LimiterTypeOK
  <2>2. At(r, "deciding")
    BY <1>5 DEF AddRateLimit
  <2>3. created + 1 \in 1 .. MaxRows /\ created + 1 \in 0 .. MaxRows
    BY <1>1, <2>1, LimiterAssumption
  <2>4. row' \in Row /\ row'.count = 1 /\ row'.started = login[r].now
    BY <1>2, <2>1, <2>2, <2>3 DEF Row
  <2> QED
    BY <2>1, <2>2, <2>3, <2>4 DEF RowCreated
<1>6. CASE StartWindow(r) \/ RefuseAndBlock(r) \/ Count(r)
  <2> DEFINE seen == login[r].seen
             now == login[r].now
  <2>1. /\ CanWrite(r) /\ At(r, "deciding") /\ row # NONE /\ seen # NONE /\ row.id = seen.id
        /\ ticks' = ticks /\ created' = created
    BY <1>6 DEF StartWindow, RefuseAndBlock, Count, CanWrite
  <2>2. /\ row \in Row /\ seen \in Row /\ now \in Ticks /\ now \in Nat
        /\ seen.count >= 1 /\ row.count >= 1
    BY <1>1, <1>2, <2>1
  <2>3. CASE StartWindow(r)
    <3> DEFINE values == [seen EXCEPT !.started = now, !.count = 1, !.blocked = NONE]
    <3>1. /\ row' = Written(seen, values) /\ window' = Restarted(now)
          /\ WindowOver(seen, now) /\ login'[r].phase = "verifying"
      BY <2>3 DEF StartWindow, Allow, Goes, LimiterInv, LimiterTypeOK
    <3> HIDE DEF seen, now
    <3>2. /\ values \in Row /\ values.count = 1 /\ values.id = seen.id /\ values.started = now
          /\ now # seen.started
      <4>1. values \in Row /\ values.count = 1 /\ values.id = seen.id /\ values.started = now
        BY <2>2 DEF Row
      <4>2. seen.started \in Nat
        BY <2>2, LimiterAssumption DEF Row, Ticks
      <4> QED
        BY <2>2, <3>1, <4>1, <4>2, LimiterAssumption DEF WindowOver
    <3> HIDE DEF values
    <3>3. row' \in Row /\ row'.count >= 1 /\ row'.id = row.id /\ row'.started = now
      <4>1. /\ Written(seen, values) \in Row
            /\ Written(seen, values).count =
                 IF values.count # seen.count THEN values.count ELSE row.count
            /\ Written(seen, values).id = row.id /\ Written(seen, values).started = now
        BY <2>2, <3>2, WrittenColumns
      <4> QED
        BY <2>2, <3>1, <3>2, <4>1
    <3> QED
      BY <2>1, <2>2, <3>1, <3>3 DEF RowRestarted, seen, now
  <2>4. CASE RefuseAndBlock(r)
    <3> DEFINE values == [seen EXCEPT !.blocked = now + Block]
    <3>1. row' = Written(seen, values) /\ window' = window
      BY <2>4 DEF RefuseAndBlock
    <3> HIDE DEF seen, now
    <3>2. /\ values \in Row /\ values.count = seen.count /\ values.id = seen.id
          /\ values.started = seen.started
      BY <2>2, LimiterAssumption DEF Row
    <3> HIDE DEF values
    <3>3. /\ row' \in Row /\ row'.id = row.id /\ row'.count = row.count
          /\ row'.started = row.started
      BY <2>2, <3>1, <3>2, WrittenColumns
    <3> QED
      BY <2>1, <2>2, <3>1, <3>3 DEF RowBlocked
  <2>5. CASE Count(r)
    <3> DEFINE values == [seen EXCEPT !.count = @ + 1]
    <3>1. /\ row' = Written(seen, values) /\ seen.count < MaxAttempts
          /\ window' = [window EXCEPT !.counted = @ + 1, !.admitted = @ + 1]
      BY <2>5 DEF Count, UnderLimit
    <3> HIDE DEF now
    <3>2. /\ values \in Row /\ values.count = seen.count + 1 /\ values.id = seen.id
          /\ values.started = seen.started
      <4> HIDE DEF seen
      <4> QED
        BY <2>2 DEF Row
    <3>3. seen.count + 1 # seen.count
      <4>1. seen.count \in Nat
        BY <2>2 DEF Row
      <4> QED
        BY <4>1
    <3>4. /\ row' \in Row /\ row'.id = row.id /\ row'.count = seen.count + 1
          /\ row'.started = row.started
      <4> HIDE DEF seen, values
      <4> QED
        BY <2>2, <3>1, <3>2, <3>3, WrittenColumns
    <3> HIDE DEF values
    <3> QED
      BY <2>1, <2>2, <3>1, <3>4 DEF RowCounted
  <2> QED
    BY <1>6, <2>1, <2>3, <2>4, <2>5
<1> QED
  BY <1>3, <1>4, <1>5, <1>6 DEF Steps

LEMMA LimiterStart == LimiterInit => LimiterInv
BY LimiterAssumption, WindowsKept
   DEF LimiterInit, LimiterInv, LimiterTypeOK, Ticks, Seen, Timely, NoLogin

LEMMA TimePassesKeeps ==
  ASSUME LimiterInv, TimePasses
  PROVE  LimiterInv'
<1>1. /\ ticks \in Nat /\ ticks' = ticks + 1 /\ ticks' \in Ticks
      /\ UNCHANGED <<row, created, login, window>>
  BY LimiterAssumption DEF LimiterInv, LimiterTypeOK, TimePasses, Ticks
<1>2. ASSUME NEW r \in Logins PROVE Timely(login[r], ticks)'
  <2>1. Timely(login[r], ticks) /\ login[r] \in LoginState
    BY LoginPhase DEF LimiterInv
  <2>2. /\ login[r].phase # "idle" => login[r].now \in Nat
        /\ login[r].phase \in {"verifying", "forgetting"} => login[r].block \in Nat \cup {NONE}
    BY <2>1 DEF LoginState, NoLogin, Arrived, Deciding, Verifying, Forgetting, Ticks
  <2> QED
    BY <1>1, <2>1, <2>2 DEF Timely
<1>3. LimiterTypeOK'
  BY <1>1 DEF LimiterInv, LimiterTypeOK
<1> QED
  BY <1>1, <1>2, <1>3 DEF LimiterInv

LEMMA LimiterStep == LimiterInv /\ [LimiterNext]_limiter => LimiterInv'
<1> SUFFICES ASSUME LimiterInv, [LimiterNext]_limiter PROVE LimiterInv'
  OBVIOUS
<1>1. CASE UNCHANGED limiter
  BY <1>1 DEF limiter, LimiterInv, LimiterTypeOK
<1>2. CASE TimePasses
  BY <1>2, TimePassesKeeps
<1>3. ASSUME NEW r \in Logins, Steps(r) PROVE LimiterInv'
  <2>1. /\ login' \in [Logins -> LoginState]
        /\ \A q \in Logins : q # r => login'[q] = login[q]
        /\ Timely(login'[r], ticks)
    <3>1. Moves(r) /\ LimiterTypeOK
      BY <1>3, StepsMove DEF LimiterInv
    <3> QED
      BY <3>1, MovesGoes
  <2>2. ticks' = ticks
    BY <1>3 DEF Steps, Enter, GetRateLimit, Fail, AddRateLimit, StartWindow, RefuseAndBlock,
                Count, Verified, Reset
  <2>3. \A q \in Logins : Timely(login[q], ticks)'
    BY <2>1, <2>2 DEF LimiterInv
  <2>4. /\ row' \in Seen /\ created' \in 0 .. MaxRows /\ window' \in Windows
        /\ row' # NONE => row'.count >= 1
        /\ row' = NONE => window'.counted = 0
    <3>1. /\ row \in Seen /\ created \in 0 .. MaxRows /\ window \in Windows
          /\ row # NONE => row.count >= 1
          /\ row = NONE => window.counted = 0
          /\ NONE \notin Row
      BY LimiterAssumption DEF LimiterInv, LimiterTypeOK
    <3>0. At(r, "deciding") => login[r].now \in Ticks
      BY LoginPhase DEF LimiterInv, Deciding
    <3>2. RowKept \/ RowCreated(r) \/ RowRestarted(r) \/ RowBlocked
         \/ RowCounted(r) \/ RowGone
      BY <1>3, RowSteps
    <3>3. CASE RowKept \/ RowCreated(r) \/ RowBlocked \/ RowGone
      BY <3>0, <3>1, <3>3, WindowsKept
         DEF Seen, RowKept, RowCreated, RowBlocked, RowGone
    <3>4. CASE RowCounted(r)
      BY <3>1, <3>4, CountedWindow DEF Seen, RowCounted, Row
    <3>5. CASE RowRestarted(r)
      BY <3>0, <3>1, <3>5, RestartedWindow DEF Seen, RowRestarted
    <3> QED
      BY <3>2, <3>3, <3>4, <3>5
  <2>5. LimiterTypeOK'
    BY <2>1, <2>2, <2>4 DEF LimiterInv, LimiterTypeOK, LoginState
  <2> QED
    BY <2>3, <2>4, <2>5 DEF LimiterInv
<1> QED
  BY <1>1, <1>2, <1>3 DEF LimiterNext, Steps

LEMMA LimiterInvariant == LimiterSpec => []LimiterInv
BY LimiterStart, LimiterStep, PTL DEF LimiterSpec

\* Every variable of the limiter keeps its type.
THEOREM LimiterTypeCorrect == LimiterSpec => []LimiterTypeOK
BY LimiterInvariant, PTL DEF LimiterInv

\* Whoever ends a block before its time did not know of it when it was let through.
THEOREM BlockIsHeld == LimiterSpec => BlockHolds
<1>1. ASSUME LimiterInv, LimiterNext, InForce, BlockOf(row') # row.blocked
      PROVE  \E r \in Logins : /\ At(r, "deciding") \/ At(r, "forgetting")
                               /\ login'[r] # login[r]
                               /\ KnownBlock(r) # row.blocked
  <2>1. /\ ticks \in Nat /\ row \in Row /\ row.blocked \in Nat /\ ticks < row.blocked
        /\ row # NONE
    BY <1>1, LimiterAssumption
       DEF LimiterInv, LimiterTypeOK, InForce, Blocked, Ticks, Seen, Row
  <2>2. PICK r \in Logins : Steps(r) /\ row' # row
    BY <1>1, <2>1 DEF LimiterNext, Steps, TimePasses, BlockOf
  <2>3. StartWindow(r) \/ RefuseAndBlock(r) \/ Count(r) \/ Reset(r)
    BY <2>1, <2>2 DEF Steps, Enter, GetRateLimit, Fail, AddRateLimit, Verified
  <2>4. login'[r].phase # login[r].phase
    BY <1>1, <2>2, StepsMove, MovesGoes DEF LimiterInv
  <2>5. Timely(login[r], ticks) /\ LimiterTypeOK
    BY <1>1 DEF LimiterInv
  <2>6. CASE Reset(r)
    <3>1. At(r, "forgetting") /\ login[r] \in Forgetting
      BY <2>5, <2>6, LoginPhase DEF Reset
    <3>2. KnownBlock(r) = login[r].block
      BY <3>1 DEF KnownBlock, At
    <3>3. login[r].block = NONE \/ login[r].block <= ticks
      BY <2>5, <3>1 DEF Timely, At
    <3>4. login[r].block \in Nat \cup {NONE}
      BY <3>1 DEF Forgetting
    <3> QED
      BY <2>1, <2>4, <3>1, <3>2, <3>3, <3>4, LimiterAssumption
  <2>7. CASE StartWindow(r) \/ RefuseAndBlock(r) \/ Count(r)
    <3>1. /\ At(r, "deciding") /\ login[r] \in Deciding /\ login[r].seen # NONE
          /\ ~Blocked(login[r].seen, login[r].now)
      BY <2>5, <2>7, LoginPhase DEF StartWindow, RefuseAndBlock, Count, CanWrite
    <3>2. KnownBlock(r) = login[r].seen.blocked
      BY <3>1 DEF KnownBlock, BlockOf
    <3>3. login[r].now \in Nat /\ login[r].now <= ticks
      BY <2>5, <3>1 DEF Timely, At, Deciding, Ticks
    <3>4. login[r].seen.blocked \in Nat \cup {NONE}
      BY <3>1 DEF Deciding, Seen, Row
    <3>5. KnownBlock(r) # row.blocked
      BY <2>1, <3>1, <3>2, <3>3, <3>4, LimiterAssumption DEF Blocked
    <3> QED
      BY <2>4, <3>1, <3>5
  <2> QED
    BY <2>3, <2>6, <2>7
<1> QED
  BY <1>1, LimiterInvariant, PTL DEF LimiterSpec, BlockHolds

(***************************************************************************)
(* The attempts that overlapping logins may pass once the count has been   *)
(* started. A login that has read the row can take the count back to what  *)
(* it read; any other can only go on from the count there is.              *)
(***************************************************************************)
HoldsBack(r) ==
  /\ At(r, "deciding") /\ login[r].seen # NONE
  /\ login[r].seen.id = row.id /\ login[r].seen.count < row.count

Level(r) == IF HoldsBack(r) THEN login[r].seen.count ELSE row.count

Above(u) == {r \in Logins : Level(r) > u}

Crowd == [v \in Levels |-> Cardinality(Above(MaxAttempts - v))]

SlackIsCovered ==
  \E s : Covers(s, Crowd) /\ window.counted <= 1 + s[MaxAttempts - 1]

LEMMA AboveFinite ==
  /\ \A u : Above(u) \subseteq Logins /\ Cardinality(Above(u)) \in Nat
  /\ Crowd \in [Levels -> Nat]
<1>1. \A u : Above(u) \subseteq Logins /\ Cardinality(Above(u)) \in Nat
  <2>1. ASSUME NEW u PROVE Above(u) \subseteq Logins
    BY DEF Above
  <2>2. ASSUME NEW u PROVE Cardinality(Above(u)) \in Nat
    BY <2>1, FewerLogins
  <2> QED
    BY <2>1, <2>2
<1> QED
  BY <1>1 DEF Crowd

LEMMA FewAreCovered == window.counted \in Nat /\ window.counted <= 1 => SlackIsCovered
<1> SUFFICES ASSUME window.counted \in Nat, window.counted <= 1 PROVE SlackIsCovered
  OBVIOUS
<1> DEFINE s == [v \in 0 .. MaxAttempts - 1 |-> 0]
<1>1. Covers(s, Crowd)
  BY AboveFinite, NothingCovers
<1>2. s[MaxAttempts - 1] = 0
  BY LimiterAssumption
<1> HIDE DEF s
<1> QED
  BY <1>1, <1>2 DEF SlackIsCovered

LEMMA LevelType ==
  ASSUME LimiterInv, row \in Row, NEW r \in Logins
  PROVE  /\ Level(r) \in Nat /\ Level(r) <= row.count /\ row.count \in Nat
         /\ ~HoldsBack(r) => Level(r) = row.count
         /\ HoldsBack(r) => Level(r) = login[r].seen.count
         /\ At(r, "deciding") /\ login[r].seen # NONE =>
              login[r].seen \in Row /\ login[r].seen.count \in Nat
<1>1. At(r, "deciding") /\ login[r].seen # NONE =>
        login[r].seen \in Row /\ login[r].seen.count \in Nat
  <2>1. At(r, "deciding") => login[r] \in Deciding
    BY LoginPhase DEF LimiterInv
  <2> QED
    BY <2>1 DEF Deciding, Seen, Row
<1>2. row.count \in Nat
  BY DEF Row
<1> QED
  BY <1>1, <1>2 DEF Level, HoldsBack

\* A login that has moved goes on from the count there is.
LEMMA MovedLevel ==
  ASSUME LimiterInv, row \in Row, NEW r \in Logins, Moves(r), row' \in Row,
         At(r, "deciding") \/ (row'.id = row.id /\ row'.count = row.count)
  PROVE  Level(r)' = row'.count
<1>1. /\ login'[r].phase # login[r].phase
      /\ login'[r].phase = "deciding" => login'[r].seen = row
  BY MovesGoes DEF LimiterInv
<1>2. row.count \in Nat
  BY DEF Row
<1>3. ~HoldsBack(r)'
  BY <1>1, <1>2 DEF HoldsBack, At
<1> QED
  BY <1>3 DEF Level

LEMMA SlackGrows ==
  ASSUME SlackIsCovered, window'.counted = window.counted,
         \A q \in Logins : Level(q) \in Nat /\ Level(q)' \in Nat /\ Level(q) <= Level(q)'
  PROVE  SlackIsCovered'
<1>1. PICK s : Covers(s, Crowd) /\ window.counted <= 1 + s[MaxAttempts - 1]
  BY DEF SlackIsCovered
<1>2. Crowd \in [Levels -> Nat] /\ Crowd' \in [Levels -> Nat]
  <2>1. Crowd \in [Levels -> Nat]
    BY AboveFinite
  <2>2. (Crowd \in [Levels -> Nat])'
    BY AboveFinite, PTL
  <2> QED
    BY <2>1, <2>2
<1>3. ASSUME NEW v \in Levels PROVE Crowd[v] <= Crowd'[v]
  <2>1. MaxAttempts - v \in Int
    BY LimiterAssumption DEF Levels
  <2>2. Above(MaxAttempts - v) \subseteq Above(MaxAttempts - v)'
    BY <2>1 DEF Above
  <2>3. Above(MaxAttempts - v)' \subseteq Logins
    BY DEF Above
  <2>4. Cardinality(Above(MaxAttempts - v)) <= Cardinality(Above(MaxAttempts - v)')
    BY <2>2, <2>3, FewerLogins
  <2> QED
    BY <2>4 DEF Crowd
<1>4. Covers(s, Crowd')
  BY <1>1, <1>2, <1>3, MoreCover
<1> QED
  BY <1>1, <1>4 DEF SlackIsCovered

\* The count goes from the level of the login to one above it, or higher.
LEMMA CountedLevels ==
  ASSUME LimiterInv, NEW r \in Logins, Moves(r), RowCounted(r)
  PROVE  /\ Level(r) \in 1 .. MaxAttempts - 1 /\ Level(r)' > Level(r)
         /\ Level(r)' \in Nat
         /\ \A q \in Logins, u \in Nat :
              Level(q) \in Nat /\ (u <= Level(r) /\ Level(q) > u => Level(q)' > u)
<1> DEFINE seen == login[r].seen
<1>1. /\ row \in Row /\ row' \in Row /\ At(r, "deciding") /\ seen \in Row
      /\ seen.id = row.id /\ row'.id = row.id
      /\ seen.count < MaxAttempts /\ row'.count = seen.count + 1
  BY DEF RowCounted
<1>2. NONE \notin Row /\ row # NONE /\ seen # NONE
  BY <1>1, LimiterAssumption
<1>3. /\ seen.count \in Nat /\ row.count \in Nat /\ seen.count >= 1 /\ row.count >= 1
  BY <1>1, <1>2 DEF LimiterInv, Timely, At, Row
<1>4. Level(r) = IF seen.count < row.count THEN seen.count ELSE row.count
  BY <1>1, <1>2 DEF Level, HoldsBack
<1>5. Level(r)' = seen.count + 1
  BY <1>1, MovedLevel
<1>6. Level(r) \in 1 .. MaxAttempts - 1 /\ Level(r)' > Level(r) /\ Level(r)' \in Nat
  BY <1>1, <1>3, <1>4, <1>5, LimiterAssumption
<1>7. ASSUME NEW q \in Logins, NEW u \in Nat
      PROVE  Level(q) \in Nat /\ (u <= Level(r) /\ Level(q) > u => Level(q)' > u)
  <2>1. /\ Level(q) \in Nat /\ Level(q) <= row.count
        /\ ~HoldsBack(q) => Level(q) = row.count
        /\ HoldsBack(q) => Level(q) = login[q].seen.count
        /\ At(q, "deciding") /\ login[q].seen # NONE => login[q].seen.count \in Nat
    BY <1>1, LevelType
  <2>2. CASE q = r
    BY <1>3, <1>4, <1>5, <2>2
  <2>3. CASE q # r
    <3>1. login'[q] = login[q]
      BY <2>3, MovesGoes DEF LimiterInv
    <3>2. Level(q)' = IF /\ At(q, "deciding") /\ login[q].seen # NONE
                         /\ login[q].seen.id = row.id
                         /\ login[q].seen.count < seen.count + 1
                      THEN login[q].seen.count ELSE seen.count + 1
      BY <1>1, <3>1 DEF Level, HoldsBack, At
    <3>3. Level(q) = IF /\ At(q, "deciding") /\ login[q].seen # NONE
                        /\ login[q].seen.id = row.id
                        /\ login[q].seen.count < row.count
                     THEN login[q].seen.count ELSE row.count
      BY DEF Level, HoldsBack
    <3> HIDE DEF seen
    <3> QED
      BY <1>3, <1>4, <2>1, <3>2, <3>3
  <2> QED
    BY <2>1, <2>2, <2>3
<1> QED
  BY <1>6, <1>7

LEMMA CountedSlack ==
  ASSUME LimiterInv, SlackIsCovered, NEW r \in Logins, Moves(r), RowCounted(r)
  PROVE  SlackIsCovered'
<1>0. PICK level \in Nat : level = Level(r)
  BY CountedLevels
<1> DEFINE at == MaxAttempts - level
<1>1. /\ level \in 1 .. MaxAttempts - 1 /\ Level(r)' > level /\ Level(r)' \in Nat
      /\ \A q \in Logins, u \in Nat :
           Level(q) \in Nat /\ (u <= level /\ Level(q) > u => Level(q)' > u)
  BY <1>0, CountedLevels
<1>2. PICK s : Covers(s, Crowd) /\ window.counted <= 1 + s[MaxAttempts - 1]
  BY DEF SlackIsCovered
<1>3. Crowd \in [Levels -> Nat] /\ Crowd' \in [Levels -> Nat]
  <2>1. Crowd \in [Levels -> Nat]
    BY AboveFinite
  <2>2. (Crowd \in [Levels -> Nat])'
    BY AboveFinite, PTL
  <2> QED
    BY <2>1, <2>2
<1>4. /\ MaxAttempts \in Nat /\ level \in Nat /\ level <= MaxAttempts - 1
      /\ at \in Levels /\ MaxAttempts - at = level
  BY <1>1, LimiterAssumption DEF Levels
<1> HIDE DEF at
<1>5. Crowd[at] + 1 <= Crowd'[at]
  <2>1. Above(level) \subseteq Above(level)' /\ Above(level)' \subseteq Logins
    BY <1>1, <1>4 DEF Above
  <2>2. r \in Above(level)' /\ r \notin Above(level)
    BY <1>0, <1>1, <1>4 DEF Above
  <2>3. Cardinality(Above(level)) + 1 <= Cardinality(Above(level)')
    BY <2>1, <2>2, FewerLogins
  <2>4. Crowd[at] = Cardinality(Above(level)) /\ Crowd'[at] = Cardinality(Above(level)')
    BY <1>4 DEF Crowd
  <2> QED
    BY <2>3, <2>4
<1>6. ASSUME NEW v \in Levels, v < at PROVE Crowd[v] <= Crowd[at]
  <2>1. MaxAttempts - v \in Nat /\ MaxAttempts - v > level
    BY <1>4, <1>6 DEF Levels
  <2>2. Above(MaxAttempts - v) \subseteq Above(level) /\ Above(level) \subseteq Logins
    BY <1>1, <1>4, <2>1 DEF Above
  <2>3. Cardinality(Above(MaxAttempts - v)) <= Cardinality(Above(level))
    BY <2>2, FewerLogins
  <2> QED
    BY <1>4, <2>3 DEF Crowd
<1>7. ASSUME NEW v \in Levels, v > at PROVE Crowd[v] <= Crowd'[v]
  <2>1. MaxAttempts - v \in Nat /\ MaxAttempts - v <= level
    BY <1>4, <1>7 DEF Levels
  <2>2. Above(MaxAttempts - v) \subseteq Above(MaxAttempts - v)'
    BY <1>1, <2>1 DEF Above
  <2>3. Above(MaxAttempts - v)' \subseteq Logins
    BY DEF Above
  <2>4. Cardinality(Above(MaxAttempts - v)) <= Cardinality(Above(MaxAttempts - v)')
    BY <2>2, <2>3, FewerLogins
  <2> QED
    BY <2>4 DEF Crowd
<1>8. PICK t : Covers(t, Crowd') /\ t[MaxAttempts - 1] = s[MaxAttempts - 1] + 1
  BY <1>2, <1>3, <1>4, <1>5, <1>6, <1>7, OneMoreCovers
<1>9. window'.counted = window.counted + 1 /\ window.counted \in Nat
  BY CountedWindow DEF RowCounted, LimiterInv, LimiterTypeOK
<1>10. s[MaxAttempts - 1] \in Nat
  BY <1>2, <1>4 DEF Covers
<1>11. window'.counted <= 1 + t[MaxAttempts - 1]
  BY <1>2, <1>8, <1>9, <1>10
<1> QED
  BY <1>8, <1>11 DEF SlackIsCovered

LEMMA SlackKept ==
  LimiterInv /\ LimiterInv' /\ SlackIsCovered /\ [LimiterNext]_limiter => SlackIsCovered'
<1> SUFFICES ASSUME LimiterInv, LimiterInv', SlackIsCovered, [LimiterNext]_limiter
             PROVE  SlackIsCovered'
  OBVIOUS
<1>1. ASSUME window'.counted <= 1 PROVE SlackIsCovered'
  <2>1. window'.counted \in Nat
    BY DEF LimiterInv, LimiterTypeOK, Windows
  <2>2. (window.counted \in Nat /\ window.counted <= 1 => SlackIsCovered)'
    BY FewAreCovered, PTL
  <2> QED
    BY <1>1, <2>1, <2>2
<1>2. row \in Row \cup {NONE} /\ NONE \notin Row /\ (row = NONE => window.counted = 0)
  BY LimiterAssumption DEF LimiterInv, LimiterTypeOK, Seen
<1>3. CASE UNCHANGED <<row, login, window>>
  BY <1>3 DEF SlackIsCovered, Crowd, Above, Level, HoldsBack, At
<1>4. ASSUME NEW r \in Logins, Steps(r) PROVE SlackIsCovered'
  <2>1. Moves(r)
    BY <1>4, StepsMove
  <2>2. RowKept \/ RowCreated(r) \/ RowRestarted(r) \/ RowBlocked
         \/ RowCounted(r) \/ RowGone
    BY <1>4, RowSteps
  <2>3. CASE RowCreated(r) \/ RowRestarted(r) \/ RowGone \/ (RowKept /\ row = NONE)
    <3>1. CASE RowCreated(r) \/ RowGone \/ (RowKept /\ row = NONE)
      <4>1. At(r, "deciding") => login[r].now \in Ticks
        BY LoginPhase DEF LimiterInv, Deciding
      <4> QED
        BY <1>1, <1>2, <3>1, <4>1, WindowsKept DEF RowCreated, RowGone, RowKept
    <3>2. CASE RowRestarted(r)
      <4>1. login[r].now \in Ticks /\ window \in Windows
        BY <3>2, LoginPhase DEF RowRestarted, LimiterInv, LimiterTypeOK, Deciding
      <4> QED
        BY <1>1, <3>2, <4>1, RestartedWindow DEF RowRestarted
    <3> QED
      BY <2>3, <3>1, <3>2
  <2>4. CASE RowCounted(r)
    BY <2>1, <2>4, CountedSlack
  <2>5. CASE RowBlocked \/ (RowKept /\ row # NONE)
    <3>1. /\ row \in Row /\ row' \in Row /\ row'.id = row.id /\ row'.count = row.count
          /\ window'.counted = window.counted
      BY <1>2, <2>5 DEF RowBlocked, RowKept
    <3>2. ASSUME NEW q \in Logins
          PROVE  Level(q) \in Nat /\ Level(q)' \in Nat /\ Level(q) <= Level(q)'
      <4>1. Level(q) \in Nat /\ Level(q) <= row.count /\ row.count \in Nat
        BY <3>1, LevelType
      <4>2. CASE q = r
        <5>1. Level(r)' = row'.count
          BY <2>1, <3>1, MovedLevel
        <5> QED
          BY <3>1, <4>1, <4>2, <5>1
      <4>3. CASE q # r
        <5>1. login'[q] = login[q]
          BY <2>1, <4>3, MovesGoes DEF LimiterInv
        <5>2. Level(q)' = Level(q)
          BY <3>1, <5>1 DEF Level, HoldsBack, At
        <5> QED
          BY <4>1, <5>2
      <4> QED
        BY <4>2, <4>3
    <3> QED
      BY <3>1, <3>2, SlackGrows
  <2> QED
    BY <2>2, <2>3, <2>4, <2>5
<1> QED
  BY <1>3, <1>4 DEF LimiterNext, Steps, TimePasses, limiter

Most == choose(MaxAttempts + InFlight - 1, InFlight)

LEMMA CountIsBounded ==
  ASSUME LimiterInv, SlackIsCovered
  PROVE  window.counted \in Nat /\ Most \in Nat /\ window.counted <= Most
<1> DEFINE n == InFlight
           top == MaxAttempts - 1
<1>1. PICK s : Covers(s, Crowd) /\ window.counted <= 1 + s[top]
  BY DEF SlackIsCovered
<1>2. n \in Nat /\ top \in Nat /\ top \in 0 .. MaxAttempts - 1 /\ MaxAttempts \in Nat
  BY LimiterAssumption, FS_CardinalityType DEF InFlight
<1>3. ASSUME NEW v \in 1 .. top PROVE Crowd[v] <= n
  <2>1. Cardinality(Above(MaxAttempts - v)) <= Cardinality(Logins)
    BY AboveFinite, FewerLogins
  <2> QED
    BY <2>1 DEF Crowd, Levels, InFlight
<1>4. Crowd \in [Levels -> Nat]
  BY AboveFinite
<1> HIDE DEF n, top
<1>5. s[top] <= Ways(top, n) - 1 /\ s[top] \in Nat
  BY <1>1, <1>2, <1>3, <1>4, CrowdBounds DEF Covers
<1>6. Ways(top, n) \in Nat
  BY <1>2, WaysSplits
<1>7. window.counted \in Nat
  BY DEF LimiterInv, LimiterTypeOK, Windows
<1>8. window.counted <= Ways(top, n)
  BY <1>1, <1>5, <1>6, <1>7
<1>9. top + n = MaxAttempts + n - 1
  BY <1>2 DEF top
<1> QED
  BY <1>6, <1>7, <1>8, <1>9 DEF Ways, Most, n

(***************************************************************************)
(* All the attempts of a window of time: each time the count is started    *)
(* again, those of the last time are no more than Most.                    *)
(***************************************************************************)
AdmittedSum == window.admitted <= window.restarts * Most + window.counted

LEMMA SumKept ==
  LimiterInv /\ SlackIsCovered /\ AdmittedSum /\ [LimiterNext]_limiter => AdmittedSum'
<1> SUFFICES ASSUME LimiterInv, SlackIsCovered, AdmittedSum, [LimiterNext]_limiter
             PROVE  AdmittedSum'
  OBVIOUS
<1>1. /\ window \in Windows /\ Most \in Nat /\ window.counted <= Most
      /\ window.counted \in Nat /\ window.restarts \in Nat /\ window.admitted \in Nat
  BY CountIsBounded DEF LimiterInv, LimiterTypeOK, Windows
<1>2. Most' = Most
  BY DEF Most, InFlight
<1>3. CASE window' = window
  BY <1>2, <1>3 DEF AdmittedSum
<1>4. ASSUME NEW r \in Logins, Steps(r) PROVE AdmittedSum'
  <2>1. At(r, "deciding") => login[r].now \in Ticks
    BY LoginPhase DEF LimiterInv, Deciding
  <2>2. CASE RowKept \/ RowBlocked
    BY <1>3, <2>2 DEF RowKept, RowBlocked
  <2>3. CASE RowCreated(r) \/ RowGone
    <3>1. /\ window'.admitted = window'.counted /\ window'.restarts = 0
          /\ window'.counted \in Nat
      BY <2>1, <2>3, WindowsKept DEF RowCreated, RowGone
    <3>2. 0 * Most = 0
      BY <1>1
    <3> QED
      BY <1>2, <3>1, <3>2 DEF AdmittedSum
  <2>4. CASE RowCounted(r)
    <3>1. /\ window'.admitted = window.admitted + 1 /\ window'.counted = window.counted + 1
          /\ window'.restarts = window.restarts
      BY <1>1, <2>4, CountedWindow DEF RowCounted
    <3>2. PICK most \in Nat : most = window.restarts * Most
      BY <1>1
    <3> QED
      BY <1>1, <1>2, <3>1, <3>2 DEF AdmittedSum
  <2>5. CASE RowRestarted(r)
    <3>1. /\ login[r].now \in Ticks /\ window' = Restarted(login[r].now)
      BY <2>1, <2>5 DEF RowRestarted
    <3>2. CASE window' = FirstOf(login[r].now)
      <4>1. window'.admitted = 1 /\ window'.counted = 1 /\ window'.restarts = 0
        BY <3>1, <3>2, WindowsKept
      <4>2. 0 * Most = 0
        BY <1>1
      <4> QED
        BY <1>2, <4>1, <4>2 DEF AdmittedSum
    <3>3. CASE /\ window'.restarts = window.restarts + 1
               /\ window'.admitted = window.admitted + 1
      <4>1. window'.counted = 1
        BY <1>1, <3>1, RestartedWindow
      <4>2. (window.restarts + 1) * Most = window.restarts * Most + Most
        BY <1>1
      <4>3. PICK most \in Nat : most = window.restarts * Most
        BY <1>1
      <4> QED
        BY <1>1, <1>2, <3>3, <4>1, <4>2, <4>3 DEF AdmittedSum
    <3> QED
      BY <1>1, <3>1, <3>2, <3>3, RestartedWindow
  <2> QED
    BY <1>4, <2>2, <2>3, <2>4, <2>5, RowSteps
<1> QED
  BY <1>3, <1>4 DEF LimiterNext, Steps, TimePasses, limiter

(***************************************************************************)
(* How often the count can be started again. While the row says that the   *)
(* window began when it did, only a login that read an older row, or one   *)
(* that arrived before, can; the latter sets the row back, and then every  *)
(* login in flight can once.                                               *)
(***************************************************************************)
Old == {r \in Logins : (At(r, "arrived") \/ At(r, "deciding")) /\ login[r].now < window.began}

Stale == {r \in Logins : /\ At(r, "deciding") /\ login[r].seen # NONE
                         /\ login[r].seen.id = row.id
                         /\ login[r].seen.started < window.began
                         /\ window.began <= login[r].now}

SetBack == row.started < window.began

Turns(a) == 2 * a * InFlight - a * (a - 1)

Ahead(a, s) == 2 * (s + a) + Turns(a)

Left == IF SetBack THEN Ahead(Cardinality(Old), InFlight - Cardinality(Old))
        ELSE Ahead(Cardinality(Old), Cardinality(Stale))

RestartsCovered ==
  /\ window.began <= ticks
  /\ row = NONE => window.restarts = 0
  /\ row # NONE => 2 * window.restarts + Left <= (InFlight - 1) * (InFlight + 4)

LEMMA AheadGrows ==
  ASSUME NEW a \in Nat, NEW b \in Nat, NEW s \in Nat, NEW t \in Nat, InFlight \in Nat,
         a <= b, b <= InFlight
  PROVE  /\ Ahead(a, s) \in Int
         /\ s <= t => Ahead(a, s) <= Ahead(b, t)
         /\ Ahead(a, InFlight - a) <= Ahead(b, InFlight - b)
         /\ a # b => Ahead(a, InFlight - a) + 2 <= Ahead(b, t)
<1> DEFINE n == InFlight
<1>1. PICK d \in Nat : b = a + d
  <2>1. b - a \in Nat /\ b = a + (b - a)
    OBVIOUS
  <2> QED
    BY <2>1
<1>2. PICK m \in Nat : n = a + d + m
  <2>1. n - b \in Nat /\ n = b + (n - b)
    OBVIOUS
  <2> QED
    BY <1>1, <2>1
<1> HIDE DEF n
<1>3. PICK x \in Int, y \in Nat, z \in Nat : x = Turns(a) /\ y = d * d /\ z = d * m
  <2>1. Turns(a) \in Int
    BY <1>2 DEF Turns, n
  <2>2. d * d \in Nat /\ d * m \in Nat
    BY <1>1, <1>2
  <2> QED
    BY <2>1, <2>2
<1>4. Turns(b) = x + y + 2 * z + d
  <2>1. Turns(b) = 2 * (a + d) * (a + d + m) - (a + d) * (a + d - 1)
    BY <1>1, <1>2 DEF Turns, n
  <2>2. Turns(a) = 2 * a * (a + d + m) - a * (a - 1)
    BY <1>2 DEF Turns, n
  <2>3. 2 * (a + d) * (a + d + m) - (a + d) * (a + d - 1)
          = (2 * a * (a + d + m) - a * (a - 1)) + d * d + 2 * (d * m) + d
    BY <1>1, <1>2
  <2> QED
    BY <1>3, <2>1, <2>2, <2>3
<1>5. /\ Ahead(a, s) = 2 * (s + a) + x /\ Ahead(a, n - a) = 2 * n + x
      /\ Ahead(b, t) = 2 * (t + b) + Turns(b) /\ Ahead(b, n - b) = 2 * n + Turns(b)
  BY <1>2, <1>3, <1>4 DEF Ahead
<1>6. ASSUME a # b PROVE z >= m /\ y >= d /\ d >= 1
  <2>1. d >= 1 /\ d - 1 \in Nat
    BY <1>1, <1>6
  <2>2. (d - 1) * m \in Nat /\ (d - 1) * d \in Nat
    BY <1>1, <1>2, <2>1
  <2>3. d * m = (d - 1) * m + m /\ d * d = (d - 1) * d + d
    BY <1>1, <1>2
  <2> QED
    BY <1>1, <1>2, <1>3, <2>1, <2>2, <2>3
<1> QED
  BY <1>1, <1>2, <1>3, <1>4, <1>5, <1>6 DEF n
LEMMA MostAhead ==
  ASSUME NEW a \in Nat, NEW s \in Nat, InFlight \in Nat, a + s + 1 <= InFlight
  PROVE  /\ Ahead(a, s) <= (InFlight - 1) * (InFlight + 4)
         /\ Ahead(a, s) + 2 <= Ahead(a, InFlight - a)
         /\ Ahead(a, s) \in Nat
<1> DEFINE n == InFlight
<1>1. n - 1 \in Nat /\ a <= n - 1 /\ s <= n - 1 - a /\ n - 1 - a \in Nat /\ 0 <= a /\ a <= n
  OBVIOUS
<1>2. Ahead(n - 1, 0) = (n - 1) * (n + 4)
  <2>1. 2 * (n - 1) * n - (n - 1) * (n - 2) = (n - 1) * (n + 2)
    OBVIOUS
  <2>2. (n - 1) * (n + 4) = (n - 1) * (n + 2) + 2 * (n - 1)
    OBVIOUS
  <2>3. Turns(n - 1) = 2 * (n - 1) * n - (n - 1) * (n - 2)
    BY DEF Turns
  <2>4. Turns(n - 1) \in Int /\ (n - 1) * (n + 2) \in Int
    BY <1>1 DEF Turns
  <2> QED
    BY <1>1, <2>1, <2>2, <2>3, <2>4 DEF Ahead
<1>3. Ahead(a, s) \in Int /\ Ahead(a, n - 1 - a) \in Int
  BY <1>1, AheadGrows
<1>4. Turns(a) \in Int
  BY <1>1 DEF Turns
<1>5. Ahead(0, 0) = 0 /\ Ahead(0, 0) <= Ahead(a, s)
  <2>1. Turns(0) = 0
    BY <1>1 DEF Turns
  <2>2. 0 \in Nat
    OBVIOUS
  <2> QED
    BY <1>1, <2>1, <2>2, AheadGrows DEF Ahead
<1>6. Ahead(a, s) <= Ahead(n - 1, 0)
  <2>1. n - 1 <= n /\ 0 \in Nat
    BY <1>1
  <2>2. CASE a = n - 1
    <3>1. s = 0
      BY <1>1, <2>2
    <3> QED
      BY <1>3, <2>2, <3>1
  <2>3. CASE a # n - 1
    <3>1. Ahead(a, n - a) + 2 <= Ahead(n - 1, 0)
      BY <1>1, <2>1, <2>3, AheadGrows
    <3>2. Ahead(a, s) <= Ahead(a, n - a) /\ Ahead(a, n - a) \in Int /\ Ahead(n - 1, 0) \in Int
      <4>1. n - a \in Nat /\ s <= n - a /\ a <= a
        BY <1>1
      <4> QED
        BY <1>1, <2>1, <4>1, AheadGrows
    <3> QED
      BY <1>3, <3>1, <3>2
  <2> QED
    BY <2>2, <2>3
<1>7. Ahead(a, s) + 2 <= Ahead(a, n - a)
  BY <1>1, <1>4 DEF Ahead
<1> QED
  BY <1>2, <1>3, <1>5, <1>6, <1>7

LEMMA OldStale ==
  LimiterInv =>
    /\ Old \subseteq Logins /\ Stale \subseteq Logins /\ InFlight \in Nat
    /\ Cardinality(Old) \in Nat /\ Cardinality(Stale) \in Nat
    /\ Cardinality(Old) + Cardinality(Stale) <= InFlight
    /\ \A r \in Logins \ (Old \cup Stale) :
         Cardinality(Old) + Cardinality(Stale) + 1 <= InFlight
<1> SUFFICES ASSUME LimiterInv
             PROVE  /\ Old \subseteq Logins /\ Stale \subseteq Logins /\ InFlight \in Nat
                    /\ Cardinality(Old) \in Nat /\ Cardinality(Stale) \in Nat
                    /\ Cardinality(Old) + Cardinality(Stale) <= InFlight
                    /\ \A r \in Logins \ (Old \cup Stale) :
                         Cardinality(Old) + Cardinality(Stale) + 1 <= InFlight
  OBVIOUS
<1>1. Old \subseteq Logins /\ Stale \subseteq Logins /\ Old \cup Stale \subseteq Logins
  BY DEF Old, Stale
<1>2. IsFiniteSet(Old) /\ IsFiniteSet(Stale)
  BY <1>1, LimiterAssumption, FS_Subset
<1>3. Old \cap Stale = {}
  <2> SUFFICES ASSUME NEW r \in Logins, r \in Old, r \in Stale PROVE FALSE
    BY <1>1
  <2>1. At(r, "deciding") /\ login[r].now < window.began /\ window.began <= login[r].now
    BY DEF Old, Stale
  <2>2. login[r].now \in Nat /\ window.began \in Nat
    BY <2>1, LoginPhase DEF LimiterInv, LimiterTypeOK, Deciding, Windows, Ticks
  <2> QED
    BY <2>1, <2>2
<1>4. Cardinality({}) = 0
  BY FS_EmptySet
<1>5. /\ Cardinality(Old) \in Nat /\ Cardinality(Stale) \in Nat
      /\ Cardinality(Logins) \in Nat /\ Cardinality(Old \cup Stale) \in Nat
      /\ Cardinality(Old \cup Stale) <= Cardinality(Logins)
      /\ Old \cup Stale # Logins => Cardinality(Old \cup Stale) + 1 <= Cardinality(Logins)
  BY <1>1, FewerLogins
<1>6. Cardinality(Old \cup Stale) = Cardinality(Old) + Cardinality(Stale)
  <2>1. Cardinality(Old \cup Stale)
          = Cardinality(Old) + Cardinality(Stale) - Cardinality(Old \cap Stale)
    BY <1>2, FS_Union, Zenon
  <2>2. Cardinality(Old \cap Stale) = 0
    BY <1>3, <1>4, Zenon
  <2>3. PICK both \in Nat, x \in Nat, y \in Nat :
          /\ both = Cardinality(Old \cup Stale)
          /\ x = Cardinality(Old) /\ y = Cardinality(Stale)
    BY <1>5
  <2>4. both = x + y - 0
    BY <2>1, <2>2, <2>3
  <2> QED
    BY <2>3, <2>4
<1> QED
  BY <1>1, <1>5, <1>6 DEF InFlight

\* Who arrives later is not old; a login that reads the row is as old as it was, and stale
\* only if the row has been set back.
LEMMA OldKept ==
  ASSUME LimiterInv, NEW r \in Logins, Moves(r),
         window'.began = window.began, window.began <= ticks
  PROVE  /\ Old' \subseteq Old
         /\ row' # NONE /\ row'.id = row.id /\ ~SetBack => Stale' \subseteq Stale
         /\ login'[r].phase = "verifying" => r \notin Old' /\ r \notin Stale'
<1>1. /\ \A q \in Logins : q # r => login'[q] = login[q]
      /\ login'[r].phase = "deciding" =>
           login'[r].seen = row /\ At(r, "arrived") /\ login'[r].now = login[r].now
      /\ login'[r].phase = "arrived" => login'[r].now = ticks
  BY MovesGoes DEF LimiterInv
<1>2. ticks \in Nat /\ window.began \in Nat
  BY DEF LimiterInv, LimiterTypeOK, Windows, Ticks
<1>3. ASSUME NEW q \in Old' PROVE q \in Old
  <2>1. q \in Logins /\ (login'[q].phase = "arrived" \/ login'[q].phase = "deciding")
        /\ login'[q].now < window.began
    BY <1>3 DEF Old, At
  <2>2. CASE q # r
    BY <1>1, <2>1, <2>2 DEF Old, At
  <2>3. CASE q = r
    <3>1. login'[r].phase = "deciding"
      BY <1>1, <1>2, <2>1, <2>3
    <3> QED
      BY <1>1, <2>1, <2>3, <3>1 DEF Old
  <2> QED
    BY <2>2, <2>3
<1>4. ASSUME row'.id = row.id, ~SetBack, NEW q \in Stale' PROVE q \in Stale
  <2>1. /\ q \in Logins /\ login'[q].phase = "deciding" /\ login'[q].seen # NONE
        /\ login'[q].seen.id = row.id /\ login'[q].seen.started < window.began
        /\ window.began <= login'[q].now
    BY <1>4 DEF Stale, At
  <2>2. q # r
    BY <1>1, <1>4, <2>1 DEF SetBack
  <2> QED
    BY <1>1, <2>1, <2>2 DEF Stale, At
<1>5. ASSUME login'[r].phase = "verifying" PROVE r \notin Old' /\ r \notin Stale'
  BY <1>5 DEF Old, Stale, At
<1> QED
  BY <1>3, <1>4, <1>5

\* The row says when the window began, or that it began before: as many restarts are left.
LEMMA OldStaleNext ==
  ASSUME LimiterInv'
  PROVE  /\ Old' \subseteq Logins /\ Stale' \subseteq Logins
         /\ Cardinality(Old') \in Nat /\ Cardinality(Stale') \in Nat
         /\ Cardinality(Old') + Cardinality(Stale') <= InFlight
         /\ \A r \in Logins \ (Old' \cup Stale') :
              Cardinality(Old') + Cardinality(Stale') + 1 <= InFlight
<1>1. (LimiterInv =>
         /\ Old \subseteq Logins /\ Stale \subseteq Logins
         /\ Cardinality(Old) \in Nat /\ Cardinality(Stale) \in Nat
         /\ Cardinality(Old) + Cardinality(Stale) <= InFlight
         /\ \A r \in Logins \ (Old \cup Stale) :
              Cardinality(Old) + Cardinality(Stale) + 1 <= InFlight)'
  BY OldStale, PTL
<1>2. InFlight' = InFlight
  BY DEF InFlight
<1> QED
  BY <1>1, <1>2

LEMMA LeftType ==
  ASSUME LimiterInv
  PROVE  /\ SetBack => Left = Ahead(Cardinality(Old), InFlight - Cardinality(Old))
         /\ ~SetBack => Left = Ahead(Cardinality(Old), Cardinality(Stale))
         /\ Left \in Int /\ 0 <= Left
<1>1. /\ Cardinality(Old) \in Nat /\ Cardinality(Stale) \in Nat /\ InFlight \in Nat
      /\ Cardinality(Old) <= InFlight /\ InFlight - Cardinality(Old) \in Nat
  BY OldStale
<1>2. PICK a \in Nat, s \in Nat : a = Cardinality(Old) /\ s = Cardinality(Stale)
  BY <1>1
<1>3. ASSUME NEW t \in Nat PROVE Ahead(a, t) \in Int /\ 0 <= Ahead(a, t)
  <2>1. 0 \in Nat /\ 0 <= a /\ 0 <= t /\ a <= a
    BY <1>2
  <2>2. Ahead(0, 0) <= Ahead(a, t) /\ Ahead(a, t) \in Int
    BY <1>1, <1>2, <2>1, AheadGrows
  <2>3. Ahead(0, 0) = 0
    BY <1>1 DEF Ahead, Turns
  <2> QED
    BY <2>2, <2>3
<1> QED
  BY <1>1, <1>2, <1>3 DEF Left

\* Nobody starts the count again: as many can as before.
LEMMA LeftKept ==
  ASSUME LimiterInv, LimiterInv', RestartsCovered, NEW r \in Logins, Moves(r),
         row' # NONE, row'.id = row.id, row'.started = row.started,
         window'.began = window.began
  PROVE  Left' <= Left
<1>1. PICK a \in Nat, s \in Nat, n \in Nat :
        a = Cardinality(Old) /\ s = Cardinality(Stale) /\ n = InFlight /\ a <= n
  BY OldStale
<1>2. PICK b \in Nat, t \in Nat :
        b = Cardinality(Old') /\ t = Cardinality(Stale') /\ b <= n
  BY <1>1, OldStaleNext
<1>3. Old' \subseteq Old /\ (~SetBack => Stale' \subseteq Stale)
  BY OldKept DEF RestartsCovered
<1>4. b <= a /\ (~SetBack => t <= s)
  BY <1>1, <1>2, <1>3, OldStale, FewerLogins
<1>5. SetBack' = SetBack
  BY DEF SetBack
<1>6. Left' = IF SetBack THEN Ahead(b, n - b) ELSE Ahead(b, t)
  BY <1>1, <1>2, <1>5 DEF Left, Ahead, Turns, InFlight
<1>7. Left = IF SetBack THEN Ahead(a, n - a) ELSE Ahead(a, s)
  BY <1>1 DEF Left
<1> QED
  BY <1>1, <1>2, <1>4, <1>6, <1>7, AheadGrows

\* Whoever starts the count again in the middle of the window uses up one of the times.
LEMMA LeftUsed ==
  ASSUME LimiterInv, LimiterInv', RestartsCovered, NEW r \in Logins, Moves(r),
         RowRestarted(r), ~(login[r].now - window.began >= Window)
  PROVE  Left' + 2 <= Left
<1> DEFINE now == login[r].now
           seen == login[r].seen
<1>1. PICK a \in Nat, s \in Nat, n \in Nat :
        a = Cardinality(Old) /\ s = Cardinality(Stale) /\ n = InFlight /\ a + s <= n
  BY OldStale
<1>2. PICK b \in Nat, t \in Nat : b = Cardinality(Old') /\ t = Cardinality(Stale')
  BY <1>1, OldStaleNext
<1>3. /\ now \in Ticks /\ seen \in Row /\ row \in Row /\ window \in Windows
      /\ window' = Restarted(now) /\ WindowOver(seen, now) /\ At(r, "deciding")
      /\ row'.id = row.id /\ row'.started = now /\ row' \in Row /\ seen.id = row.id
      /\ login'[r].phase = "verifying"
  BY LoginPhase DEF RowRestarted, LimiterInv, LimiterTypeOK, Deciding
<1>4. window'.began = window.began
  BY <1>3, RestartedWindow
<1>5. /\ now \in Int /\ window.began \in Int /\ seen.started \in Int
      /\ seen.started < now /\ seen.started < window.began
  BY <1>3, LimiterAssumption DEF Row, Windows, Ticks, WindowOver
<1>6. NONE \notin Row
  BY LimiterAssumption
<1>7. /\ Old' \subseteq Old /\ (~SetBack => Stale' \subseteq Stale)
      /\ r \notin Old' /\ r \notin Stale'
  BY <1>3, <1>4, <1>6, OldKept DEF RestartsCovered
<1>8. b <= a /\ b + t + 1 <= n
  BY <1>1, <1>2, <1>7, OldStale, OldStaleNext, FewerLogins
<1>9. SetBack' <=> now < window.began
  BY <1>3, <1>4 DEF SetBack
<1>10. Left' = IF SetBack' THEN Ahead(b, n - b) ELSE Ahead(b, t)
  BY <1>1, <1>2 DEF Left, Ahead, Turns, InFlight
<1>11. Left = IF SetBack THEN Ahead(a, n - a) ELSE Ahead(a, s)
  BY <1>1 DEF Left
<1>12. n - a \in Nat /\ n - b \in Nat /\ a <= n
  BY <1>1, <1>8
<1>13. CASE now < window.began
  <2>1. r \in Old
    BY <1>3, <1>13 DEF Old
  <2>2. b + 1 <= a /\ b # a
    BY <1>1, <1>2, <1>7, <2>1, OldStale, FewerLogins
  <2>3. Ahead(b, n - b) + 2 <= Ahead(a, s) /\ Ahead(b, n - b) + 2 <= Ahead(a, n - a)
    BY <1>1, <1>8, <1>12, <2>2, AheadGrows
  <2> QED
    BY <1>9, <1>10, <1>11, <1>13, <2>3
<1>14. CASE window.began <= now /\ ~SetBack
  <2>1. r \in Stale
    BY <1>3, <1>5, <1>6, <1>14 DEF Stale
  <2>2. t + 1 <= s
    BY <1>1, <1>2, <1>7, <1>14, <2>1, OldStale, FewerLogins
  <2>3. t + 1 \in Nat /\ Ahead(b, t + 1) <= Ahead(a, s)
    BY <1>1, <1>8, <1>12, <2>2, AheadGrows
  <2>4. Turns(b) \in Int
    BY <1>1 DEF Turns
  <2>5. Ahead(b, t) + 2 = Ahead(b, t + 1)
    BY <2>4 DEF Ahead
  <2> QED
    BY <1>5, <1>9, <1>10, <1>11, <1>14, <2>3, <2>5
<1>15. CASE window.began <= now /\ SetBack
  <2>1. Ahead(b, t) + 2 <= Ahead(b, n - b)
    BY <1>1, <1>8, MostAhead
  <2>2. Ahead(b, n - b) <= Ahead(a, n - a) /\ Ahead(b, n - b) \in Int /\ Ahead(a, n - a) \in Int
    BY <1>1, <1>8, <1>12, AheadGrows
  <2>3. Ahead(b, t) \in Nat
    BY <1>1, <1>8, MostAhead
  <2> QED
    BY <1>5, <1>9, <1>10, <1>11, <1>15, <2>1, <2>2, <2>3
<1> QED
  BY <1>5, <1>13, <1>14, <1>15

\* Where a window begins the others in flight are old or have read the row before.
LEMMA LeftAtFirst ==
  ASSUME LimiterInv, LimiterInv', NEW r \in Logins,
         At(r, "deciding"), login'[r].phase = "verifying",
         row'.started = login[r].now, window' = FirstOf(login[r].now)
  PROVE  window'.restarts = 0 /\ Left' <= (InFlight - 1) * (InFlight + 4)
<1>1. login[r].now \in Ticks /\ login[r].now \in Int
  BY LoginPhase, LimiterAssumption DEF LimiterInv, Deciding, Ticks
<1>2. window'.began = login[r].now /\ window'.restarts = 0
  BY <1>1, WindowsKept
<1>3. ~SetBack'
  BY <1>1, <1>2 DEF SetBack
<1>4. r \notin Old' /\ r \notin Stale'
  BY DEF Old, Stale, At
<1>5. PICK a \in Nat, s \in Nat, n \in Nat :
        /\ a = Cardinality(Old') /\ s = Cardinality(Stale') /\ n = InFlight
        /\ a + s + 1 <= n
  BY <1>4, OldStale, OldStaleNext
<1>6. Left' = Ahead(a, s)
  BY <1>3, <1>5 DEF Left, Ahead, Turns, InFlight
<1> QED
  BY <1>2, <1>5, <1>6, MostAhead

LEMMA RestartsKept ==
  LimiterInv /\ LimiterInv' /\ RestartsCovered /\ [LimiterNext]_limiter => RestartsCovered'
<1> SUFFICES ASSUME LimiterInv, LimiterInv', RestartsCovered, [LimiterNext]_limiter
             PROVE  RestartsCovered'
  OBVIOUS
<1>0. PICK K \in Int : K = (InFlight - 1) * (InFlight + 4)
  BY OldStale
<1>1. /\ window.began <= ticks /\ ticks \in Nat /\ ticks' \in Nat /\ window \in Windows
      /\ window' \in Windows /\ window.restarts \in Nat /\ window'.restarts \in Nat
      /\ window.began \in Nat /\ row \in Row \cup {NONE} /\ NONE \notin Row
      /\ row = NONE => window.restarts = 0
      /\ row # NONE => 2 * window.restarts + Left <= K
  BY <1>0, LimiterAssumption
     DEF RestartsCovered, LimiterInv, LimiterTypeOK, Windows, Ticks, Seen
<1>2. Left \in Int /\ Left' \in Int
  <2>1. Left \in Int /\ InFlight \in Nat
    BY LeftType, OldStale
  <2>2. (LimiterInv => Left \in Int)'
    BY LeftType, PTL
  <2> QED
    BY <2>1, <2>2
<1>8. PICK left \in Int, next \in Int : left = Left /\ next = Left'
  BY <1>2
<1>3. ASSUME window'.began = window.began, window'.restarts = window.restarts, ticks <= ticks',
             row' = NONE => row = NONE, row' # NONE => row # NONE /\ Left' <= Left
      PROVE  RestartsCovered'
  <2>1. window'.began <= ticks'
    BY <1>1, <1>3
  <2>2. row' # NONE => 2 * window'.restarts + Left' <= K
    BY <1>1, <1>2, <1>3
  <2> QED
    BY <1>0, <1>1, <1>3, <2>1, <2>2 DEF RestartsCovered, InFlight
<1>4. CASE UNCHANGED <<row, login, window>> /\ ticks <= ticks'
  <2>1. Left' = Left
    BY <1>4 DEF Left, SetBack, Old, Stale, At
  <2> QED
    BY <1>2, <1>3, <1>4, <2>1
<1>5. ASSUME NEW r \in Logins, Steps(r) PROVE RestartsCovered'
  <2>1. Moves(r) /\ ticks' = ticks
    <3>1. ticks' = ticks
      BY <1>5 DEF Steps, Enter, GetRateLimit, Fail, AddRateLimit, StartWindow, RefuseAndBlock,
                  Count, Verified, Reset
    <3> QED
      BY <1>5, <3>1, StepsMove
  <2>2. At(r, "deciding") => login[r].now \in Ticks /\ login[r].now <= ticks
    BY LoginPhase DEF LimiterInv, Deciding, Timely, At
  <2>3. ASSUME At(r, "deciding"), login'[r].phase = "verifying", row' # NONE,
               row'.started = login[r].now, window' = FirstOf(login[r].now)
        PROVE  RestartsCovered'
    <3>1. window'.restarts = 0 /\ Left' <= K
      BY <1>0, <2>3, LeftAtFirst
    <3>2. window'.began <= ticks'
      <4>1. login[r].now \in Ticks /\ login[r].now <= ticks'
        BY <2>1, <2>2, <2>3
      <4>2. window'.began = login[r].now
        BY <2>3, <4>1, WindowsKept
      <4>3. login[r].now \in Nat /\ ticks' \in Nat
        BY <1>1, <4>1, LimiterAssumption DEF Ticks
      <4> QED
        BY <4>1, <4>2, <4>3
    <3>3. 2 * window'.restarts + Left' <= K
      <4>1. next <= K
        BY <1>8, <3>1
      <4>2. 2 * 0 + next <= K
        BY <4>1
      <4> QED
        BY <1>8, <3>1, <4>2
    <3> QED
      BY <1>0, <2>3, <3>2, <3>3 DEF RestartsCovered, InFlight
  <2>4. CASE RowKept /\ row = NONE
    BY <1>1, <2>1, <2>4 DEF RowKept, RestartsCovered
  <2>5. CASE RowGone
    BY <1>1, <2>1, <2>5, WindowsKept DEF RowGone, RestartsCovered
  <2>6. CASE RowCreated(r)
    BY <1>1, <2>3, <2>6 DEF RowCreated
  <2>7. CASE RowBlocked \/ RowCounted(r) \/ (RowKept /\ row # NONE)
    <3>1. window'.began = window.began /\ window'.restarts = window.restarts
      BY <1>1, <2>7, CountedWindow DEF RowBlocked, RowCounted, RowKept
    <3>2. /\ row' # NONE /\ row # NONE /\ row'.id = row.id /\ row'.started = row.started
      BY <1>1, <2>7 DEF RowBlocked, RowCounted, RowKept
    <3>3. Left' <= Left
      BY <2>1, <3>1, <3>2, LeftKept
    <3>4. ticks <= ticks'
      BY <1>1, <2>1
    <3> QED
      BY <1>3, <3>1, <3>2, <3>3, <3>4
  <2>8. CASE RowRestarted(r)
    <3>1. /\ row # NONE /\ row' # NONE /\ At(r, "deciding") /\ login[r].now \in Ticks
          /\ login'[r].phase = "verifying" /\ row'.started = login[r].now
          /\ window' = Restarted(login[r].now)
      BY <1>1, <2>2, <2>8 DEF RowRestarted
    <3>2. CASE login[r].now - window.began >= Window
      <4>1. window' = FirstOf(login[r].now)
        BY <1>1, <3>1, <3>2, RestartedWindow
      <4> QED
        BY <2>3, <3>1, <4>1
    <3>3. CASE ~(login[r].now - window.began >= Window)
      <4>1. window'.began = window.began /\ window'.restarts = window.restarts + 1
        BY <1>1, <3>1, <3>3, RestartedWindow
      <4>2. Left' + 2 <= Left
        BY <2>1, <2>8, <3>3, LeftUsed
      <4>3. 2 * window'.restarts + Left' <= K /\ window'.began <= ticks'
        <5>1. 2 * window.restarts + Left <= K /\ ticks' = ticks
          BY <1>1, <2>1, <3>1
        <5>2. 2 * (window.restarts + 1) + Left' <= K
          <6>1. PICK w \in Nat : w = window.restarts
            BY <1>1
          <6>2. 2 * w + left <= K /\ next + 2 <= left
            BY <1>8, <4>2, <5>1, <6>1
          <6>3. 2 * (w + 1) + next <= K
            BY <6>2
          <6> QED
            BY <1>8, <6>1, <6>3
        <5>3. window'.began <= ticks'
          BY <1>1, <4>1, <5>1
        <5>4. window'.restarts = window.restarts + 1
          BY <1>2, <4>1
        <5> QED
          BY <5>2, <5>3, <5>4
      <4> QED
        BY <1>0, <3>1, <4>3 DEF RestartsCovered, InFlight
    <3> QED
      BY <3>2, <3>3
  <2> QED
    BY <1>5, <2>4, <2>5, <2>6, <2>7, <2>8, RowSteps
<1>6. CASE UNCHANGED limiter
  BY <1>1, <1>4, <1>6 DEF limiter
<1>7. CASE TimePasses
  BY <1>1, <1>4, <1>7 DEF TimePasses
<1> QED
  BY <1>5, <1>6, <1>7 DEF LimiterNext, Steps

LEMMA RestartsInvariant == LimiterSpec => [](LimiterInv /\ RestartsCovered)
<1>1. LimiterInit => RestartsCovered
  BY WindowsKept DEF LimiterInit, RestartsCovered
<1> QED
  BY <1>1, LimiterInvariant, RestartsKept, PTL DEF LimiterSpec

\* In one window of time the count is started again only by the logins that were in flight
\* when it began, and by those that find the row set back by one of them: with n in flight,
\* (n - 1)(n + 4) / 2 times at most.
THEOREM RestartsAreBounded == LimiterSpec => []RestartSlack
<1>1. LimiterInv /\ RestartsCovered => RestartSlack
  <2> SUFFICES ASSUME LimiterInv, RestartsCovered PROVE RestartSlack
    OBVIOUS
  <2>1. window.restarts \in Nat /\ InFlight \in Nat
    BY OldStale DEF LimiterInv, LimiterTypeOK, Windows
  <2>2. PICK k \in Int : k = (InFlight - 1) * (InFlight + 4)
    BY <2>1
  <2>3. CASE row # NONE
    <3>1. Left \in Int /\ 0 <= Left /\ 2 * window.restarts + Left <= k
      BY <2>2, <2>3, LeftType DEF RestartsCovered
    <3> QED
      BY <2>1, <2>2, <3>1 DEF RestartSlack
  <2>4. CASE row = NONE
    <3>1. window.restarts = 0
      BY <2>4 DEF RestartsCovered
    <3>2. InFlight >= 1
      <4>1. Cardinality(Logins) # 0
        BY LimiterAssumption, FS_EmptySet
      <4> QED
        BY <2>1, <4>1 DEF InFlight
    <3>3. (InFlight - 1) * (InFlight + 4) >= 0
      <4>1. InFlight - 1 \in Nat /\ InFlight + 4 \in Nat
        BY <2>1, <3>2
      <4>2. \A x \in Nat, y \in Nat : x * y >= 0
        OBVIOUS
      <4> QED
        BY <4>1, <4>2
    <3> QED
      BY <3>1, <3>3 DEF RestartSlack
  <2> QED
    BY <2>3, <2>4
<1> QED
  BY <1>1, RestartsInvariant, PTL

LEMMA SumInvariant == LimiterSpec => [](LimiterInv /\ SlackIsCovered /\ AdmittedSum)
<1>1. LimiterInit => SlackIsCovered /\ AdmittedSum
  <2> SUFFICES ASSUME LimiterInit PROVE SlackIsCovered /\ AdmittedSum
    OBVIOUS
  <2>1. window.counted = 0 /\ window.restarts = 0 /\ window.admitted = 0 /\ LimiterInv
    BY LimiterStart, WindowsKept DEF LimiterInit
  <2>2. SlackIsCovered
    BY <2>1, FewAreCovered
  <2>3. Most \in Nat /\ 0 * Most = 0
    BY <2>1, <2>2, CountIsBounded
  <2> QED
    BY <2>1, <2>2, <2>3 DEF AdmittedSum
<1> QED
  BY <1>1, LimiterInvariant, SlackKept, SumKept, PTL DEF LimiterSpec

\* However logins overlap, no more attempts pass in one window of time than there are ways
\* of choosing the logins in flight from MaxAttempts + n - 1, for each time the count is
\* started; and it is not started more often than RestartSlack allows.
THEOREM AttemptsAreBounded ==
  LimiterSpec => [](/\ AttemptSlack
                    /\ 2 * window.admitted <=
                         (2 + (InFlight - 1) * (InFlight + 4)) * Most)
<1>1. LimiterInv /\ SlackIsCovered /\ AdmittedSum => AttemptSlack
  <2> SUFFICES ASSUME LimiterInv, SlackIsCovered, AdmittedSum PROVE AttemptSlack
    OBVIOUS
  <2>1. /\ Most \in Nat /\ window.counted <= Most /\ window.counted \in Nat
        /\ window.restarts \in Nat /\ window.admitted \in Nat
    BY CountIsBounded DEF LimiterInv, LimiterTypeOK, Windows
  <2>2. (1 + window.restarts) * Most = window.restarts * Most + Most
    BY <2>1
  <2>3. PICK most \in Nat : most = window.restarts * Most
    BY <2>1
  <2>4. window.admitted <= (1 + window.restarts) * Most
    BY <2>1, <2>2, <2>3 DEF AdmittedSum
  <2> QED
    BY <2>4 DEF AttemptSlack, Most
<1>2. LimiterInv /\ SlackIsCovered /\ AttemptSlack /\ RestartSlack =>
        2 * window.admitted <= (2 + (InFlight - 1) * (InFlight + 4)) * Most
  <2> SUFFICES ASSUME LimiterInv, SlackIsCovered, AttemptSlack, RestartSlack
               PROVE  2 * window.admitted <= (2 + (InFlight - 1) * (InFlight + 4)) * Most
    OBVIOUS
  <2>1. Most \in Nat /\ window.restarts \in Nat /\ window.admitted \in Nat
    BY CountIsBounded DEF LimiterInv, LimiterTypeOK, Windows
  <2>2. PICK k \in Int : k = (InFlight - 1) * (InFlight + 4)
    BY OldStale
  <2>3. 2 * window.restarts <= k /\ k - 2 * window.restarts \in Nat
    BY <2>1, <2>2 DEF RestartSlack
  <2>4. (k - 2 * window.restarts) * Most \in Nat
    BY <2>1, <2>3
  <2>5. window.admitted <= (1 + window.restarts) * Most
    BY DEF AttemptSlack, Most
  <2>6. (2 + k) * Most
          = 2 * ((1 + window.restarts) * Most) + (k - 2 * window.restarts) * Most
    BY <2>1
  <2>7. PICK x \in Nat, y \in Nat :
          x = (1 + window.restarts) * Most /\ y = (k - 2 * window.restarts) * Most
    BY <2>1, <2>4
  <2>8. 2 * window.admitted <= (2 + k) * Most
    BY <2>1, <2>5, <2>6, <2>7
  <2> QED
    BY <2>2, <2>8
<1> QED
  BY <1>1, <1>2, RestartsAreBounded, SumInvariant, PTL

=============================================================================
