------------------------- MODULE AccountProperties -------------------------
(***************************************************************************)
(* What accounts must get right.                                           *)
(***************************************************************************)
EXTENDS Accounts

\* Every variable keeps its type.
TypeOK ==
  /\ clock \in Time
  /\ user \in User \cup {NULL}
  /\ tokens \in [Tokens -> AuthToken \cup {NULL}]
  /\ sessions \in [Sessions -> AuthSession \cup {NULL}]
  /\ notices \subseteq Tokens
  /\ req \in [Requests -> {Idle} \cup Snapshot \cup LoggingIn \cup Registered]

LiveResets == {t \in Tokens : Live(tokens[t], "PASSWORD_RESET")}

\* A new token invalidates the ones its request saw: of the requests that overlap,
\* each leaves at most one token that works.
LiveTokenSlack == Cardinality(LiveResets) <= Cardinality(Requests)

\* A committed change of password, by someone signed in or through a token.
Changes(r) ==
  /\ IsOpen(r) /\ req'[r] = Idle
  /\ user # NULL /\ user' # user /\ user'.verified = user.verified

\* A recovery token changes the password at most once, however many requests present
\* it together (README: solo pueden utilizarse una vez): every recovery announces a
\* token of its snapshot that none has announced.
OneResetPerToken ==
  [][\A r \in Requests : Changes(r) /\ req[r].via = NULL =>
       \E t \in Tokens \ notices : /\ Live(req[r].tokens[t], "PASSWORD_RESET")
                                   /\ notices' = notices \cup {t}]_vars

\* After a change no recovery token works but those asked for while it ran.
ChangeEndsTokens ==
  [][\A r \in Requests : Changes(r) =>
       \A t \in LiveResets' : req[r].tokens[t] = NULL]_vars

\* After a change no session works that was open when it began, not even the one it
\* was asked through (README: invalida las sesiones anteriores).
ChangeEndsSessions ==
  [][\A r \in Requests : Changes(r) =>
       \A s \in Sessions : req[r].sessions[s] # NULL => ~Usable(s)']_vars

\* A session refused once stays refused, unless two changes overlapped, the one with
\* the earlier date committed last, and the session was opened after it began.
OnlyOverlapRevivesSessions ==
  [][\A s \in Sessions :
       sessions[s] # NULL /\ ~Usable(s) /\ Usable(s)' =>
         \E r \in Requests : /\ Changes(r)
                             /\ req[r].user.invalidated # user.invalidated
                             /\ req[r].sessions[s] = NULL]_vars

=============================================================================
