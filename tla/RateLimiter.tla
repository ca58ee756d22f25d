---------------------------- MODULE RateLimiter ----------------------------
(***************************************************************************)
(* The limiter of attempts for one action and key, as a login uses it:     *)
(* allow counts the attempt in a transaction of its own, a right password  *)
(* forgets the row in another.                                             *)
(*                                                                         *)
(* The row is read without a lock and written by primary key, only the     *)
(* columns whose value differs from the one read; writing a row that is    *)
(* gone, or a second row for the key, fails the request.                   *)
(*                                                                         *)
(* Source: app/modules/usuarios/services/rate_limit_service.py and         *)
(* AuthService.authenticate.                                               *)
(***************************************************************************)
EXTENDS Integers, FiniteSets

CONSTANTS
  Logins,        \* logins that may be in flight at the same time
  MaxAttempts,   \* AUTH_RATE_LIMIT_MAX_ATTEMPTS
  Window,        \* AUTH_RATE_LIMIT_WINDOW_SECONDS
  Block,         \* AUTH_RATE_LIMIT_BLOCK_SECONDS
  MaxTicks,      \* bound on the clock
  MaxRows,       \* bound on the rows created
  NONE

VARIABLES
  ticks,     \* the clock
  row,       \* the row of auth_rate_limits, or NONE
  created,   \* how many rows there have been: the next primary key
  login,     \* the logins in flight
  window     \* history of the window of time in force: when it began, how often the count
             \* was started again in it, the attempts allowed since, and all of them

limiter == <<ticks, row, created, login, window>>

Ticks == 0 .. MaxTicks
Row == [id: 1 .. MaxRows, started: Ticks, count: Nat, blocked: Nat \cup {NONE}]

ASSUME LimiterAssumption ==
  /\ IsFiniteSet(Logins) /\ Logins # {}
  /\ MaxAttempts \in Nat \ {0} /\ Window \in Nat \ {0} /\ Block \in Nat \ {0}
  /\ MaxTicks \in Nat /\ MaxRows \in Nat
  /\ NONE \notin Nat /\ NONE \notin Row

Seen == Row \cup {NONE}

Windows == [began: Ticks, restarts: Nat, counted: Nat, admitted: Nat]

\* history: the window that an attempt made at now begins; no attempt is in no window.
FirstOf(now) == [began |-> now, restarts |-> 0, counted |-> 1, admitted |-> 1]

NoWindow == [began |-> 0, restarts |-> 0, counted |-> 0, admitted |-> 0]

NoLogin == [phase |-> "idle"]
Arrived == [phase: {"arrived"}, now: Ticks]
Deciding == [phase: {"deciding"}, now: Ticks, seen: Seen]
Verifying == [phase: {"verifying"}, now: Ticks, block: Nat \cup {NONE}]
Forgetting == [phase: {"forgetting"}, now: Ticks, block: Nat \cup {NONE}, seen: Seen]

LimiterInit ==
  /\ ticks = 0 /\ row = NONE /\ created = 0 /\ window = NoWindow
  /\ login = [r \in Logins |-> NoLogin]

TimePasses ==
  /\ ticks < MaxTicks
  /\ ticks' = ticks + 1
  /\ UNCHANGED <<row, created, login, window>>

At(r, phase) == login[r].phase = phase
Goes(r, state) == login' = [login EXCEPT ![r] = state]

\* now is taken first, the row is read next.
Enter(r) ==
  /\ At(r, "idle")
  /\ Goes(r, [phase |-> "arrived", now |-> ticks])
  /\ UNCHANGED <<ticks, row, created, window>>

GetRateLimit(r) ==
  /\ At(r, "arrived")
  /\ Goes(r, [phase |-> "deciding", now |-> login[r].now, seen |-> row])
  /\ UNCHANGED <<ticks, row, created, window>>

\* A refusal, an error of the database or a crash, between any two steps.
Fail(r) ==
  /\ ~At(r, "idle")
  /\ Goes(r, NoLogin)
  /\ UNCHANGED <<ticks, row, created, window>>

BlockOf(seen) == IF seen = NONE THEN NONE ELSE seen.blocked

\* history: block is the one it was allowed in spite of, for it was over.
Allow(r) == Goes(r, [phase |-> "verifying", now |-> login[r].now,
                     block |-> BlockOf(login[r].seen)])

\* The first attempt of the key.
AddRateLimit(r) ==
  /\ At(r, "deciding") /\ login[r].seen = NONE
  /\ row = NONE /\ created < MaxRows
  /\ row' = [id |-> created + 1, started |-> login[r].now, count |-> 1, blocked |-> NONE]
  /\ created' = created + 1
  /\ window' = FirstOf(login[r].now)
  /\ Allow(r)
  /\ UNCHANGED ticks

Blocked(seen, now) == seen.blocked # NONE /\ now < seen.blocked

\* Mutant: the length of the window is forgotten.
NotBefore(seen, now) == now >= seen.started

WindowOver(seen, now) == now - seen.started >= Window

\* Mutant: the end of the window is looked at before the block.
WindowFirst(r) ==
  /\ At(r, "deciding") /\ login[r].seen # NONE
  /\ row # NONE /\ row.id = login[r].seen.id
  /\ Blocked(login[r].seen, login[r].now) => WindowOver(login[r].seen, login[r].now)

\* The UPDATE finds the row it was read from, and no block is in force.
CanWrite(r) ==
  /\ At(r, "deciding") /\ login[r].seen # NONE
  /\ row # NONE /\ row.id = login[r].seen.id
  /\ ~Blocked(login[r].seen, login[r].now)

\* The columns of the new values that differ from the ones read.
Written(seen, values) ==
  [column \in DOMAIN row |-> IF values[column] # seen[column] THEN values[column]
                             ELSE row[column]]

\* history: a window of time ends when Window has passed since it began. A login that
\* starts the count before that, from a row it read earlier or one set back, is still in it.
Restarted(now) ==
  IF now - window.began >= Window THEN FirstOf(now)
  ELSE [window EXCEPT !.restarts = @ + 1, !.counted = 1, !.admitted = @ + 1]

StartWindow(r) ==
  /\ CanWrite(r) /\ WindowOver(login[r].seen, login[r].now)
  /\ row' = Written(login[r].seen,
              [login[r].seen EXCEPT !.started = login[r].now, !.count = 1, !.blocked = NONE])
  /\ window' = Restarted(login[r].now)
  /\ Allow(r)
  /\ UNCHANGED <<ticks, created>>

\* Mutant: the limit itself is still allowed.
NotOverLimit(seen) == seen.count <= MaxAttempts

UnderLimit(seen) == seen.count < MaxAttempts

RefuseAndBlock(r) ==
  /\ CanWrite(r) /\ ~WindowOver(login[r].seen, login[r].now)
  /\ ~UnderLimit(login[r].seen)
  /\ row' = Written(login[r].seen, [login[r].seen EXCEPT !.blocked = login[r].now + Block])
  /\ Goes(r, NoLogin)
  /\ UNCHANGED <<ticks, created, window>>

Count(r) ==
  /\ CanWrite(r) /\ ~WindowOver(login[r].seen, login[r].now)
  /\ UnderLimit(login[r].seen)
  /\ row' = Written(login[r].seen, [login[r].seen EXCEPT !.count = @ + 1])
  /\ window' = [window EXCEPT !.counted = @ + 1, !.admitted = @ + 1]
  /\ Allow(r)
  /\ UNCHANGED <<ticks, created>>

\* The password was right: reset reads the row again and deletes what it read.
Verified(r) ==
  /\ At(r, "verifying")
  /\ Goes(r, [phase |-> "forgetting", now |-> login[r].now, block |-> login[r].block,
              seen |-> row])
  /\ UNCHANGED <<ticks, row, created, window>>

\* history: with the row its window of time is forgotten.
Reset(r) ==
  /\ At(r, "forgetting")
  /\ LET gone == login[r].seen # NONE /\ row # NONE /\ row.id = login[r].seen.id IN
       /\ row' = IF gone THEN NONE ELSE row
       /\ window' = IF gone THEN NoWindow ELSE window
  /\ Goes(r, NoLogin)
  /\ UNCHANGED <<ticks, created>>

LimiterNext ==
  \/ TimePasses
  \/ \E r \in Logins :
       \/ Enter(r) \/ GetRateLimit(r) \/ Fail(r)
       \/ AddRateLimit(r) \/ StartWindow(r) \/ RefuseAndBlock(r) \/ Count(r)
       \/ Verified(r) \/ Reset(r)

LimiterSpec == LimiterInit /\ [][LimiterNext]_limiter

=============================================================================
