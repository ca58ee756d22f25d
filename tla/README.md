# Formal models of the ticket management backend

TLA+ models of the FastAPI backend in `src/`: what its endpoints do to the rows
of MySQL, to the files and to the memory of the process when requests overlap,
fail or crash. TLC checks them on small instances; TLAPS proves what matters most
for every instance.

## 1. The system

One FastAPI process, or several, serves synchronous endpoints from a thread pool.
Every request gets its own SQLAlchemy session (`app/db/session.py`); the
authentication dependency (`app/api/deps.py`) issues the first SELECT, and the
service that the router calls ends with `session.commit()`, some services with
several. MySQL runs at its default isolation, REPEATABLE READ: the first plain
SELECT fixes the snapshot that later plain SELECTs read, `SELECT ... FOR UPDATE`
reads, and locks, the latest committed row. There is no background worker: the
evaluation of the SLA is an endpoint.

The hard behaviour sits where a request reads something without a lock and writes
by it, where it commits more than once, where it touches something outside the
database (a file, an e-mail, a provider), and where a conversation goes through
many messages.

| Component | State | Operations that change it | Talks to |
| --- | --- | --- | --- |
| Tickets (`ticket_service.py`) | `tickets`, `ticket_assignments`, `ticket_history`, `ticket_comments` | create, assign, take, release, change_status, cancel, reopen, close, add_comment | SLA, notifications |
| SLA (`sla_service.py`) | `ticket_sla`, `sla_policies` | start, first response, status change, pause, resume, evaluate | called by the ticket operations, in their transaction |
| Conversations (`chatbot_service.py`, `convert_conversation`) | `conversations`, `chat_messages` | create, send_message, link, escalate, reset, convert | knowledge base, drafts, tickets, notifications |
| Dialogue and drafts (`chatbot_service.py`, `ticket_draft_service.py`) | the JSON context of the conversation | what each message leaves in it | categories, articles |
| Generated answers (`rag_service.py`, `guardrails.py`, `ai_provider.py`) | circuit and cache in process memory | answer | provider, articles |
| Attachments (`attachment_service.py`, `storage_provider.py`) | `ticket_attachments`, files | upload, delete | tickets |
| Knowledge base (`faq_service.py`, categories) | `faqs`, `faq_versions`, `ticket_categories` | create, edit, workflow, restore, deactivate | tickets use its categories |
| Notifications (`notification_service.py`) | `notifications`, `user_preferences` | create (row, audit row, e-mail), read, preferences | called by tickets, SLA, accounts |
| Accounts (`auth_service.py`, `deps.py`) | `users`, `auth_sessions`, `auth_tokens` | register, verify, login, logout, change and recover the password | limiter, notifications |
| Limiter (`rate_limit_service.py`) | `auth_rate_limits` | allow, reset | called by accounts |

`PROJECT.json` lists every component with what is left out of it, the hazards of
the code at their lines, and the lines each definition stands for.

## 2. Modules

A component has a module of its state and actions, one of its properties (`...Properties`),
where it is proved about one of its theorems (`...Proofs`), and one that instantiates
it for TLC (`MC...`).

| Modules | State and actions |
| --- | --- |
| `TicketRules` | operators only: statuses, transition table, CHECK constraint, guards, the rows written |
| `TicketService` | `ticket`, `assignments`, `history` are committed rows, `req` what the snapshot of each request in flight holds. `Begin` is the first SELECT, one action per endpoint goes from the lock to the COMMIT, `Rollback` is every way to end without one |
| `TicketWorkflow` | abstract: ticket operations that act at once on the latest row |
| `SlaClock` | the SLA record of one ticket, the dedupe keys of its notices and a clock; the same `Begin` and `Rollback`, and `WriteChanged`, the ORM's UPDATE of the changed columns, both due dates among them whenever a resumption assigns them (they are loaded naive and written aware, so they always differ) |
| `Conversation` | one conversation: `send_message` is one action per transaction (`PostMessage`, `LinkToDraft`, `AnswerDraft` or `AnswerQuestion`, `Announce`, with the `ReadTo...` that starts each snapshot); `req` says which COMMIT a request has reached and what it read |
| `Conversion` | abstract: one ticket, every success answered with it |
| `TicketDraft`, `Dialogue` | what one message makes of the draft (operators), and which branch of `send_message` it takes and leaves in the context, one request at a time, while categories and articles come and go |
| `DraftLifecycle` | abstract: the stages of a draft a client may rely on |
| `Attachments` | rows in the database, complete and partial files on the disk, with a step per file operation, failures and crashes in between |
| `FaqWorkflow` | articles, their versions and the categories; snapshot and COMMIT of unlocked editors |
| `FaqEditorial` | abstract: a board of articles edited one operation at a time |
| `Accounts` | one account: password, one-time tokens, sessions, a clock of whole seconds |
| `RateLimiter` | the row of one action and key, and the login between `allow` and `reset` |
| `Notifications` | the announcements of one user: rows, audit rows, e-mails that leave before the COMMIT, preferences |
| `AiCircuit` | circuit breaker and cache shared by the threads, the answers of one conversation, the provider and its timeout, restarts of the process |

Definitions headed `Mutant:` are plausible mistakes in the operator that follows
them. No specification uses them; put in its place, each makes TLC find the
property that `PROJECT.json` names violated, which shows that it can fail.

### Decisions

* **Two steps where a lock is held.** Between the locking read of a ticket and the
  COMMIT nobody else commits a write of it, so that stretch is one action. What was
  read before the lock is what `Begin` recorded, and so is what is read after it with a
  plain SELECT: at REPEATABLE READ it comes from the same snapshot.
* **Snapshot and COMMIT where none is.** In `FaqWorkflow`, `Accounts`, `RateLimiter`,
  `Notifications` and `SlaClock` a request computes on its snapshot and writes the
  columns it changed; what a unique key refuses ends as a `Rollback`.
* `reopen` loads the ticket before the lock, and the identity map returns that object
  from the locking SELECT without refreshing it: every guard is checked on the
  snapshot's row and two columns are written (`ReopenedRow`).
* Each COMMIT of `send_message` expires the conversation, and the next transaction
  reads it again without repeating the checks of the first. `Rollback` between two
  is a crash or an exception.
* The context of a conversation is one JSON column. `Conversation` keeps its draft
  and whether anything else in it changed; `Dialogue` keeps all of it that later
  messages depend on, and leaves the overlap to `Conversation`.
* A message is what the patterns of the code find in it (kinds of request, labelled
  fields, named categories, lengths that fit), never its text; an e-mail, an answer
  or a file is its key. What a score or a pattern decides is a choice.
* Quotas that span conversations (per minute, hour and day) refuse as a `Rollback`.
* `overlapped` (SLA, conversation) and `miscounted` (conversation) are history
  variables that say whether two requests were in flight together, and whether an
  answer was counted from a number of turns no longer committed. Properties that
  hold only until requests disturb each other name them, so that one run shows both
  what always holds and what concurrency takes away. `window` (limiter), `undone`,
  `leaked`, `deletions` (attachments), `lost` (notifications) and `granted`
  (conversation) record what the code has done.
* `window` keeps the window of time apart from what the row says of it: it ends when
  `Window` has passed since its first attempt, not when a login that read an old row
  starts the count again. It counts those restarts and every attempt in between, and
  is forgotten with the row by a right password.

## 3. Runs

| Run | Instance | Distinct states | Shows |
| --- | --- | --- | --- |
| `ticket_locked` | 1 ticket, 2 requests, 1 client, 2 advisors, 1 supervisor, 6 versions, all endpoints but reopen | 0.5 M | history without gaps and one version per write, conditional writes, refinement of `TicketWorkflow` |
| `ticket_all` | the same with reopen | 0.6 M | the latest assignment is the advisor's, a second open one needs a stale snapshot, the history replays to the ticket, only a stale reopen revives a ticket |
| `ticket_double_assignment` | as `ticket_locked` | - | **violated**: two open assignments |
| `sla` | 2 requests, terms 1 and 2, warning 1, clock to 6 and 2 reopenings; to 2 and none once requests overlapped | 2.8 M | no pause is credited twice, notices have flags, evaluation settles, pauses freeze |
| `conversation` | 2 requests, 2 clients, 2 payloads, a limit of 1 turn, 4 messages | 0.8 M | the turn limit and its slack, who still writes to a converted conversation, refinement of `Conversion` |
| `attachments` | 2 requests, 3 keys, 2 sizes, limit of 1 file and 2 units, 2 statuses | 4.5 M | files and rows agree through failures and crashes, slack of the quotas, terminal tickets keep their attachments |
| `faq_workflow` | 2 requests, 2 articles (3 versions and 1), 2 texts, 1 source, 1 category, edits of question and source | 0.4 M | what is published was reviewed, misplaced tickets need an overlap, refinement of `FaqEditorial` |
| `accounts` | 2 requests, 3 tokens, 2 sessions, 2 passwords, clock to 1 | 1.2 M | live tokens, tokens used once, what a change of password ends, what revives a session |
| `rate_limiter` | 2 requests, 4 attempts, window 2, block 2, clock to 5, 2 rows | 2.1 M | how often the count starts again in one window of time, attempts admitted, blocks that hold |
| `notifications` | 2 requests, 2 keys, one critical, 2 e-mails per key | 1.4 M | critical notices are stored and mailed once, no e-mail after the row |
| `ai_circuit` | 2 requests, 1 article in 3 versions, threshold 2, cool-down 3, window 1, 2 answers | 0.2 M | answers rest on what was read; the circuit closes and every request ends |
| `dialogue` | 5 turns, 2 categories, 2 articles, 31 kinds of message, 2 clarifications, 2 options | 0.2 M | drafts are never stuck, context is the latest reply's, clarifications bounded, ordinals, refinement of `DraftLifecycle` |

What is proved for every instance is not always repeated in a run: the runs keep the
properties that are hardest to get right and those that cannot be proved. Most type
invariants, among others, are theorems only; TLC checked each of them, and each
inductive invariant that is more than types, before it was proved.

**Bounds.** Every stale read of this code is a race of two requests, and two are
enough for each of the disagreements below but the unbounded excess of turns, which
takes three. Six versions create, assign, work on,
resolve and close or reopen a ticket with another request in between. In `sla` the
clock passes both due dates and the warning of each, with a pause on either side.
With one overlapping reopening the state space passes 16 million, so that the case is
left to the theorems, which take any bound. In `conversation` four messages, which a
reset or an overlap takes past a limit of one turn, leave one for a converted conversation
and, were the limit checked late, one past the slack; resets stop
once requests have overlapped (`OverlapResets`), which again the theorems do not
assume. In `attachments` a file of size 2 fills the quota of bytes and one of size 3
passes it; two overlapping uploads of size 2 reach both bounds of `QuotaSlack`. In
`rate_limiter` the count is started again three times in one window, as often as
`RestartSlack` allows two logins (with three, and one attempt, TLC found the seven it
allows). In `faq_workflow` one article passes the whole workflow and the other is there to
be duplicated. In `accounts` the clock is 0 or 1, the least at which a date can be
older than another, and a life of one second expires in it. In `dialogue` five turns
start, fill in, correct, confirm and convert a draft, or fill the clarifications and
pick from a menu. `MaxVersion`, `MaxTime`, `MaxReopens`, `MaxMessages`, `MaxDeletions`,
`MaxClock`, `MaxRows` and `MaxMails` bound counters in the guards.

**Deadlock** is checked except in `accounts`, `rate_limiter` and `dialogue`, whose
clock or turns run out: nothing is left to do there.

**Fairness** is stated in `AiCircuit` alone: `Tick` (time passes) and the own steps of
each request (its thread runs, and `future.result` has a timeout). Nothing is assumed
of the provider, which may never answer, or of who asks. Elsewhere nothing in the
code schedules a step by itself, the evaluation of the SLA included, so no liveness
is stated.

## 4. Disagreements between the code and its documentation

`ticket_double_assignment` is a run of its own: `current_assignment` reads the
snapshot, so two overlapping assignments leave two open rows, while README:584-585
promises that a reassignment closes the previous one. Nothing else splits an assignment
(`OnlyStaleSnapshotSplits`). The others were met while modelling; the properties named
say what still holds.

*Tickets and SLA*
* A resumption writes both due dates as its own snapshot gives them, even when it adds
  nothing to the total (`sla_service.py:283-285`): one that overlapped another takes
  back the other's credit, while docs/superpowers/plans/2026-09-18-phase-05-sla.md:46-47
  has the dates and `total_paused_seconds` count the same pauses. No pause is credited
  twice, or to one stage only (`PausesCreditedOnce`).
* A closed ticket can be reopened by a request that loaded it before it was closed
  (README:363), and the same stale object passes `expected_version` (README:586-587).
  Only a reopen does so (`StaleReopenOnly`, `ConditionalWrite`).
* A first comment during a pause is judged by a due date without the pause
  (docs/superpowers/plans/2026-09-18-phase-05-sla.md:46): `PauseFreezesUnlessAnswered`.
* resume, unlocked, writes over a cancellation and leaves a running record
  (README:541). Overlapping reopenings clear a breach whose notice exists.

*Conversations and dialogue*
* A converted conversation takes the messages of requests that read it before, and an
  answer can make it active again (README:233-234): `OnlyEarlierRequestsWrite`.
* A repeated conversion with the same data is answered with the existing ticket
  (`Recover`), where README:236 and README:309 announce a 409. The one that loses the
  race on the unique key ends in a 500: the insert is flushed outside the try.
* Two requests pass the turn limit by one; once an answer is counted from an old
  number, three pass it any number of times (`TurnLimitSlack`).
* "El segundo" is counted among the options that are left, not those shown
  (`chatbot_service.py:1228-1259`, docs/chatbot-knowledge-governance.md:28-31):
  `OrdinalNeedsAllShown`.
* A cancelled draft still blocks the conversion, though the message says "Completa o
  cancela el borrador antes de convertirlo" (`ticket_service.py:253-257`).
* An answer to the field asked for may be taken as another; "quiero cancelar mi
  solicitud" without a draft starts one; any message makes an ESCALATED conversation
  ACTIVE.
* With the default settings the limit of generated answers per minute never binds,
  because it counts answers and a conversation is allowed fewer.

*Attachments and knowledge base*
* Overlapping uploads pass both quotas (README:626-627): `QuotaSlack`.
* A failure after the COMMIT removes the file of the committed row
  (`attachment_service.py:176-184`): `undone` in `ActiveRowHasFile`.
* Every edit escapes again the texts that were not sent (`faq_service.py:172-216`,
  `508`), and the audit row of the workflow records the new status as the former one
  (`faq_service.py:291`, README:512-513). An update may date a verification without a
  source (`schemas/faq.py:159-164`).
* A category can be deactivated while a ticket that uses it is being created
  (README:423): `MisplacedNeedsOverlap`.

*Accounts, limiter and notifications*
* A verification token works for two overlapping requests (README:86); a recovery token
  does not (`OneResetPerToken`), though only because the notification's key is unique.
* Overlapping changes of password move `sessions_invalidated_at` back, and a login that
  checked the former password before the change gets a session after it (README:84-86):
  `OnlyOverlapRevivesSessions`, `ChangeEndsSessions`. A login in the second of the change
  gets a session that never works. A crash after the registration's first COMMIT
  leaves an account without verification token.
* Overlapping attempts pass the limit: n requests up to C(MaxAttempts + n - 1, n) times
  each time the count is started (`AttemptSlack`), and it is started again up to
  (n - 1)(n + 4) / 2 times in one window (`RestartSlack`).
* E-mails leave before the COMMIT they announce; with the notices muted, every retry
  mails again (`NoMailOverRow`). After a reset a conversation reuses the dedupe key of an
  escalation, which is then not announced.

## 5. Proofs

| Module | Assumes | Inductive invariant | Theorems |
| --- | --- | --- | --- |
| `TicketProofs` | `RolesAssumption`, `ServiceAssumption` | `TypeOK /\ RowsLegal`, `EveryHistoryExplains`, `EveryWriteRecorded` | types, what the history replays to, CHECK constraint, latest assignment, only stale snapshots split an assignment, only stale reopens revive; without reopen: terminal is final, a history without gaps, conditional writes, timestamps, refinement |
| `SlaProofs` | `SlaAssumption` | `Typed`, `Rising`, `Serial`, `Agree` over `HistorySpec` | every property of `SlaProperties` |
| `ConversationProofs` | `ConversationAssumption` | `TypeOK /\ SnapshotsKnowTicket /\ GrantsNeedTicket`, and one more per theorem | every property of `ConversationProperties` |
| `AttachmentProofs` | `AttachmentAssumption` | `TypeOK /\ KeyIsSet`, `FileInv`, `CountBounded`, `BytesBounded`, `DeletionsBounded` | every property of `AttachmentProperties` |
| `FaqProofs` | `FaqAssumption` | `TypeOK /\ SnapshotPast /\ HistoryLength` and the invariants themselves | every property of `FaqProperties` |
| `AccountProofs` | `AccountsAssumption`, `LimiterAssumption` | `TypeOK /\ Owned /\ Sound`, `Slack`; `LimiterInv`, `SlackIsCovered`, `AdmittedSum`, `RestartsCovered` | every property of `AccountProperties` and `RateLimiterProperties` |
| `NotificationProofs` | `NotificationAssumption` | `Inv`: types, what snapshots and announcements know, one insert per key | every property of `NotificationProperties` |
| `ChatbotProofs` | `CircuitAssumption`, `DraftAssumption`, `DialogueAssumption` | `TypeOK`, `CacheRests`, `Bounded`; `DialogueInv` | the safety properties of `AiCircuitProperties`, every property of `DialogueProperties` |

The arguments, where the invariant is not the property:

* **Tickets.** `TypeOK` is not inductive alone: the history row of a release records
  the status it leaves, which is one only if the row exists, and `RowsLegal` says so.
  `StepKinds` folds `Next` once and each invariant has one step per kind. `LatestAssignment`
  needs types only: whoever sets an advisor appends that advisor's open row.
  `TerminalFinal`, `ConditionalWrite`, `TimestampsAgree` and `Refinement` rest on
  `LockedSteps`: who writes checked the row it locked. With reopen they are false.
  `StaleReopenOnly` takes the one step left. `StaleSnapshotSplits` follows each operation
  that appends an assignment: the row it closes is the open one unless its snapshot lacks
  that row. `HistoryExplains` and `HistoryWithoutGap`
  are about the history as a whole: `HistorySteps` says which one or two rows a step
  appends, `ReplayAppend` what a row appended does to the replay, and the invariants
  tie what the rows replay to, and the statuses they leave, to the committed ticket.
* **SLA.** `Credits` says of the record, and of every snapshot of it, that the credit of
  both dates is one and is no more than the time that had passed, or had when the pause
  that goes on began. Resuming adds at most the time since then, and writes both dates
  together, so the bound survives any overlap, though the credit itself may be lost. The
  rest goes by a serial invariant: while nothing overlapped at most one request is in
  flight and its snapshot is the committed row.
* **Conversation.** The refinement rests on the unique key alone; the status plays no
  part, which is why it survives converted conversations that come back to life.
  `TurnsBounded`: the turns plus the requests that passed the check and have not added
  theirs stay below the limit plus the requests in flight.
* **Attachments.** `FileInv` says whose every file is. The count is bounded by
  |active| + |uploading| <= MaxFiles + |Requests| - 1, since an upload in flight found
  room in a snapshot that lacked only what others add. For the bytes, each upload in
  flight still has the room its snapshot left: the bytes of the active rows plus all
  that room stay within |Requests| quotas (`BytesBounded`). Both are counted as
  elements of finite sets (`Cells`), so that no arithmetic of sums is needed beyond
  `TotalIsBytes`, which shows the fold of the sizes to be the number of cells.
* **Knowledge base.** A snapshot is a past of the versions (`SnapshotPast`), so a save
  whose number is free was made from the latest one (`SaveIsCurrent`): the unique key
  alone makes unlocked editors implement the board.
* **Accounts.** For every set X of tokens, the live recovery tokens outside X and the
  requests whose snapshot lacks one of X are together at most |Requests| (`Slack`);
  X empty is `LiveTokenSlack`.
* **Limiter.** `LimiterInv` adds to the types that a login past the limit knows of no
  block still in force, from which `BlockIsHeld` follows step by step. The two bounds on
  attempts need a potential each.
  - *Attempts since the count was started.* A login that has read the row can take the
    count back to what it read; its `Level` is that count, and of every other login the
    present one. `SlackIsCovered` bounds what has been admitted by a sum over the levels
    of the count: each contributes as much as the logins above it (`Crowd`) allow in
    Pascal's triangle (`Gain`). A login that counts rises above one level more, and that
    pays for the attempt and for every login it leaves behind (`OneMoreCovers`). With all
    n logins above every level the sum is C(MaxAttempts + n - 1, n).
  - *Restarts in one window of time.* A login that arrived before the window began is
    `Old`, one that came since and holds a row from before it is `Stale`. As long as the
    row says when the window began or later only these can start the count again, a stale
    login once. An old one writes its own time and so sets the row back (`SetBack`); then
    every other login can start the count, once, before it has to read the row again.
    `Left` is what the old and the stale can still do; a restart takes one from it
    (`LeftUsed`), no other step adds to it (`LeftKept`), and where a window begins it is
    at most (n - 1)(n + 4) / 2 (`LeftAtFirst`, `MostAhead`).
  - `AdmittedSum` puts the two together.
* **Dialogue.** `DialogueInv` says of the state between two messages what the next one
  relies on: a saved draft is one that the code's own normalisation leaves as it is
  (`Settled`), the context is that of the latest reply, the clarifications asked for are
  counted. The branches of `send_message` are folded into what they say and what they
  leave (`MessageSteps`, with one lemma per branch); `OrdinalsInPlace` goes by induction
  over the menu, and the refinement of `DraftLifecycle` by the stage each branch leaves.
* **AI.** A cached answer rests on its key (`CacheRests`), and the key names article
  and version.

The library's induction theorems take a predicate and cannot be instantiated by the
provers at hand. `Induction` and `SubsetInduction` say the same of sets of numbers and
of sets of subsets, from the well-foundedness the library proves; with them the
folds, replays and factorials of the model are shown to exist and to be unique.

Only model-checked, because liveness is out of the provers' reach: `CircuitCloses` and
`EveryRequestEnds`. `OneOpenAssignment` is not provable, being false: see section 4.

## 6. Not modelled

* Audit log: rows appended in the transaction of what they audit (of the notifications
  the model keeps them); redaction is string processing.
* Reports: read-only aggregates and file rendering. HTTP layer, configuration and
  errors: no state. Seed, migrations and `init_db`: one-off scripts.
* Administration of the SLA policies, the name and phone of a profile, names and
  descriptions of categories, feedback on articles and answers (two first votes race as
  every look-up before an insert under a unique key, which `Notifications` models).
* Quotas that span conversations: they are counted in the snapshot too, so requests in
  flight together pass them.
* Row locks inside one transaction, and the deadlocks InnoDB resolves by rolling one
  request back: only their outcome, `Rollback`. Threads of the provider abandoned by
  a timeout, which accumulate.
* Text: patterns, scores, redaction, sanitising, hashing and token formats.
