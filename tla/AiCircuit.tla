----------------------------- MODULE AiCircuit -----------------------------
(***************************************************************************)
(* The answers a language model generates: the circuit breaker and the     *)
(* cache that the threads of one process share, and the requests of one    *)
(* conversation that ask the same question.                                *)
(*                                                                         *)
(* A request reads the articles and counts the generated answers in its    *)
(* snapshot, looks in the cache, then at the circuit, calls the provider,  *)
(* records how that went and keeps an answer it accepts; the message is    *)
(* committed at the end. Each look at the shared state is atomic, the      *)
(* sequence is not. Messages that a guardrail refuses touch nothing and    *)
(* are left out; an answer the provider did not give is the deterministic  *)
(* one, so such a request simply ends.                                     *)
(*                                                                         *)
(* Time is counted down: the seconds the circuit stays open and up: the    *)
(* age of a cached answer; nothing else depends on it.                     *)
(*                                                                         *)
(* Source: app/modules/chatbot/services/rag_service.py, guardrails.py,     *)
(* ai_provider.py and the AI part of ChatbotService.send_message.          *)
(***************************************************************************)
EXTENDS Integers, FiniteSets

CONSTANTS
  Requests,      \* requests that may be in flight at the same time
  Articles,      \* the articles that match the question
  MaxFailures,   \* chatbot_ai_max_consecutive_failures
  Cooldown,      \* chatbot_ai_cooldown_seconds
  Window,        \* chatbot_ai_idempotency_window_seconds
  MaxResponses,  \* chatbot_ai_max_responses_per_conversation
  PerMinute,     \* chatbot_ai_requests_per_minute
  MaxVersion     \* bound on the versions of an article

ASSUME CircuitAssumption ==
  /\ IsFiniteSet(Requests) /\ Requests # {}
  /\ MaxFailures \in Nat \ {0} /\ Cooldown \in Nat \ {0} /\ Window \in Nat
  /\ MaxResponses \in Nat /\ PerMinute \in Nat /\ MaxVersion \in Nat \ {0}

VARIABLES
  failures,  \* consecutive_failures; from MaxFailures on all values behave alike
  left,      \* seconds until circuit_open_until, 0 when it is NULL or past
  cache,     \* recent_results, from a key to an age and the sources of the answer
  article,   \* the committed articles
  answers,   \* the committed messages of the conversation with response_source AI
  req        \* the requests in flight

vars == <<failures, left, cache, article, answers, req>>

Chunk    == [source: Articles, version: 1 .. MaxVersion]
Contexts == SUBSET Chunk
Entry    == [age: 0 .. Window + 1, sources: Contexts]

Idle      == [phase |-> "idle"]
Asking    == [phase: {"asked", "missed", "calling"}, context: Contexts, seen: Nat]
Returning == [phase: {"returned"}, context: Contexts, sources: SUBSET Articles]
Answering == [phase: {"answering"}, context: Contexts, sources: Contexts]

NoCache == [key \in {} |-> 0]

Init ==
  /\ failures = 0 /\ left = 0 /\ cache = NoCache
  /\ article = [a \in Articles |-> [version |-> 1, usable |-> TRUE]]
  /\ answers = 0
  /\ req = [r \in Requests |-> Idle]

At(r, phase) == req[r].phase = phase
Goes(r, state) == req' = [req EXCEPT ![r] = state]
Advance(r, phase) == req' = [req EXCEPT ![r].phase = phase]

Older(age) == IF age > Window THEN age ELSE age + 1

Tick ==
  /\ left' = IF left > 0 THEN left - 1 ELSE 0
  /\ cache' = [key \in DOMAIN cache |-> [cache[key] EXCEPT !.age = Older(@)]]
  /\ UNCHANGED <<failures, article, answers, req>>

(***************************************************************************)
(* The knowledge base. Every write of an article raises its version; the   *)
(* dates of its publication make it usable or not without one.             *)
(***************************************************************************)
Edit(a) ==
  /\ article[a].version < MaxVersion
  /\ \E usable \in BOOLEAN :
       article' = [article EXCEPT ![a] = [version |-> @.version + 1, usable |-> usable]]
  /\ UNCHANGED <<failures, left, cache, answers, req>>

DatePasses(a) ==
  /\ article' = [article EXCEPT ![a].usable = ~@]
  /\ UNCHANGED <<failures, left, cache, answers, req>>

\* What build_context takes: published, within its dates, with a verified source.
BuildContext == {[source |-> a, version |-> article[a].version] :
                   a \in {b \in Articles : article[b].usable}}

(***************************************************************************)
(* A request.                                                              *)
(***************************************************************************)
\* The transaction that reads the articles and counts the answers so far.
Ask(r) ==
  /\ At(r, "idle")
  /\ Goes(r, [phase |-> "asked", context |-> BuildContext, seen |-> answers])
  /\ UNCHANGED <<failures, left, cache, article, answers>>

WithinConversation(r) == req[r].seen < MaxResponses

\* INSUFFICIENT_CONTEXT or CONVERSATION_LIMIT.
RefuseEarly(r) ==
  /\ At(r, "asked")
  /\ req[r].context = {} \/ ~WithinConversation(r)
  /\ Goes(r, Idle)
  /\ UNCHANGED <<failures, left, cache, article, answers>>

\* Mutant: the key names the articles without their versions.
VersionlessKey(context) == {[chunk EXCEPT !.version = 1] : chunk \in context}

\* The conversation and the message are the same for all requests here.
CacheKey(context) == context

MayAnswer(r) == At(r, "asked") /\ req[r].context # {} /\ WithinConversation(r)

Hit(key) == key \in DOMAIN cache /\ cache[key].age <= Window

ServeCached(r) ==
  LET key == CacheKey(req[r].context) IN
  /\ MayAnswer(r)
  /\ Hit(key)
  /\ Goes(r, [phase |-> "answering", context |-> req[r].context,
              sources |-> cache[key].sources])
  /\ UNCHANGED <<failures, left, cache, article, answers>>

\* An answer past the window is dropped.
Miss(r) ==
  LET key == CacheKey(req[r].context) IN
  /\ MayAnswer(r)
  /\ ~Hit(key)
  /\ cache' = [k \in DOMAIN cache \ {key} |-> cache[k]]
  /\ Advance(r, "missed")
  /\ UNCHANGED <<failures, left, article, answers>>

\* RATE_LIMIT: enough of the answers counted are from the last minute.
RefuseRate(r) ==
  /\ At(r, "missed")
  /\ \E recent \in 0 .. req[r].seen : recent >= PerMinute
  /\ Goes(r, Idle)
  /\ UNCHANGED <<failures, left, cache, article, answers>>

MayCall(r) == At(r, "missed") /\ \E recent \in 0 .. req[r].seen : recent < PerMinute

CircuitOpen == left > 0

\* Mutant: a refusal counts as one more failure.
RefuseAndCount(r) ==
  /\ MayCall(r)
  /\ CircuitOpen
  /\ left' = Cooldown
  /\ Goes(r, Idle)
  /\ UNCHANGED <<failures, cache, article, answers>>

RefuseOpen(r) ==
  /\ MayCall(r)
  /\ CircuitOpen
  /\ Goes(r, Idle)
  /\ UNCHANGED <<failures, left, cache, article, answers>>

CallProvider(r) ==
  /\ MayCall(r)
  /\ ~CircuitOpen
  /\ Advance(r, "calling")
  /\ UNCHANGED <<failures, left, cache, article, answers>>

Counted == IF failures < MaxFailures THEN failures + 1 ELSE failures

RecordFailure ==
  /\ failures' = Counted
  /\ left' = IF Counted >= MaxFailures THEN Cooldown ELSE left

RecordSuccess == failures' = 0 /\ left' = 0

\* ERROR: an exception, or an answer that is none.
ProviderFails(r) ==
  /\ At(r, "calling")
  /\ RecordFailure
  /\ Goes(r, Idle)
  /\ UNCHANGED <<cache, article, answers>>

\* Mutant: the caller waits for the provider as long as it takes.
WaitForever(r) == At(r, "calling") /\ UNCHANGED vars

\* TIMEOUT: the thread that still waits is abandoned and its answer dropped.
Timeout(r) ==
  /\ At(r, "calling")
  /\ RecordFailure
  /\ Goes(r, Idle)
  /\ UNCHANGED <<cache, article, answers>>

\* UNAVAILABLE, of the provider that generates nothing: neither way.
NoProvider(r) ==
  /\ At(r, "calling")
  /\ Goes(r, Idle)
  /\ UNCHANGED <<failures, left, cache, article, answers>>

\* GENERATED: a success, whatever the text is worth and the sources it names.
ProviderAnswers(r) ==
  /\ At(r, "calling")
  /\ RecordSuccess
  /\ \E sources \in SUBSET Articles :
       Goes(r, [phase |-> "returned", context |-> req[r].context, sources |-> sources])
  /\ UNCHANGED <<cache, article, answers>>

NamesItsSources(context, sources) ==
  /\ sources # {}
  /\ sources \subseteq {chunk.source : chunk \in context}

\* OUTPUT_SIZE, INVALID_SOURCES, UNSAFE_OUTPUT or OUT_OF_CONTEXT.
Reject(r) ==
  /\ At(r, "returned")
  /\ Goes(r, Idle)
  /\ UNCHANGED <<failures, left, cache, article, answers>>

Accept(r) ==
  LET context  == req[r].context
      selected == {chunk \in context : chunk.source \in req[r].sources}
      key      == CacheKey(context)
  IN
  /\ At(r, "returned")
  /\ NamesItsSources(context, req[r].sources)
  /\ cache' = [k \in DOMAIN cache \cup {key} |->
                 IF k = key THEN [age |-> 0, sources |-> selected] ELSE cache[k]]
  /\ Goes(r, [phase |-> "answering", context |-> context, sources |-> selected])
  /\ UNCHANGED <<failures, left, article, answers>>

\* The COMMIT of the message.
Answer(r) ==
  /\ At(r, "answering")
  /\ answers' = answers + 1
  /\ Goes(r, Idle)
  /\ UNCHANGED <<failures, left, cache, article>>

\* An error after the answer was found: what is cached and counted stays.
Rollback(r) ==
  /\ At(r, "answering")
  /\ Goes(r, Idle)
  /\ UNCHANGED <<failures, left, cache, article, answers>>

\* The process restarts with a new runtime state.
Restart ==
  /\ failures' = 0 /\ left' = 0 /\ cache' = NoCache
  /\ req' = [r \in Requests |-> Idle]
  /\ UNCHANGED <<article, answers>>

\* What the code does by itself once a request has begun.
Proceed(r) ==
  \/ RefuseEarly(r) \/ ServeCached(r) \/ Miss(r)
  \/ RefuseRate(r) \/ RefuseOpen(r) \/ CallProvider(r)
  \/ Timeout(r) \/ Reject(r) \/ Accept(r) \/ Answer(r)

Next ==
  \/ Tick \/ Restart
  \/ \E a \in Articles : Edit(a) \/ DatePasses(a)
  \/ \E r \in Requests :
       \/ Ask(r) \/ Proceed(r)
       \/ ProviderFails(r) \/ NoProvider(r) \/ ProviderAnswers(r) \/ Rollback(r)

Spec == Init /\ [][Next]_vars

(***************************************************************************)
(* Time passes, and a request that has begun is not left standing: its     *)
(* thread runs, and future.result waits no longer than its timeout.        *)
(* Nothing is assumed of the provider.                                     *)
(***************************************************************************)
Fairness == WF_vars(Tick) /\ \A r \in Requests : WF_vars(Proceed(r))

FairSpec == Spec /\ Fairness

=============================================================================
