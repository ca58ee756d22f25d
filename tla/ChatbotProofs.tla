---------------------------- MODULE ChatbotProofs ----------------------------
(***************************************************************************)
(* Theorems about AiCircuit, for any requests, articles and limits, and    *)
(* about Dialogue, for any messages, categories, articles and limits.      *)
(*                                                                         *)
(* The first part is about the generated answers, the second about the     *)
(* conversation that asks for them and its ticket draft.                   *)
(***************************************************************************)
EXTENDS AiCircuitProperties, DialogueProperties, FiniteSetTheorems, NaturalsInduction,
        WellFoundedInduction, TLAPS

(***************************************************************************)
(* What each step does to the request it is about: every state it may go   *)
(* to is one of these.                                                     *)
(***************************************************************************)
States == {Idle} \cup Asking \cup Returning \cup Answering

LEMMA GoesType ==
  ASSUME req \in [Requests -> States], NEW r \in Requests, NEW state \in States, Goes(r, state)
  PROVE  /\ req' \in [Requests -> States]
         /\ req'[r] = state
         /\ \A q \in Requests : q # r => req'[q] = req[q]
BY DEF Goes

LEMMA AdvanceGoes ==
  ASSUME req \in [Requests -> States], NEW r \in Requests, NEW phase \in {"missed", "calling"},
         req[r] \in Asking, Advance(r, phase)
  PROVE  /\ [req[r] EXCEPT !.phase = phase] \in Asking
         /\ Goes(r, [req[r] EXCEPT !.phase = phase])
BY DEF Advance, Goes, Asking

\* The phase of a request tells what it holds.
LEMMA PhaseType ==
  ASSUME TypeOK, NEW r \in Requests
  PROVE  /\ req[r].phase \in {"asked", "missed", "calling"} => req[r] \in Asking
         /\ At(r, "returned") => req[r] \in Returning
         /\ At(r, "answering") => req[r] \in Answering
BY DEF TypeOK, At, Idle, Asking, Returning, Answering

LEMMA CountedType ==
  ASSUME failures \in 0 .. MaxFailures, left \in 0 .. Cooldown
  PROVE  /\ RecordFailure => failures' \in 0 .. MaxFailures /\ left' \in 0 .. Cooldown
         /\ RecordSuccess => failures' \in 0 .. MaxFailures /\ left' \in 0 .. Cooldown
BY CircuitAssumption DEF RecordFailure, RecordSuccess, Counted

LEMMA ContextType ==
  ASSUME TypeOK
  PROVE  BuildContext \in Contexts
BY DEF BuildContext, Contexts, Chunk, TypeOK

\* The steps that only move a request, and those that also write the cache.
LEMMA TypeStep ==
  ASSUME TypeOK, [Next]_vars
  PROVE  TypeOK'
<1> USE DEF States
<1>1. CASE UNCHANGED vars BY <1>1 DEF vars, TypeOK
<1>2. CASE Tick
  <2>1. \A key \in DOMAIN cache : cache'[key] \in Entry
    BY <1>2, CircuitAssumption DEF Tick, TypeOK, Entry, Older
  <2>2. DOMAIN cache' = DOMAIN cache BY <1>2 DEF Tick
  <2>3. left' \in 0 .. Cooldown BY <1>2, CircuitAssumption DEF Tick, TypeOK
  <2> QED BY <1>2, <2>1, <2>2, <2>3 DEF Tick, TypeOK
<1>3. CASE Restart
  BY <1>3, CircuitAssumption DEF Restart, TypeOK, NoCache
<1>4. ASSUME NEW a \in Articles, Edit(a) \/ DatePasses(a)
      PROVE  TypeOK'
  <2>1. article' \in [Articles -> [version: 1 .. MaxVersion, usable: BOOLEAN]]
    <3>1. CASE Edit(a) BY <3>1, CircuitAssumption DEF Edit, TypeOK
    <3>2. CASE DatePasses(a) BY <3>2, CircuitAssumption DEF DatePasses, TypeOK
    <3> QED BY <1>4, <3>1, <3>2
  <2> QED BY <1>4, <2>1 DEF Edit, DatePasses, TypeOK
<1>5. ASSUME NEW r \in Requests, Ask(r) PROVE TypeOK'
  <2>1. [phase |-> "asked", context |-> BuildContext, seen |-> answers] \in Asking
    BY ContextType DEF Asking, TypeOK
  <2> QED BY <1>5, <2>1, GoesType DEF Ask, TypeOK
<1>6. ASSUME NEW r \in Requests,
             \/ RefuseEarly(r) \/ RefuseRate(r) \/ RefuseOpen(r) \/ NoProvider(r)
             \/ Reject(r) \/ Rollback(r)
      PROVE  TypeOK'
  <2>1. Goes(r, Idle) /\ UNCHANGED <<failures, left, cache, article, answers>>
    BY <1>6 DEF RefuseEarly, RefuseRate, RefuseOpen, NoProvider, Reject, Rollback
  <2> QED BY <2>1, GoesType DEF TypeOK
<1>7. ASSUME NEW r \in Requests, ServeCached(r) PROVE TypeOK'
  <2>1. cache[req[r].context].sources \in Contexts
    BY <1>7 DEF ServeCached, Hit, CacheKey, TypeOK, Entry
  <2>2. req[r].context \in Contexts
    BY <1>7, PhaseType DEF ServeCached, MayAnswer, At, Asking
  <2>3. [phase |-> "answering", context |-> req[r].context,
         sources |-> cache[req[r].context].sources] \in Answering
    BY <2>1, <2>2 DEF Answering
  <2> QED BY <1>7, <2>3, GoesType DEF ServeCached, CacheKey, TypeOK
<1>8. ASSUME NEW r \in Requests, Miss(r) PROVE TypeOK'
  <2>1. req[r] \in Asking BY <1>8, PhaseType DEF Miss, MayAnswer, At
  <2>2. req' \in [Requests -> States] BY <1>8, <2>1, AdvanceGoes, GoesType DEF Miss, TypeOK
  <2>3. DOMAIN cache' \subseteq Contexts /\ \A key \in DOMAIN cache' : cache'[key] \in Entry
    BY <1>8 DEF Miss, TypeOK
  <2> QED BY <1>8, <2>2, <2>3 DEF Miss, TypeOK
<1>9. ASSUME NEW r \in Requests, CallProvider(r) PROVE TypeOK'
  <2>1. req[r] \in Asking BY <1>9, PhaseType DEF CallProvider, MayCall, At
  <2>2. req' \in [Requests -> States]
    BY <1>9, <2>1, AdvanceGoes, GoesType DEF CallProvider, TypeOK
  <2> QED BY <1>9, <2>2 DEF CallProvider, TypeOK
<1>10. ASSUME NEW r \in Requests, ProviderFails(r) \/ Timeout(r) PROVE TypeOK'
  BY <1>10, CountedType, GoesType DEF ProviderFails, Timeout, TypeOK
<1>11. ASSUME NEW r \in Requests, ProviderAnswers(r) PROVE TypeOK'
  <2>1. PICK sources \in SUBSET Articles :
          Goes(r, [phase |-> "returned", context |-> req[r].context, sources |-> sources])
    BY <1>11 DEF ProviderAnswers
  <2>2. [phase |-> "returned", context |-> req[r].context, sources |-> sources] \in Returning
    BY <1>11, PhaseType DEF ProviderAnswers, At, Asking, Returning
  <2> QED BY <1>11, <2>1, <2>2, CountedType, GoesType DEF ProviderAnswers, TypeOK
<1>12. ASSUME NEW r \in Requests, Accept(r) PROVE TypeOK'
  <2> DEFINE context  == req[r].context
             selected == {chunk \in context : chunk.source \in req[r].sources}
             entry    == [age |-> 0, sources |-> selected]
  <2>1. context \in Contexts BY <1>12, PhaseType DEF Accept, Returning
  <2>2. selected \in Contexts BY <2>1 DEF Contexts
  <2>3. entry \in Entry BY <2>2, CircuitAssumption DEF Entry
  <2>4. [phase |-> "answering", context |-> context, sources |-> selected] \in Answering
    BY <2>1, <2>2 DEF Answering
  <2>5. req' \in [Requests -> States] BY <1>12, <2>4, GoesType DEF Accept, TypeOK
  <2>6. cache' = [k \in DOMAIN cache \cup {context} |-> IF k = context THEN entry ELSE cache[k]]
    BY <1>12 DEF Accept, CacheKey
  <2> HIDE DEF context, entry
  <2>7. DOMAIN cache' \subseteq Contexts /\ \A key \in DOMAIN cache' : cache'[key] \in Entry
    BY <2>1, <2>3, <2>6 DEF TypeOK
  <2> QED BY <1>12, <2>5, <2>7 DEF Accept, TypeOK
<1>13. ASSUME NEW r \in Requests, Answer(r) PROVE TypeOK'
  BY <1>13, GoesType DEF Answer, TypeOK
<1> QED BY <1>1, <1>2, <1>3, <1>4, <1>5, <1>6, <1>7, <1>8, <1>9, <1>10, <1>11, <1>12, <1>13
       DEF Next, Proceed

LEMMA TypeInit == Init => TypeOK
BY CircuitAssumption DEF Init, TypeOK, NoCache

\* Every variable keeps its type, for any requests, articles and limits.
THEOREM TypeCorrect == Spec => []TypeOK
BY TypeInit, TypeStep, PTL DEF Spec

(***************************************************************************)
(* The circuit: whatever order successes and failures arrive in, a success *)
(* closes it and only the last failure opens it.                           *)
(***************************************************************************)
\* The circuit never opens before MaxFailures calls in a row failed.
THEOREM OpenEarned == Spec => []OpenIsEarned
<1>1. Init => OpenIsEarned BY DEF Init, OpenIsEarned, CircuitOpen
<1>2. ASSUME TypeOK, OpenIsEarned, [Next]_vars PROVE OpenIsEarned'
  <2>1. CASE UNCHANGED <<failures, left>> BY <1>2, <2>1 DEF OpenIsEarned, CircuitOpen
  <2>2. CASE Tick BY <1>2, <2>2 DEF Tick, OpenIsEarned, CircuitOpen, TypeOK
  <2>3. CASE failures' = 0 /\ left' = 0 BY <2>3 DEF OpenIsEarned, CircuitOpen
  <2>4. CASE RecordFailure
    BY <1>2, <2>4, CircuitAssumption
       DEF RecordFailure, Counted, OpenIsEarned, CircuitOpen, TypeOK
  <2>5. \/ UNCHANGED <<failures, left>>
        \/ Tick
        \/ failures' = 0 /\ left' = 0
        \/ RecordFailure
    BY <1>2 DEF Next, vars, Restart, Edit, DatePasses, Ask, Proceed, RefuseEarly, ServeCached,
         Miss, RefuseRate, RefuseOpen, CallProvider, Timeout, Reject, Accept, Answer,
         ProviderFails, NoProvider, ProviderAnswers, RecordSuccess, Rollback
  <2> QED BY <2>1, <2>2, <2>3, <2>4, <2>5
<1> QED BY <1>1, <1>2, TypeCorrect, PTL DEF Spec

(***************************************************************************)
(* The cache: an entry rests on part of the context that is its key.       *)
(***************************************************************************)
RestsOn(sources, context) == sources # {} /\ sources \subseteq context

CacheRests == \A key \in DOMAIN cache : RestsOn(cache[key].sources, key)

\* An answer from the cache or from the provider rests on what its own request read.
THEOREM OwnContext == Spec => []AnswersFromOwnContext
<1> DEFINE Inv == CacheRests /\ AnswersFromOwnContext
<1>1. Init => Inv
  BY DEF Init, CacheRests, NoCache, AnswersFromOwnContext, At, Idle
<1>2. ASSUME TypeOK, Inv, [Next]_vars PROVE Inv'
  <2>1. ASSUME NEW r \in Requests, NEW state \in States, Goes(r, state),
               state.phase = "answering" => RestsOn(state.sources, state.context)
        PROVE  AnswersFromOwnContext'
    BY <1>2, <2>1, GoesType DEF AnswersFromOwnContext, At, RestsOn, TypeOK, States
  <2>2. ASSUME NEW r \in Requests, Goes(r, Idle) PROVE AnswersFromOwnContext'
    BY <2>1, <2>2 DEF Idle, States
  <2>3. CASE UNCHANGED <<cache, req>>
    BY <1>2, <2>3 DEF CacheRests, AnswersFromOwnContext, At
  <2>4. CASE Tick
    BY <1>2, <2>4 DEF Tick, CacheRests, AnswersFromOwnContext, At, TypeOK, Entry
  <2>5. CASE Restart
    BY <2>5 DEF Restart, NoCache, CacheRests, AnswersFromOwnContext, At, Idle
  <2>6. ASSUME NEW r \in Requests, UNCHANGED cache,
               \/ Goes(r, Idle)
               \/ Ask(r) \/ CallProvider(r) \/ ProviderAnswers(r)
        PROVE  Inv'
    <3>1. CacheRests' BY <1>2, <2>6 DEF CacheRests
    <3>2. CASE Goes(r, Idle) BY <2>2, <3>1, <3>2
    <3>3. CASE Ask(r)
      <4>1. [phase |-> "asked", context |-> BuildContext, seen |-> answers] \in States
        BY <1>2, ContextType DEF Asking, TypeOK, States
      <4> QED BY <2>1, <3>1, <3>3, <4>1 DEF Ask
    <3>4. CASE CallProvider(r)
      <4>1. req[r] \in Asking BY <1>2, <3>4, PhaseType DEF CallProvider, MayCall, At
      <4>2. /\ [req[r] EXCEPT !.phase = "calling"] \in States
            /\ [req[r] EXCEPT !.phase = "calling"].phase = "calling"
            /\ Goes(r, [req[r] EXCEPT !.phase = "calling"])
        BY <1>2, <3>4, <4>1, AdvanceGoes DEF CallProvider, TypeOK, States, Asking
      <4> QED BY <2>1, <3>1, <4>2
    <3>5. CASE ProviderAnswers(r)
      <4>1. PICK sources \in SUBSET Articles :
              Goes(r, [phase |-> "returned", context |-> req[r].context, sources |-> sources])
        BY <3>5 DEF ProviderAnswers
      <4>2. [phase |-> "returned", context |-> req[r].context, sources |-> sources] \in States
        BY <1>2, <3>5, PhaseType DEF ProviderAnswers, At, Asking, Returning, States
      <4> QED BY <2>1, <3>1, <4>1, <4>2
    <3> QED BY <2>6, <3>2, <3>3, <3>4, <3>5
  <2>7. ASSUME NEW r \in Requests, ServeCached(r) PROVE Inv'
    <3> DEFINE state == [phase |-> "answering", context |-> req[r].context,
                         sources |-> cache[req[r].context].sources]
    <3>1. RestsOn(state.sources, state.context)
      BY <1>2, <2>7 DEF ServeCached, CacheKey, Hit, CacheRests
    <3>2. state \in States
      BY <1>2, <2>7, PhaseType
         DEF ServeCached, MayAnswer, CacheKey, Hit, TypeOK, Entry, At, Asking, Answering, States
    <3>3. Goes(r, state) /\ UNCHANGED cache BY <2>7 DEF ServeCached, CacheKey
    <3> HIDE DEF state
    <3> QED BY <1>2, <2>1, <3>1, <3>2, <3>3 DEF CacheRests
  <2>8. ASSUME NEW r \in Requests, Miss(r) PROVE Inv'
    <3>1. req[r] \in Asking BY <1>2, <2>8, PhaseType DEF Miss, MayAnswer, At
    <3>2. /\ [req[r] EXCEPT !.phase = "missed"] \in States
          /\ [req[r] EXCEPT !.phase = "missed"].phase = "missed"
          /\ Goes(r, [req[r] EXCEPT !.phase = "missed"])
      BY <1>2, <2>8, <3>1, AdvanceGoes DEF Miss, TypeOK, States, Asking
    <3>3. CacheRests' BY <1>2, <2>8 DEF Miss, CacheRests
    <3> QED BY <2>1, <3>2, <3>3
  <2>9. ASSUME NEW r \in Requests, Accept(r) PROVE Inv'
    <3> DEFINE context  == req[r].context
               selected == {chunk \in context : chunk.source \in req[r].sources}
               entry    == [age |-> 0, sources |-> selected]
               state    == [phase |-> "answering", context |-> context, sources |-> selected]
    <3>1. RestsOn(selected, context) BY <2>9 DEF Accept, NamesItsSources, RestsOn
    <3>2. context \in Contexts BY <1>2, <2>9, PhaseType DEF Accept, Returning
    <3>3. state \in States BY <3>2 DEF Contexts, Answering, States
    <3>4. AnswersFromOwnContext' BY <2>1, <2>9, <3>1, <3>3 DEF Accept
    <3>5. cache' = [k \in DOMAIN cache \cup {context} |->
                      IF k = context THEN entry ELSE cache[k]]
      BY <2>9 DEF Accept, CacheKey
    <3>6. entry.sources = selected OBVIOUS
    <3> HIDE DEF context, entry, selected
    <3>7. CacheRests' BY <1>2, <3>1, <3>5, <3>6 DEF CacheRests
    <3> QED BY <3>4, <3>7
  <2>10. ASSUME NEW r \in Requests,
                \/ RefuseEarly(r) \/ RefuseRate(r) \/ RefuseOpen(r) \/ NoProvider(r)
                \/ Reject(r) \/ Rollback(r) \/ ProviderFails(r) \/ Timeout(r) \/ Answer(r)
         PROVE  Inv'
    <3>1. Goes(r, Idle) /\ UNCHANGED cache
      BY <2>10 DEF RefuseEarly, RefuseRate, RefuseOpen, NoProvider, Reject, Rollback,
           ProviderFails, Timeout, Answer
    <3> QED BY <2>6, <3>1
  <2>11. ASSUME NEW r \in Requests, Ask(r) \/ CallProvider(r) \/ ProviderAnswers(r)
         PROVE  Inv'
    <3>1. UNCHANGED cache BY <2>11 DEF Ask, CallProvider, ProviderAnswers
    <3> QED BY <2>6, <2>11, <3>1
  <2>12. ASSUME NEW a \in Articles, Edit(a) \/ DatePasses(a) PROVE Inv'
    BY <2>3, <2>12 DEF Edit, DatePasses
  <2> QED BY <1>2, <2>3, <2>4, <2>5, <2>7, <2>8, <2>9, <2>10, <2>11, <2>12
         DEF Next, Proceed, vars
<1> QED BY <1>1, <1>2, TypeCorrect, PTL DEF Spec

(***************************************************************************)
(* The limit of the conversation. A request that may still add an answer   *)
(* saw fewer than the limit; it and the answers committed stay below the   *)
(* limit plus the other requests.                                          *)
(***************************************************************************)
Pending ==
  {r \in Requests : \/ At(r, "asked") /\ WithinConversation(r)
                    \/ req[r].phase \in {"missed", "calling", "returned", "answering"}}

Bounded == answers + Cardinality(Pending) <= MaxResponses + Cardinality(Requests) - 1

LEMMA PendingFinite ==
  /\ IsFiniteSet(Pending) /\ Cardinality(Pending) \in Nat
  /\ Cardinality(Pending) <= Cardinality(Requests)
  /\ Cardinality(Requests) \in Nat /\ Cardinality(Requests) >= 1
<1>1. IsFiniteSet(Requests) /\ Requests # {} BY CircuitAssumption
<1>2. Pending \subseteq Requests BY DEF Pending
<1>3. IsFiniteSet(Pending) /\ Cardinality(Pending) <= Cardinality(Requests)
  BY <1>1, <1>2, FS_Subset
<1>4. Cardinality(Requests) \in Nat /\ Cardinality(Pending) \in Nat
  BY <1>1, <1>3, FS_CardinalityType
<1>5. Cardinality(Requests) # 0 BY <1>1, FS_EmptySet
<1> QED BY <1>3, <1>4, <1>5

\* A request that ends or goes on adds nobody to Pending.
LEMMA PendingShrinks ==
  ASSUME TypeOK, Bounded, Pending' \subseteq Pending, answers' = answers
  PROVE  Bounded'
<1>1. IsFiniteSet(Pending) /\ Cardinality(Pending) \in Nat /\ Cardinality(Requests) \in Nat
  BY PendingFinite
<1>2. IsFiniteSet(Pending') /\ Cardinality(Pending') <= Cardinality(Pending)
  BY <1>1, FS_Subset
<1>3. Cardinality(Pending') \in Nat BY <1>2, FS_CardinalityType
<1> QED BY <1>1, <1>2, <1>3, CircuitAssumption DEF Bounded, TypeOK

LEMMA StateKeeps ==
  ASSUME TypeOK, NEW r \in Requests, NEW state \in States, Goes(r, state),
         \/ state.phase = "idle"
         \/ r \in Pending /\ state.phase # "asked"
  PROVE  Pending' \subseteq Pending
BY GoesType DEF Pending, At, WithinConversation, TypeOK, States

LEMMA BoundedStep ==
  ASSUME TypeOK, Bounded, [Next]_vars
  PROVE  Bounded'
<1>1. Idle \in States /\ Idle.phase = "idle" BY DEF Idle, States
<1>2. CASE UNCHANGED <<answers, req>>
  <2>1. Pending' \subseteq Pending BY <1>2 DEF Pending, At, WithinConversation
  <2> QED BY <1>2, <2>1, PendingShrinks
<1>3. CASE Restart
  <2>1. Pending' \subseteq Pending BY <1>3 DEF Restart, Pending, At, Idle
  <2> QED BY <1>3, <2>1, PendingShrinks DEF Restart
<1>4. ASSUME NEW r \in Requests, Goes(r, Idle), answers' = answers PROVE Bounded'
  BY <1>1, <1>4, StateKeeps, PendingShrinks
<1>5. ASSUME NEW r \in Requests, NEW state \in States, r \in Pending,
             state.phase # "asked", Goes(r, state), answers' = answers
      PROVE  Bounded'
  BY <1>5, StateKeeps, PendingShrinks
<1>6. ASSUME NEW r \in Requests, Ask(r) PROVE Bounded'
  <2> DEFINE state == [phase |-> "asked", context |-> BuildContext, seen |-> answers]
  <2>1. state \in Asking BY ContextType DEF Asking, TypeOK
  <2>2. req'[r] = state /\ \A q \in Requests : q # r => req'[q] = req[q]
    BY <1>6, <2>1, GoesType DEF Ask, TypeOK, States
  <2>3. answers' = answers BY <1>6 DEF Ask
  <2>4. CASE answers < MaxResponses
    <3>1. Cardinality(Pending') \in Nat /\ Cardinality(Pending') <= Cardinality(Requests)
          /\ Cardinality(Requests) \in Nat
      <4>1. IsFiniteSet(Requests) /\ Pending' \subseteq Requests
        BY CircuitAssumption DEF Pending
      <4>2. IsFiniteSet(Pending') /\ Cardinality(Pending') <= Cardinality(Requests)
        BY <4>1, FS_Subset
      <4> QED BY <4>1, <4>2, FS_CardinalityType
    <3> QED BY <2>3, <2>4, <3>1, CircuitAssumption DEF Bounded, TypeOK
  <2>5. CASE ~(answers < MaxResponses)
    <3>1. Pending' \subseteq Pending
      BY <2>2, <2>5 DEF Pending, At, WithinConversation
    <3> QED BY <2>3, <3>1, PendingShrinks
  <2> QED BY <2>4, <2>5
<1>7. ASSUME NEW r \in Requests, Miss(r) \/ CallProvider(r) PROVE Bounded'
  <2>1. PICK phase \in {"missed", "calling"} : Advance(r, phase)
    BY <1>7 DEF Miss, CallProvider
  <2>2. req[r] \in Asking
    BY <1>7, PhaseType DEF Miss, MayAnswer, CallProvider, MayCall, At
  <2>3. r \in Pending BY <1>7 DEF Miss, MayAnswer, CallProvider, MayCall, Pending, At
  <2>4. /\ [req[r] EXCEPT !.phase = phase] \in States
        /\ [req[r] EXCEPT !.phase = phase].phase # "asked"
        /\ Goes(r, [req[r] EXCEPT !.phase = phase])
    BY <2>1, <2>2, AdvanceGoes DEF TypeOK, States, Asking
  <2> QED BY <1>5, <1>7, <2>3, <2>4 DEF Miss, CallProvider
<1>8. ASSUME NEW r \in Requests, ServeCached(r) PROVE Bounded'
  <2> DEFINE state == [phase |-> "answering", context |-> req[r].context,
                       sources |-> cache[req[r].context].sources]
  <2>1. state \in States
    BY <1>8, PhaseType
       DEF ServeCached, MayAnswer, CacheKey, Hit, TypeOK, Entry, At, Asking, Answering, States
  <2>2. r \in Pending BY <1>8 DEF ServeCached, MayAnswer, Pending
  <2>3. Goes(r, state) /\ answers' = answers BY <1>8 DEF ServeCached, CacheKey
  <2>4. state.phase # "asked" OBVIOUS
  <2> HIDE DEF state
  <2> QED BY <1>5, <2>1, <2>2, <2>3, <2>4
<1>9. ASSUME NEW r \in Requests, ProviderAnswers(r) PROVE Bounded'
  <2>1. PICK sources \in SUBSET Articles :
          Goes(r, [phase |-> "returned", context |-> req[r].context, sources |-> sources])
    BY <1>9 DEF ProviderAnswers
  <2>2. [phase |-> "returned", context |-> req[r].context, sources |-> sources] \in States
    BY <1>9, PhaseType DEF ProviderAnswers, At, Asking, Returning, States
  <2>3. r \in Pending BY <1>9 DEF ProviderAnswers, Pending, At
  <2> QED BY <1>5, <1>9, <2>1, <2>2, <2>3 DEF ProviderAnswers
<1>10. ASSUME NEW r \in Requests, Accept(r) PROVE Bounded'
  <2> DEFINE context == req[r].context
             state   == [phase |-> "answering", context |-> context,
                         sources |-> {chunk \in context : chunk.source \in req[r].sources}]
  <2>1. context \in Contexts BY <1>10, PhaseType DEF Accept, Returning
  <2>2. state \in States BY <2>1 DEF Contexts, Answering, States
  <2>3. r \in Pending BY <1>10 DEF Accept, Pending, At
  <2>4. Goes(r, state) /\ answers' = answers BY <1>10 DEF Accept
  <2>5. state.phase # "asked" OBVIOUS
  <2> HIDE DEF state
  <2> QED BY <1>5, <2>2, <2>3, <2>4, <2>5
<1>11. ASSUME NEW r \in Requests, Answer(r) PROVE Bounded'
  <2>1. Goes(r, Idle) /\ answers' = answers + 1 /\ r \in Pending
    BY <1>11 DEF Answer, Pending, At
  <2>2. Pending' \subseteq Pending \ {r}
    BY <1>1, <2>1, GoesType DEF Pending, At, WithinConversation, TypeOK, States, Idle
  <2>3. IsFiniteSet(Pending) /\ Cardinality(Pending) \in Nat /\ Cardinality(Requests) \in Nat
    BY PendingFinite
  <2>4. IsFiniteSet(Pending \ {r}) /\ Cardinality(Pending \ {r}) = Cardinality(Pending) - 1
    BY <2>1, <2>3, FS_RemoveElement
  <2>5. IsFiniteSet(Pending') /\ Cardinality(Pending') <= Cardinality(Pending \ {r})
    BY <2>2, <2>4, FS_Subset
  <2>6. Cardinality(Pending') \in Nat BY <2>5, FS_CardinalityType
  <2> QED BY <2>1, <2>3, <2>4, <2>5, <2>6, CircuitAssumption DEF Bounded, TypeOK
<1>12. ASSUME NEW r \in Requests,
              \/ RefuseEarly(r) \/ RefuseRate(r) \/ RefuseOpen(r) \/ NoProvider(r)
              \/ Reject(r) \/ Rollback(r) \/ ProviderFails(r) \/ Timeout(r)
       PROVE  Bounded'
  <2>1. Goes(r, Idle) /\ answers' = answers
    BY <1>12 DEF RefuseEarly, RefuseRate, RefuseOpen, NoProvider, Reject, Rollback,
         ProviderFails, Timeout
  <2> QED BY <1>4, <2>1
<1>13. ASSUME NEW a \in Articles, Edit(a) \/ DatePasses(a) PROVE Bounded'
  BY <1>2, <1>13 DEF Edit, DatePasses
<1>14. CASE Tick BY <1>2, <1>14 DEF Tick
<1> QED BY <1>2, <1>3, <1>6, <1>7, <1>8, <1>9, <1>10, <1>11, <1>12, <1>13, <1>14
       DEF Next, Proceed, vars

\* Requests that counted the same answers pass the limit of the conversation by no
\* more than their number less one.
THEOREM AnswersBounded == Spec => []AnswerSlack
<1>1. Init => Bounded
  <2>1. Init => Pending = {} BY DEF Init, Pending, At, Idle
  <2>2. Cardinality({}) = 0 BY FS_EmptySet
  <2>3. Cardinality(Requests) \in Nat /\ Cardinality(Requests) # 0
    BY FS_EmptySet, FS_CardinalityType, CircuitAssumption
  <2>4. Init => answers + Cardinality(Pending) = 0 BY <2>1, <2>2 DEF Init
  <2> QED BY <2>3, <2>4, CircuitAssumption DEF Bounded
<1>2. TypeOK /\ Bounded => AnswerSlack
  BY PendingFinite, CircuitAssumption DEF Bounded, AnswerSlack, TypeOK
<1> QED BY <1>1, <1>2, BoundedStep, TypeCorrect, PTL DEF Spec

(***************************************************************************)
(* The draft: what one message makes of it.                                *)
(***************************************************************************)
\* What every step of filling in keeps: the fields complained about are missing.
Sound(d) == d \in Draft /\ d.errors \subseteq Missing(d)

\* A draft that a conversation may hold between two messages.
Settled(d) ==
  /\ Sound(d)
  /\ d.status = "COLLECTING" => Missing(d) # {}
  /\ d.status = "READY_FOR_CONFIRMATION" => Missing(d) = {}

LEMMA DraftFields ==
  ASSUME NEW d \in Draft
  PROVE  /\ d.status \in DraftStatuses
         /\ d.category \in Categories \cup {NULL}
         /\ d.given \in SUBSET (Fields \ {"category"})
         /\ d.errors \in SUBSET Fields
BY DEF Draft

LEMMA EmptyIsSettled ==
  /\ \A status \in DraftStatuses : Empty(status) \in Draft
  /\ Settled(Inactive) /\ Settled(Cancelled) /\ Sound(NewDraft)
<1>1. \A status \in DraftStatuses :
        /\ Empty(status) \in Draft /\ Empty(status).errors = {}
        /\ Empty(status).status = status
  BY DEF Empty, Draft, Fields
<1>2. NewDraft \in Draft /\ NewDraft.errors = {}
  BY <1>1 DEF NewDraft, Draft, DraftStatuses, Fields, Texts
<1> QED
  BY <1>1, <1>2 DEF Settled, Sound, Inactive, Cancelled, DraftStatuses

LEMMA CategorySound ==
  ASSUME NEW d, Sound(d), NEW m \in Message, NEW offered \in SUBSET Categories
  PROVE  Sound(TakeCategory(d, m, offered))
<1> DEFINE found == CategoriesFound(m, offered)
<1>1. CASE found = {} /\ "category" \notin m.labelled
  BY <1>1 DEF TakeCategory
<1>2. ASSUME NEW c \in found, found = {c}
      PROVE  Sound([d EXCEPT !.category = CHOOSE x \in found : TRUE,
                             !.errors = @ \ {"category"}])
  <2>1. c \in Categories
    BY <1>2 DEF CategoriesFound
  <2>2. c # NULL
    BY <2>1, DraftAssumption
  <2>3. (CHOOSE x \in found : TRUE) = c
    <3> HIDE DEF found
    <3> QED
      BY <1>2
  <2> DEFINE e == [d EXCEPT !.category = c, !.errors = @ \ {"category"}]
  <2>4. /\ e \in Draft /\ e.category = c /\ e.given = d.given
        /\ e.errors = d.errors \ {"category"}
    BY <2>1 DEF Sound, Draft
  <2>5. e.errors \subseteq Missing(e)
    BY <2>2, <2>4 DEF Sound, Missing
  <2> QED
    BY <2>3, <2>4, <2>5 DEF Sound
<1>3. Sound([d EXCEPT !.category = NULL, !.errors = @ \cup {"category"}])
  <2> DEFINE e == [d EXCEPT !.category = NULL, !.errors = @ \cup {"category"}]
  <2>1. /\ e \in Draft /\ e.category = NULL /\ e.given = d.given
        /\ e.errors = d.errors \cup {"category"}
    BY DEF Sound, Draft, Fields
  <2>2. e.errors \subseteq Missing(e)
    BY <2>1 DEF Sound, Missing, Fields
  <2> QED
    BY <2>1, <2>2 DEF Sound
<1> QED
  BY <1>1, <1>2, <1>3 DEF TakeCategory

LEMMA FieldSound ==
  ASSUME NEW d, Sound(d), NEW field \in Fields \ {"category"}, NEW fits
  PROVE  Sound(TakeField(d, field, fits))
<1>1. CASE fits
  <2> DEFINE e == [d EXCEPT !.given = @ \cup {field}, !.errors = @ \ {field}]
  <2>1. /\ e \in Draft /\ e.category = d.category /\ e.given = d.given \cup {field}
        /\ e.errors = d.errors \ {field}
    BY DEF Sound, Draft
  <2>2. e.errors \subseteq Missing(e)
    BY <2>1 DEF Sound, Missing
  <2> QED
    BY <1>1, <2>1, <2>2 DEF Sound, TakeField
<1>2. CASE ~fits
  <2> DEFINE e == [d EXCEPT !.given = @ \ {field}, !.errors = @ \cup {field}]
  <2>1. /\ e \in Draft /\ e.category = d.category /\ e.given = d.given \ {field}
        /\ e.errors = d.errors \cup {field}
    BY DEF Sound, Draft
  <2>2. e.errors \subseteq Missing(e)
    BY <2>1 DEF Sound, Missing
  <2> QED
    BY <1>2, <2>1, <2>2 DEF Sound, TakeField
<1> QED
  BY <1>1, <1>2

LEMMA TextSound ==
  ASSUME NEW d, Sound(d), NEW m \in Message, NEW offered, NEW start
  PROVE  Sound(TakeText(d, m, offered, start))
<1> DEFINE next == NextMissing(d)
<1>1. ASSUME next \in {"category", "priority"}
      PROVE  Sound([d EXCEPT !.errors = @ \cup {next}])
  <2> DEFINE e == [d EXCEPT !.errors = @ \cup {next}]
  <2>1. next \in Missing(d)
    BY <1>1, DraftAssumption DEF NextMissing, Missing, Fields, Texts
  <2>2. /\ e \in Draft /\ e.category = d.category /\ e.given = d.given
        /\ e.errors = d.errors \cup {next}
    <3> HIDE DEF next
    <3> QED
      BY <1>1 DEF Sound, Draft, Fields
  <2>3. e.errors \subseteq Missing(e)
    <3> HIDE DEF next
    <3> QED
      BY <2>1, <2>2 DEF Sound, Missing
  <2> QED
    BY <2>2, <2>3 DEF Sound
<1>2. \A field \in Texts : \A fits : Sound(TakeField(d, field, fits))
  BY FieldSound DEF Fields, Texts
<1> HIDE DEF next
<1> QED
  BY <1>1, <1>2 DEF TakeText, next, Texts

LEMMA RefreshSettles ==
  ASSUME NEW d, Sound(d), NEW offered
  PROVE  /\ Settled(Refresh(d, offered))
         /\ InProgress(Refresh(d, offered))
<1> DEFINE lost == d.category # NULL /\ d.category \notin offered
           checked == [d EXCEPT !.category = IF lost THEN NULL ELSE @,
                                !.errors   = IF lost THEN @ \cup {"category"} ELSE @]
           status == IF Missing(checked) = {} /\ checked.errors = {}
                     THEN "READY_FOR_CONFIRMATION" ELSE "COLLECTING"
           e == [checked EXCEPT !.status = status]
<1>1. checked \in Draft /\ checked.errors \subseteq Missing(checked)
  <2>1. CASE lost
    <3>1. /\ checked \in Draft /\ checked.category = NULL /\ checked.given = d.given
          /\ checked.errors = d.errors \cup {"category"}
      BY <2>1 DEF Sound, Draft, Fields
    <3> QED
      BY <3>1 DEF Sound, Missing, Fields
  <2>2. CASE ~lost
    <3>1. checked = d
      BY <2>2 DEF Sound, Draft
    <3> QED
      BY <3>1 DEF Sound
  <2> QED
    BY <2>1, <2>2
<1> HIDE DEF checked
<1>2. /\ e \in Draft /\ e.status = status /\ e.category = checked.category
      /\ e.given = checked.given /\ e.errors = checked.errors
  BY <1>1 DEF Draft, DraftStatuses
<1>3. Missing(e) = Missing(checked)
  BY <1>2 DEF Missing
<1>4. Refresh(d, offered) = e
  BY DEF Refresh, checked
<1> HIDE DEF e
<1> QED
  BY <1>1, <1>2, <1>3, <1>4 DEF Settled, Sound, InProgress

LEMMA ReadSettled ==
  ASSUME NEW saved, saved = NULL \/ Settled(saved), NEW offered
  PROVE  /\ Settled(Read(saved, offered))
         /\ saved # NULL /\ InProgress(saved) <=> InProgress(Read(saved, offered))
<1>1. ~InProgress(Inactive)
  BY DEF Inactive, Empty, InProgress
<1> QED
  BY <1>1, EmptyIsSettled, RefreshSettles DEF Read, Settled

LEMMA FillSettles ==
  ASSUME NEW d, Sound(d), NEW m \in Message, NEW offered \in SUBSET Categories, NEW start
  PROVE  Settled(Fill(d, m, offered, start)) /\ InProgress(Fill(d, m, offered, start))
<1> DEFINE categorised == TakeCategory(d, m, offered)
           prioritised == TakePriority(categorised, m)
           titled      == TakeLabel(prioritised, m, "subject")
           described   == TakeLabel(titled, m, "description")
<1>1. Sound(categorised)
  BY CategorySound
<1>2. Sound(prioritised)
  <2> HIDE DEF categorised
  <2> QED
    BY <1>1, FieldSound DEF TakePriority, Fields
<1>3. Sound(titled)
  <2> HIDE DEF prioritised
  <2> QED
    BY <1>2, FieldSound DEF TakeLabel, Fields, Texts
<1>4. Sound(described)
  <2> HIDE DEF titled
  <2> QED
    BY <1>3, FieldSound DEF TakeLabel, Fields, Texts
<1>5. Sound(TakeText(described, m, offered, start))
  <2> HIDE DEF described
  <2> QED
    BY <1>4, TextSound
<1> QED
  BY <1>5, RefreshSettles DEF Fill

\* A message for a draft leaves it as it was, cancelled, or in progress with what it
\* lacks on record; and only one in progress is cancelled.
LEMMA HandleSettles ==
  ASSUME NEW saved, saved = NULL \/ Settled(saved), NEW m \in Message,
         NEW offered \in SUBSET Categories, NEW start
  PROVE  \/ /\ Handle(m, saved, offered, start) = Cancelled
            /\ saved # NULL /\ InProgress(saved)
         \/ /\ Settled(Handle(m, saved, offered, start))
            /\ InProgress(Handle(m, saved, offered, start))
         \/ /\ Handle(m, saved, offered, start) = IF saved = NULL THEN Inactive ELSE saved
            /\ saved # NULL => ~InProgress(saved)
<1> DEFINE existing == Read(saved, offered)
           after == Handle(m, saved, offered, start)
<1>1. Settled(existing) /\ (saved # NULL /\ InProgress(saved) <=> InProgress(existing))
  BY ReadSettled
<1>2. ~InProgress(existing) => existing = IF saved = NULL THEN Inactive ELSE saved
  BY RefreshSettles DEF Read, Settled
<1>3. Settled(Fill(NewDraft, m, offered, start)) /\ InProgress(Fill(NewDraft, m, offered, start))
  BY FillSettles, EmptyIsSettled
<1>4. /\ Settled(Fill(existing, m, offered, start))
      /\ InProgress(Fill(existing, m, offered, start))
  BY <1>1, FillSettles DEF Settled
<1>5. after = CASE InProgress(existing) /\ "cancel" \in m.kinds -> Cancelled
                [] InProgress(existing) /\ m.kinds \cap {"resume", "confirm"} # {}
                                        /\ "cancel" \notin m.kinds -> existing
                [] InProgress(existing) /\ m.kinds \cap {"cancel", "resume", "confirm"} = {} ->
                     Fill(existing, m, offered, start)
                [] ~InProgress(existing) /\ (start \/ m.labelled # {}) ->
                     Fill(NewDraft, m, offered, start)
                [] OTHER -> existing
  BY DEF Handle
<1> HIDE DEF existing, after
<1>6. CASE InProgress(existing)
  <2>1. \/ "cancel" \in m.kinds
        \/ m.kinds \cap {"resume", "confirm"} # {} /\ "cancel" \notin m.kinds
        \/ m.kinds \cap {"cancel", "resume", "confirm"} = {}
    OBVIOUS
  <2>2. after = Cancelled \/ after = existing \/ after = Fill(existing, m, offered, start)
    BY <1>5, <1>6, <2>1
  <2> QED
    BY <1>1, <1>4, <1>6, <2>2 DEF after
<1>7. CASE ~InProgress(existing)
  <2>1. after = existing \/ after = Fill(NewDraft, m, offered, start)
    BY <1>5, <1>7
  <2> QED
    BY <1>1, <1>2, <1>3, <1>7, <2>1 DEF after
<1> QED
  BY <1>6, <1>7

\* A draft that is not finished misses what the bot asks for.
LEMMA SettledIsNeverStuck ==
  ASSUME NEW d, Settled(d)
  PROVE  /\ d.errors \subseteq Missing(d)
         /\ d.status = "COLLECTING" => AskedFor(d) \in Missing(d)
         /\ d.status = "READY_FOR_CONFIRMATION" => Missing(d) = {}
<1>1. Missing(d) \subseteq Fields /\ Missing(d) # {} => FirstIn(Missing(d)) \in Missing(d)
  BY DEF FirstIn, Missing, Fields, Texts
<1>2. d.status = "COLLECTING" => AskedFor(d) \in Missing(d)
  BY <1>1 DEF AskedFor, Settled, Sound, Missing
<1> QED
  BY <1>2 DEF Settled, Sound

(***************************************************************************)
(* The menu: which of the options shown are still good.                    *)
(***************************************************************************)
Before == {pair \in Nat \X Nat : pair[1] < pair[2]}

\* A set of numbers with 0 and the successor of each of its members is Nat.
LEMMA Induction ==
  ASSUME NEW T \in SUBSET Nat, 0 \in T, \A n \in T : n + 1 \in T
  PROVE  T = Nat
<1> SUFFICES ASSUME Nat \ T # {} PROVE FALSE
  OBVIOUS
<1>1. IsWellFoundedOn(Before, Nat)
  BY NatLessThanWellFounded, Zenon DEF OpToRel, Before
<1>2. \E n \in Nat \ T : \A m \in Nat \ T : ~(<<m, n>> \in Before)
  BY <1>1, WFMin, Zenon
<1>3. PICK n \in Nat \ T : \A m \in Nat \ T : ~(<<m, n>> \in Before)
  BY <1>2
<1>4. n - 1 \in Nat /\ <<n - 1, n>> \in Before
  BY DEF Before
<1>5. (n - 1) + 1 \in T
  BY <1>3, <1>4
<1> QED
  BY <1>5

\* f[i] are the options among the first i that are good, for i up to n.
Step(f, menu, good, i) ==
  IF i = 0 THEN <<>>
  ELSE IF menu[i] \in good THEN Append(f[i - 1], menu[i]) ELSE f[i - 1]

Keeps(f, menu, good, n) == f = [i \in 0 .. n |-> Step(f, menu, good, i)]

LEMMA SomethingKeeps ==
  ASSUME NEW menu, NEW good, NEW n \in Nat
  PROVE  \E f : Keeps(f, menu, good, n)
<1> DEFINE T == {k \in Nat : \E f : Keeps(f, menu, good, k)}
<1>1. 0 \in T
  <2> DEFINE f == [i \in 0 .. 0 |-> <<>>]
  <2>1. \A i \in 0 .. 0 : Step(f, menu, good, i) = <<>>
    BY DEF Step
  <2>2. Keeps(f, menu, good, 0)
    BY <2>1 DEF Keeps
  <2> QED
    BY <2>2
<1>2. ASSUME NEW k \in T PROVE k + 1 \in T
  <2>1. PICK f : Keeps(f, menu, good, k)
    OBVIOUS
  <2> DEFINE next == Step(f, menu, good, k + 1)
             g == [i \in 0 .. (k + 1) |-> IF i = k + 1 THEN next ELSE f[i]]
  <2>2. \A i \in 0 .. k : g[i] = f[i] /\ f[i] = Step(f, menu, good, i)
    BY <2>1 DEF Keeps
  <2>3. ASSUME NEW i \in 0 .. (k + 1) PROVE g[i] = Step(g, menu, good, i)
    <3>1. Step(g, menu, good, i) = Step(f, menu, good, i)
      <4>1. i = 0 \/ (i - 1 \in 0 .. k /\ g[i - 1] = f[i - 1])
        BY <2>2
      <4> HIDE DEF g
      <4> QED
        BY <4>1 DEF Step
    <3>2. CASE i = k + 1
      BY <3>1, <3>2
    <3>3. CASE i \in 0 .. k
      BY <2>2, <3>1, <3>3
    <3> QED
      BY <3>2, <3>3
  <2>4. Keeps(g, menu, good, k + 1)
    <3>1. g = [i \in 0 .. (k + 1) |-> g[i]]
      OBVIOUS
    <3> HIDE DEF g
    <3> QED
      BY <2>3, <3>1 DEF Keeps
  <2> QED
    BY <2>4
<1>3. T = Nat
  <2> HIDE DEF T
  <2>1. T \in SUBSET Nat
    BY DEF T
  <2> QED
    BY <1>1, <1>2, <2>1, Induction
<1> QED
  BY <1>3

\* The options there are no more than those shown, and as long as none of the first
\* k was withdrawn they are in their places.
LEMMA KeptInPlace ==
  ASSUME NEW f, NEW menu, NEW good, NEW n \in Nat, Keeps(f, menu, good, n),
         \A i \in 1 .. n : menu[i] \in Library
  PROVE  \A i \in 0 .. n :
           /\ f[i] \in Seq(Library) /\ Len(f[i]) <= i
           /\ \A k \in 1 .. i : (\A j \in 1 .. k : menu[j] \in good) =>
                k <= Len(f[i]) /\ f[i][k] = menu[k]
<1> DEFINE InPlace(i) ==
             /\ f[i] \in Seq(Library) /\ Len(f[i]) <= i
             /\ \A k \in 1 .. i : (\A j \in 1 .. k : menu[j] \in good) =>
                  k <= Len(f[i]) /\ f[i][k] = menu[k]
           T == {i \in Nat : i <= n => InPlace(i)}
<1>1. 0 \in T
  <2>1. f[0] = <<>>
    BY DEF Keeps, Step
  <2>2. <<>> \in Seq(Library) /\ Len(<<>>) <= 0 /\ 1 .. 0 = {}
    OBVIOUS
  <2> QED
    BY <2>1, <2>2
<1>2. ASSUME NEW i \in T PROVE i + 1 \in T
  <2> SUFFICES ASSUME i + 1 <= n PROVE InPlace(i + 1)
    OBVIOUS
  <2> DEFINE was == f[i]
             is  == f[i + 1]
  <2>1. /\ was \in Seq(Library) /\ Len(was) <= i
        /\ \A k \in 1 .. i : (\A j \in 1 .. k : menu[j] \in good) =>
             k <= Len(was) /\ was[k] = menu[k]
    OBVIOUS
  <2>2. is = IF menu[i + 1] \in good THEN Append(was, menu[i + 1]) ELSE was
    <3>1. i + 1 \in 0 .. n /\ i + 1 # 0 /\ (i + 1) - 1 = i
      OBVIOUS
    <3> QED
      BY <3>1 DEF Keeps, Step
  <2>3. i \in Nat /\ menu[i + 1] \in Library
    OBVIOUS
  <2> HIDE DEF was, is
  <2>4. CASE menu[i + 1] \in good
    <3>1. /\ is \in Seq(Library) /\ Len(is) = Len(was) + 1
          /\ is[Len(was) + 1] = menu[i + 1]
          /\ \A k \in 1 .. Len(was) : is[k] = was[k]
      BY <2>1, <2>2, <2>3, <2>4
    <3>2. ASSUME NEW k \in 1 .. (i + 1), \A j \in 1 .. k : menu[j] \in good
          PROVE  k <= Len(is) /\ is[k] = menu[k]
      <4>1. CASE k \in 1 .. i
        BY <2>1, <2>3, <3>1, <3>2, <4>1
      <4>2. CASE k = i + 1
        <5>1. Len(was) = i
          <6>1. CASE i = 0
            BY <2>1, <6>1
          <6>2. CASE i # 0
            <7>1. i \in 1 .. i /\ \A j \in 1 .. i : menu[j] \in good
              BY <2>3, <3>2, <4>2, <6>2
            <7> QED
              BY <2>1, <2>3, <7>1
          <6> QED
            BY <6>1, <6>2
        <5> QED
          BY <3>1, <4>2, <5>1
      <4> QED
        BY <2>3, <4>1, <4>2
    <3> QED
      BY <2>1, <2>3, <3>1, <3>2 DEF is
  <2>5. CASE menu[i + 1] \notin good
    <3>1. is = was
      BY <2>2, <2>5
    <3>2. ASSUME NEW k \in 1 .. (i + 1), \A j \in 1 .. k : menu[j] \in good
          PROVE  k <= Len(is) /\ is[k] = menu[k]
      <4>1. k # i + 1
        BY <2>3, <2>5, <3>2
      <4> QED
        BY <2>1, <2>3, <3>1, <3>2, <4>1
    <3> QED
      BY <2>1, <2>3, <3>1, <3>2 DEF is
  <2> QED
    BY <2>4, <2>5
<1>3. T = Nat
  <2> HIDE DEF T
  <2>1. T \in SUBSET Nat
    BY DEF T
  <2> QED
    BY <1>1, <1>2, <2>1, Induction
<1> QED
  BY <1>3

LEMMA MenuType ==
  ASSUME NEW menu \in Menus
  PROVE  /\ menu \in Seq(Library)
         /\ Len(menu) \in 0 .. MaxOptions
         /\ DOMAIN menu = 1 .. Len(menu)
         /\ \A i \in 1 .. Len(menu) : menu[i] \in Library
BY DialogueAssumption DEF Menus

\* What a client can pick from: an option in the place where it was shown, unless one
\* shown before it was withdrawn.
LEMMA CandidatesInPlace ==
  ASSUME conv.menu \in Menus
  PROVE  /\ Candidates \in Seq(Library)
         /\ Len(Candidates) <= Len(conv.menu)
         /\ \A k \in 1 .. Len(conv.menu) :
              \/ Candidates[k] = conv.menu[k]
              \/ \E i \in 1 .. k : conv.menu[i] \notin usable
<1> DEFINE n == Len(conv.menu)
<1>1. n \in Nat /\ \A i \in 1 .. n : conv.menu[i] \in Library
  BY MenuType, DialogueAssumption
<1>2. Keeps(Kept(conv.menu), conv.menu, usable, n)
  <2>1. Kept(conv.menu) = CHOOSE f : Keeps(f, conv.menu, usable, n)
    BY DEF Kept, Keeps, Step
  <2> QED
    BY <1>1, <2>1, SomethingKeeps
<1> HIDE DEF n
<1>3. \A i \in 0 .. n :
        /\ Kept(conv.menu)[i] \in Seq(Library) /\ Len(Kept(conv.menu)[i]) <= i
        /\ \A k \in 1 .. i : (\A j \in 1 .. k : conv.menu[j] \in usable) =>
             k <= Len(Kept(conv.menu)[i]) /\ Kept(conv.menu)[i][k] = conv.menu[k]
  BY <1>1, <1>2, KeptInPlace
<1>4. Candidates = Kept(conv.menu)[n] /\ n \in 0 .. n
  BY <1>1 DEF Candidates, n
<1> QED
  BY <1>3, <1>4 DEF n

(***************************************************************************)
(* What a message leaves behind, unless it is for the draft: a result and  *)
(* a reply that fit each other.                                            *)
(***************************************************************************)
Result == [clarifies: BOOLEAN, counts: BOOLEAN, resolved: BOOLEAN, escalates: BOOLEAN,
           menu: Menus, query: BOOLEAN]

\* The option picked is the one shown in its place, unless one before it is gone.
PickedInPlace(reply) ==
  \/ reply.answered = conv.menu[reply.picked]
  \/ \E i \in 1 .. reply.picked : conv.menu[i] \notin usable

Fits(result, reply) ==
  /\ result.clarifies /\ result.menu # <<>> => result.menu = reply.options
  /\ result.query => reply.code
  /\ \/ reply.asked = 0
     \/ reply.asked = last.asked /\ ~result.resolved
     \/ reply.asked = last.asked + 1 /\ result.clarifies /\ result.counts /\ MayClarify
  /\ reply.picked # 0 => reply.asked = 0 /\ PickedInPlace(reply)

LEMMA EmptyMenu == <<>> \in Menus
<1>1. <<>> \in [1 .. 0 -> Library] /\ 0 \in 0 .. MaxOptions /\ DOMAIN <<>> = {}
  BY DialogueAssumption
<1> QED
  BY <1>1 DEF Menus

LEMMA ReplyTypes ==
  /\ NoReply \in Reply /\ NoReply.picked = 0 /\ NoReply.asked = 0
  /\ Spoken \in Reply /\ Spoken.picked = 0 /\ Spoken.asked = 0 /\ Spoken.options = <<>>
<1>1. /\ NoReply \in Reply /\ NoReply.picked = 0 /\ NoReply.asked = 0
      /\ NoReply.options = <<>>
  BY EmptyMenu, DialogueAssumption DEF NoReply, Reply
<1> QED
  BY <1>1 DEF Spoken, Reply

LEMMA ResultTypes ==
  /\ Plain \in Result /\ ~Plain.clarifies /\ ~Plain.resolved /\ ~Plain.query
  /\ Resolved \in Result /\ ~Resolved.clarifies /\ ~Resolved.query
  /\ \A menu \in Menus :
       /\ Clarifies(menu) \in Result /\ Clarifies(menu).clarifies /\ Clarifies(menu).counts
       /\ Clarifies(menu).menu = menu /\ ~Clarifies(menu).resolved /\ ~Clarifies(menu).query
<1>1. Plain \in Result /\ Plain.clarifies = FALSE /\ Plain.resolved = FALSE
        /\ Plain.query = FALSE /\ Plain.counts = TRUE
  BY EmptyMenu DEF Plain, Result
<1>2. Resolved \in Result /\ Resolved.clarifies = FALSE /\ Resolved.query = FALSE
  BY <1>1 DEF Resolved, Result
<1>3. ASSUME NEW menu \in Menus
      PROVE  /\ Clarifies(menu) \in Result /\ Clarifies(menu).clarifies
             /\ Clarifies(menu).counts /\ Clarifies(menu).menu = menu
             /\ ~Clarifies(menu).resolved /\ ~Clarifies(menu).query
  BY <1>1 DEF Clarifies, Result
<1> QED
  BY <1>1, <1>2, <1>3

\* What Settle does to the conversation.
LEMMA SettleEffect ==
  ASSUME conv \in Conversation, conv.turns < MaxTurns, NEW result \in Result, Settle(result)
  PROVE  /\ conv' \in Conversation
         /\ conv'.draft = conv.draft /\ conv'.linked = conv.linked
         /\ conv'.status # "CONVERTED_TO_TICKET"
         /\ conv'.menu = IF result.clarifies THEN result.menu ELSE <<>>
         /\ conv'.query = result.query
         /\ conv'.attempts = Attempts(result)
<1>1. Attempts(result) \in Nat
  BY DEF Attempts, Conversation, Result
<1>2. /\ MenuAfter(result) \in Menus
      /\ MenuAfter(result) = IF result.clarifies THEN result.menu ELSE <<>>
  BY EmptyMenu DEF MenuAfter, Result
<1>3. StatusAfter(result) \in Statuses /\ StatusAfter(result) # "CONVERTED_TO_TICKET"
  BY DEF StatusAfter, Statuses
<1>4. conv.turns + 1 \in 0 .. MaxTurns
  BY DialogueAssumption DEF Conversation
<1>5. conv' = [conv EXCEPT !.turns = @ + 1, !.attempts = Attempts(result),
                           !.menu = MenuAfter(result), !.query = result.query,
                           !.status = StatusAfter(result)]
  BY DEF Settle
<1>6. /\ conv'.draft = conv.draft /\ conv'.linked = conv.linked
      /\ conv'.status = StatusAfter(result) /\ conv'.menu = MenuAfter(result)
      /\ conv'.query = result.query /\ conv'.attempts = Attempts(result)
      /\ conv' \in Conversation
  BY <1>1, <1>2, <1>3, <1>4, <1>5 DEF Conversation, Result
<1> QED
  BY <1>2, <1>3, <1>6

LEMMA SaidEffect ==
  ASSUME NEW options \in Menus, NEW asked \in Nat, Said(options, asked)
  PROVE  /\ last' \in Reply /\ last'.options = options /\ last'.asked = asked
         /\ last'.picked = 0
BY ReplyTypes DEF Said, Reply

\* The message was answered outside the draft.
Answers == \E result \in Result : /\ Settle(result)
                                  /\ last' \in Reply
                                  /\ Fits(result, last')

LEMMA Saying ==
  ASSUME last \in Reply, NEW result \in Result, NEW options \in Menus, NEW asked \in Nat,
         Settle(result), Said(options, asked),
         result.clarifies => result.menu \in {<<>>, options},
         ~result.query,
         \/ asked = 0
         \/ asked = last.asked /\ ~result.resolved
         \/ asked = last.asked + 1 /\ result.clarifies /\ result.counts /\ MayClarify
  PROVE  Answers
<1>1. /\ last' \in Reply /\ last'.options = options /\ last'.asked = asked
      /\ last'.picked = 0
  BY SaidEffect
<1> QED
  BY <1>1 DEF Answers, Fits

LEMMA PlainSteps ==
  ASSUME last \in Reply, NEW m \in Message, NEW logged \in BOOLEAN,
         \/ RefuseQuery(logged) \/ AnswerQuery(m, logged) \/ AskWhichAction
         \/ EscalateToAdvisor \/ AskWhatIsPending \/ Greet \/ OfferTicket
         \/ AnswerGenerated
  PROVE  Answers
<1>1. last.asked \in Nat
  BY DEF Reply
<1>2. [Plain EXCEPT !.escalates = TRUE] \in Result
        /\ ~[Plain EXCEPT !.escalates = TRUE].clarifies
        /\ ~[Plain EXCEPT !.escalates = TRUE].resolved
        /\ ~[Plain EXCEPT !.escalates = TRUE].query
  BY ResultTypes DEF Result
<1>3. CASE RefuseQuery(logged) \/ OfferTicket
  BY <1>1, <1>3, Saying, ResultTypes, EmptyMenu DEF RefuseQuery, OfferTicket
<1>4. CASE AnswerQuery(m, logged) \/ Greet \/ AnswerGenerated
  BY <1>4, Saying, ResultTypes, EmptyMenu DEF AnswerQuery, Greet, AnswerGenerated
<1>5. CASE AskWhichAction \/ AskWhatIsPending
  BY <1>1, <1>5, Saying, ResultTypes, EmptyMenu DEF AskWhichAction, AskWhatIsPending
<1>6. CASE EscalateToAdvisor
  BY <1>1, <1>2, <1>6, Saying, EmptyMenu DEF EscalateToAdvisor
<1> QED
  BY <1>3, <1>4, <1>5, <1>6

LEMMA AskForCodeAnswers ==
  ASSUME last \in Reply, NEW m \in Message, NEW logged \in BOOLEAN, AskForCode(m, logged)
  PROVE  Answers
<1> DEFINE partial == m.about = "partial"
           result == [Clarifies(<<>>) EXCEPT !.query = partial]
           reply == [Spoken EXCEPT !.code = partial, !.asked = last.asked]
<1>1. Settle(result) /\ last' = reply /\ last.asked \in Nat
  BY DEF AskForCode, Reply
<1>2. /\ Clarifies(<<>>) \in Result /\ Clarifies(<<>>).menu = <<>>
      /\ ~Clarifies(<<>>).resolved
  BY ResultTypes, EmptyMenu
<1>3. result \in Result /\ result.query = partial /\ result.menu = <<>> /\ ~result.resolved
  BY <1>2 DEF Result
<1>4. reply \in Reply /\ reply.code = partial /\ reply.asked = last.asked /\ reply.picked = 0
  BY <1>1, ReplyTypes DEF Reply
<1> HIDE DEF result, reply
<1> QED
  BY <1>1, <1>3, <1>4 DEF Answers, Fits

LEMMA LoginAnswers ==
  ASSUME last \in Reply, AskToLogIn
  PROVE  Answers
<1> DEFINE reply == [Spoken EXCEPT !.login = TRUE, !.asked = last.asked]
<1>1. Settle(Plain) /\ last' = reply /\ last.asked \in Nat
  BY DEF AskToLogIn, Reply
<1>2. reply \in Reply /\ reply.asked = last.asked /\ reply.picked = 0
  BY <1>1, ReplyTypes DEF Reply
<1> HIDE DEF reply
<1> QED
  BY <1>1, <1>2, ResultTypes DEF Answers, Fits

LEMMA MenuAnswers ==
  ASSUME last \in Reply, ShowMenu
  PROVE  Answers
<1>1. PICK menu \in Menus : /\ Settle([Clarifies(menu) EXCEPT !.counts = FALSE])
                            /\ Said(menu, last.asked)
  BY DEF ShowMenu
<1> DEFINE result == [Clarifies(menu) EXCEPT !.counts = FALSE]
<1>2. /\ Clarifies(menu) \in Result /\ Clarifies(menu).menu = menu
      /\ ~Clarifies(menu).resolved /\ ~Clarifies(menu).query
  BY ResultTypes
<1>3. result \in Result /\ result.menu = menu /\ ~result.resolved /\ ~result.query
  BY <1>2 DEF Result
<1>4. last.asked \in Nat
  BY DEF Reply
<1> HIDE DEF result
<1> QED
  BY <1>1, <1>3, <1>4, Saying DEF result

LEMMA SearchStepAnswers ==
  ASSUME last \in Reply, Clarify \/ AnswerBest, usable \subseteq Library
  PROVE  Answers
<1>1. last.asked \in Nat
  BY DEF Reply
<1>2. CASE Clarify
  BY <1>1, <1>2, Saying, ResultTypes DEF Clarify
<1>3. CASE AnswerBest
  <2>1. PICK best \in usable : Settle(Resolved) /\ last' = [Spoken EXCEPT !.answered = best]
    BY <1>3 DEF AnswerBest
  <2>2. last' \in Reply /\ last'.asked = 0 /\ last'.picked = 0
    BY <2>1, ReplyTypes DEF Reply
  <2> QED
    BY <2>1, <2>2, ResultTypes DEF Answers, Fits
<1> QED
  BY <1>2, <1>3

LEMMA SelectionAnswers ==
  ASSUME last \in Reply, conv \in Conversation, NEW m \in Message, AnswerSelection(m)
  PROVE  Answers
<1> DEFINE picked == IF PicksOrdinal(m) THEN m.pick ELSE 0
           answered == Selection(m)
           reply == [Spoken EXCEPT !.answered = answered, !.picked = picked]
<1>1. Settle(Resolved) /\ last' = reply /\ answered = Selected(m)
  BY DEF AnswerSelection, Selection
<1>2. conv.menu \in Menus
  BY DEF Conversation
<1>3. /\ Candidates \in Seq(Library) /\ Len(Candidates) <= Len(conv.menu)
      /\ \A k \in 1 .. Len(conv.menu) : \/ Candidates[k] = conv.menu[k]
                                        \/ \E i \in 1 .. k : conv.menu[i] \notin usable
  BY <1>2, CandidatesInPlace
<1>4. m.pick \in 0 .. MaxOptions /\ m.title \in Library \cup {NULL}
  BY DEF Message
<1>5. Len(conv.menu) \in Nat /\ Len(Candidates) \in Nat
  BY <1>2, <1>3, MenuType, DialogueAssumption
<1>6. CASE PicksOrdinal(m)
  <2>1. /\ m.pick \in 1 .. Len(Candidates) /\ m.pick \in 1 .. Len(conv.menu)
        /\ answered = Candidates[m.pick] /\ picked = m.pick
    BY <1>1, <1>3, <1>5, <1>6 DEF PicksOrdinal, Selected
  <2>2. answered \in Library
    BY <1>3, <2>1
  <2>3. answered = conv.menu[picked] \/ \E i \in 1 .. picked : conv.menu[i] \notin usable
    BY <1>3, <2>1
  <2> HIDE DEF answered, picked
  <2>4. reply \in Reply /\ reply.asked = 0 /\ reply.answered = answered /\ reply.picked = picked
    BY <1>4, <2>1, <2>2, ReplyTypes DEF Reply
  <2> HIDE DEF reply
  <2> QED
    BY <1>1, <2>3, <2>4, ResultTypes DEF Answers, Fits, PickedInPlace
<1>7. CASE ~PicksOrdinal(m)
  <2>1. answered \in Library \cup {NULL} /\ picked = 0
    BY <1>1, <1>4, <1>7 DEF Selected
  <2> HIDE DEF answered, picked
  <2>2. reply \in Reply /\ reply.asked = 0 /\ reply.picked = 0
    BY <2>1, ReplyTypes, DialogueAssumption DEF Reply
  <2> HIDE DEF reply
  <2> QED
    BY <1>1, <2>2, ResultTypes DEF Answers, Fits
<1> QED
  BY <1>6, <1>7

\* The branches of a message that has been posted: the draft, an exception, or an
\* answer of one of the others.
LEMMA MessageSteps ==
  ASSUME conv \in Conversation, last \in Reply, usable \subseteq Library,
         NEW m \in Message, NEW logged \in BOOLEAN, SendMessage(m, logged)
  PROVE  /\ MayPost(logged)
         /\ \/ Answers
            \/ DevelopDraft(m, logged)
            \/ \E branch : Unavailable(branch, logged)
<1>1. MayPost(logged)
  BY DEF SendMessage
<1>2. \/ RefuseQuery(logged) \/ AnswerQuery(m, logged) \/ AskWhichAction
      \/ EscalateToAdvisor \/ AskWhatIsPending \/ Greet
      \/ AskForCode(m, logged) \/ AskToLogIn \/ ShowMenu \/ SearchAnswers(m)
      \/ DevelopDraft(m, logged)
      \/ \E branch : Unavailable(branch, logged)
  BY DEF SendMessage
<1>3. ASSUME SearchAnswers(m) PROVE Answers
  <2>1. AnswerSelection(m) \/ Clarify \/ AnswerBest \/ AnswerGenerated \/ OfferTicket
    BY <1>3 DEF SearchAnswers
  <2> QED
    <3>1. CASE AnswerSelection(m)
      BY <3>1, SelectionAnswers
    <3>2. CASE Clarify \/ AnswerBest
      BY <3>2, SearchStepAnswers
    <3>3. CASE AnswerGenerated \/ OfferTicket
      BY <3>3, PlainSteps
    <3> QED
      BY <2>1, <3>1, <3>2, <3>3
<1> QED
  BY <1>1, <1>2, <1>3, PlainSteps, AskForCodeAnswers, LoginAnswers, MenuAnswers

(***************************************************************************)
(* The invariant.                                                          *)
(***************************************************************************)
\* A saved draft is one that Read and Handle can go on with.
SavedDraft == conv.draft # NULL => Settled(conv.draft) /\ conv.draft.status # "INACTIVE"

\* Of the clarifications that the counter has seen, the search asked for at most all.
AskedIsCounted == last.asked <= conv.attempts /\ last.asked <= MaxClarifications

\* What an option answered is not a clarification.
PickedIsAnswered == last.picked # 0 => last.asked = 0

DialogueInv ==
  /\ DialogueTypeOK
  /\ SavedDraft
  /\ ContextIsTheLatest
  /\ AskedIsCounted
  /\ PickedIsAnswered

LEMMA DialogueStart == DialogueInit => DialogueInv
<1> SUFFICES ASSUME DialogueInit PROVE DialogueInv
  OBVIOUS
<1>1. PICK linked \in BOOLEAN :
        conv = [status |-> "ACTIVE", linked |-> linked, turns |-> 0, attempts |-> 0,
                draft |-> NULL, menu |-> <<>>, query |-> FALSE]
  BY DEF DialogueInit
<1>2. conv \in Conversation
  BY <1>1, EmptyMenu, DialogueAssumption DEF Conversation, Statuses
<1> QED
  BY <1>1, <1>2, ReplyTypes, DialogueAssumption
     DEF DialogueInit, DialogueInv, DialogueTypeOK, SavedDraft, ContextIsTheLatest,
         AskedIsCounted, PickedIsAnswered

\* A step that answers outside the draft.
LEMMA AnswersKeep ==
  ASSUME DialogueInv, NEW logged, MayPost(logged), Answers
  PROVE  DialogueInv'
<1>1. PICK result \in Result : Settle(result) /\ last' \in Reply /\ Fits(result, last')
  BY DEF Answers
<1>2. conv \in Conversation /\ conv.turns < MaxTurns
  BY DEF DialogueInv, DialogueTypeOK, MayPost
<1>3. /\ conv' \in Conversation /\ conv'.draft = conv.draft
      /\ conv'.menu = IF result.clarifies THEN result.menu ELSE <<>>
      /\ conv'.query = result.query
      /\ conv'.attempts = Attempts(result)
  BY <1>1, <1>2, SettleEffect
<1>4. DialogueTypeOK'
  BY <1>1, <1>3 DEF DialogueInv, DialogueTypeOK, Settle
<1>5. SavedDraft'
  BY <1>3 DEF DialogueInv, SavedDraft
<1>6. ContextIsTheLatest'
  BY <1>1, <1>3 DEF ContextIsTheLatest, Fits
<1>7. AskedIsCounted'
  <2>1. /\ last.asked \in Nat /\ conv.attempts \in Nat /\ MaxClarifications \in Nat
        /\ last.asked <= conv.attempts /\ last.asked <= MaxClarifications
    BY DialogueAssumption
       DEF DialogueInv, DialogueTypeOK, Conversation, Reply, AskedIsCounted
  <2>2. \/ last'.asked = 0
        \/ last'.asked = last.asked /\ ~result.resolved
        \/ /\ last'.asked = last.asked + 1 /\ result.clarifies /\ result.counts
           /\ conv.attempts < MaxClarifications
    BY <1>1 DEF Fits, MayClarify
  <2>3. conv'.attempts = IF result.clarifies /\ result.counts THEN conv.attempts + 1
                         ELSE IF result.resolved THEN 0 ELSE conv.attempts
    BY <1>3 DEF Attempts
  <2> QED
    BY <2>1, <2>2, <2>3 DEF AskedIsCounted
<1>8. PickedIsAnswered'
  BY <1>1 DEF PickedIsAnswered, Fits
<1> QED
  BY <1>4, <1>5, <1>6, <1>7, <1>8 DEF DialogueInv

LEMMA DraftKeeps ==
  ASSUME DialogueInv, NEW m \in Message, NEW logged, MayPost(logged),
         DevelopDraft(m, logged)
  PROVE  DialogueInv'
<1> DEFINE draft == Handle(m, conv.draft, active, IsStart(m, logged))
           saved == IF draft = Inactive THEN NULL ELSE draft
           status == IF draft.status = "COLLECTING" THEN "WAITING_CLARIFICATION" ELSE "ACTIVE"
<1>1. conv' = [conv EXCEPT !.turns = @ + 1, !.attempts = 0, !.menu = <<>>, !.query = FALSE,
                           !.linked = TRUE, !.draft = saved, !.status = status]
  BY DEF DevelopDraft
<1>2. conv \in Conversation /\ active \subseteq Categories
      /\ (conv.draft = NULL \/ Settled(conv.draft))
  BY DEF DialogueInv, DialogueTypeOK, SavedDraft
<1>3. \/ draft = Cancelled
      \/ Settled(draft) /\ InProgress(draft)
      \/ draft = IF conv.draft = NULL THEN Inactive ELSE conv.draft
  BY <1>2, HandleSettles
<1>4. Cancelled.status = "CANCELLED"
  BY DEF Cancelled, Empty
<1> HIDE DEF draft
<1>5. saved # NULL => Settled(saved) /\ saved.status # "INACTIVE"
  BY <1>3, <1>4, EmptyIsSettled DEF DialogueInv, SavedDraft, InProgress
<1>6. saved \in Draft \cup {NULL} /\ status \in Statuses
  BY <1>5 DEF Settled, Sound, Statuses
<1>7. conv.turns + 1 \in 0 .. MaxTurns
  BY <1>2, DialogueAssumption DEF Conversation, MayPost
<1> HIDE DEF saved, status
<1>8. /\ conv' \in Conversation /\ conv'.draft = saved /\ conv'.attempts = 0
      /\ conv'.menu = <<>> /\ conv'.query = FALSE
  BY <1>1, <1>2, <1>6, <1>7, EmptyMenu DEF Conversation
<1>9. last' \in Reply /\ last'.options = <<>> /\ last'.asked = 0 /\ last'.picked = 0
  BY SaidEffect, EmptyMenu DEF DevelopDraft
<1>10. active' = active /\ usable' = usable
  BY DEF DevelopDraft
<1> QED
  BY <1>5, <1>8, <1>9, <1>10, DialogueAssumption
     DEF DialogueInv, DialogueTypeOK, SavedDraft, ContextIsTheLatest, AskedIsCounted,
         PickedIsAnswered

LEMMA UnavailableKeeps ==
  ASSUME DialogueInv, NEW branch, NEW logged \in BOOLEAN, MayPost(logged),
         Unavailable(branch, logged)
  PROVE  DialogueInv'
<1>1. PICK linked \in {conv.linked, branch = "draft" \/ conv.linked} :
        conv' = [conv EXCEPT !.turns = @ + 1, !.linked = linked, !.menu = <<>>,
                             !.query = FALSE, !.status = "ACTIVE"]
  BY DEF Unavailable
<1>2. conv \in Conversation /\ conv.turns + 1 \in 0 .. MaxTurns /\ last.asked \in Nat
  BY DialogueAssumption DEF DialogueInv, DialogueTypeOK, Conversation, Reply, MayPost
<1>3. linked \in BOOLEAN
  BY <1>2 DEF Conversation
<1>4. /\ conv' \in Conversation /\ conv'.draft = conv.draft /\ conv'.attempts = conv.attempts
      /\ conv'.menu = <<>> /\ conv'.query = FALSE
  BY <1>1, <1>2, <1>3, EmptyMenu DEF Conversation, Statuses
<1>5. last' \in Reply /\ last'.asked = last.asked /\ last'.picked = 0
  BY <1>2, SaidEffect, EmptyMenu DEF Unavailable
<1>6. active' = active /\ usable' = usable
  BY DEF Unavailable
<1> QED
  BY <1>4, <1>5, <1>6
     DEF DialogueInv, DialogueTypeOK, SavedDraft, ContextIsTheLatest, AskedIsCounted,
         PickedIsAnswered

\* The other endpoints forget the context or leave it alone.
LEMMA EndpointsKeep ==
  ASSUME DialogueInv,
         LinkUser \/ Escalate \/ Reset \/ \E c \in Categories : Convert(c)
  PROVE  DialogueInv'
<1>1. conv \in Conversation /\ last \in Reply
  BY DEF DialogueInv, DialogueTypeOK
<1>2. CASE LinkUser \/ Escalate
  <2>1. /\ conv' \in Conversation /\ conv'.draft = conv.draft
        /\ conv'.attempts = conv.attempts /\ conv'.menu = conv.menu
        /\ conv'.query = conv.query
    BY <1>1, <1>2 DEF LinkUser, Escalate, Conversation, Statuses
  <2>2. UNCHANGED <<active, usable, last>>
    BY <1>2 DEF LinkUser, Escalate
  <2> QED
    BY <2>1, <2>2
       DEF DialogueInv, DialogueTypeOK, SavedDraft, ContextIsTheLatest, AskedIsCounted,
           PickedIsAnswered
<1>3. CASE \E c \in Categories : Convert(c)
  <2>1. /\ conv' \in Conversation /\ conv'.draft = NULL
        /\ conv'.attempts = conv.attempts /\ conv'.menu = conv.menu
        /\ conv'.query = conv.query
    BY <1>1, <1>3 DEF Convert, Conversation, Statuses
  <2>2. UNCHANGED <<active, usable, last>>
    BY <1>3 DEF Convert
  <2> QED
    BY <2>1, <2>2
       DEF DialogueInv, DialogueTypeOK, SavedDraft, ContextIsTheLatest, AskedIsCounted,
           PickedIsAnswered
<1>4. CASE Reset
  <2>1. /\ conv' \in Conversation /\ conv'.draft = NULL /\ conv'.attempts = 0
        /\ conv'.menu = <<>> /\ conv'.query = FALSE
    <3>1. 0 \in 0 .. MaxTurns /\ <<>> \in Menus
      BY EmptyMenu, DialogueAssumption
    <3>2. conv' = [conv EXCEPT !.status = "ACTIVE", !.turns = 0, !.attempts = 0,
                               !.draft = NULL, !.menu = <<>>, !.query = FALSE]
      BY <1>4 DEF Reset
    <3> QED
      BY <1>1, <3>1, <3>2 DEF Conversation, Statuses
  <2>2. last' \in Reply /\ last'.asked = 0
    BY <1>1, <1>4 DEF Reset, Reply
  <2>3. UNCHANGED <<active, usable>>
    BY <1>4 DEF Reset
  <2> QED
    BY <2>1, <2>2, <2>3, DialogueAssumption
       DEF DialogueInv, DialogueTypeOK, SavedDraft, ContextIsTheLatest, AskedIsCounted,
           PickedIsAnswered
<1> QED
  BY <1>2, <1>3, <1>4

LEMMA DialogueStep == DialogueInv /\ [DialogueNext]_dialogue => DialogueInv'
<1> SUFFICES ASSUME DialogueInv, [DialogueNext]_dialogue PROVE DialogueInv'
  OBVIOUS
<1>1. CASE \/ \E c \in Categories : ToggleCategory(c)
           \/ \E a \in Library : ToggleArticle(a)
  <2>1. active' \subseteq Categories /\ usable' \subseteq Library /\ UNCHANGED <<conv, last>>
    BY <1>1 DEF ToggleCategory, ToggleArticle, DialogueInv, DialogueTypeOK
  <2> QED
    BY <2>1 DEF DialogueInv, DialogueTypeOK, SavedDraft, ContextIsTheLatest,
                AskedIsCounted, PickedIsAnswered
<1>2. CASE \E m \in Messages, logged \in BOOLEAN : SendMessage(m, logged)
  <2>1. PICK m \in Messages, logged \in BOOLEAN : SendMessage(m, logged)
    BY <1>2
  <2>2. m \in Message
    BY DialogueAssumption
  <2>3. /\ MayPost(logged)
        /\ \/ Answers
           \/ DevelopDraft(m, logged)
           \/ \E branch : Unavailable(branch, logged)
    BY <2>1, <2>2, MessageSteps DEF DialogueInv, DialogueTypeOK
  <2> QED
    BY <2>2, <2>3, AnswersKeep, DraftKeeps, UnavailableKeeps
<1>3. CASE LinkUser \/ Escalate \/ Reset \/ \E c \in Categories : Convert(c)
  BY <1>3, EndpointsKeep
<1>4. CASE UNCHANGED dialogue
  BY <1>4 DEF dialogue, DialogueInv, DialogueTypeOK, SavedDraft, ContextIsTheLatest,
              AskedIsCounted, PickedIsAnswered
<1> QED
  BY <1>1, <1>2, <1>3, <1>4 DEF DialogueNext

LEMMA DialogueInvariant == DialogueSpec => []DialogueInv
BY DialogueStart, DialogueStep, PTL DEF DialogueSpec

(***************************************************************************)
(* The theorems.                                                           *)
(***************************************************************************)
\* Every variable of the dialogue keeps its type: no turn beyond the limit, no menu
\* that is too long or shows an article twice.
THEOREM DialogueTypeCorrect == DialogueSpec => []DialogueTypeOK
BY DialogueInvariant, PTL DEF DialogueInv

\* Whatever is said, and whatever happens to the categories meanwhile, a saved draft
\* misses all it complains about and what the bot asks for, and a ready one nothing.
THEOREM NeverStuck == DialogueSpec => []DraftIsNeverStuck
<1>1. DialogueInv => DraftIsNeverStuck
  BY SettledIsNeverStuck DEF DialogueInv, SavedDraft, DraftIsNeverStuck
<1> QED
  BY <1>1, DialogueInvariant, PTL

\* An option, or a bare code, is never resolved against anything but the latest reply.
THEOREM LatestContext == DialogueSpec => []ContextIsTheLatest
BY DialogueInvariant, PTL DEF DialogueInv

\* The search never asks for clarification more often than it may, though all branches
\* share its counter.
THEOREM ClarificationsBounded == DialogueSpec => []ClarificationsAreBounded
<1>1. DialogueInv => ClarificationsAreBounded
  BY DEF DialogueInv, AskedIsCounted, ClarificationsAreBounded
<1> QED
  BY <1>1, DialogueInvariant, PTL

\* What a step says about an ordinal: it names the option in that place of the menu
\* that was shown, unless one shown before it is gone.
LEMMA OrdinalStep ==
  DialogueInv /\ [DialogueNext]_dialogue =>
    [last' # last /\ last'.picked # 0 =>
       LET n == last'.picked IN
       \/ last'.answered = conv.menu[n]
       \/ \E i \in 1 .. n : conv.menu[i] \notin usable]_dialogue
<1> SUFFICES ASSUME DialogueInv, DialogueNext, last' # last, last'.picked # 0
             PROVE  PickedInPlace(last')
  BY DEF PickedInPlace
<1>1. last \in Reply /\ conv \in Conversation /\ usable \subseteq Library
  BY DEF DialogueInv, DialogueTypeOK
<1>2. PICK m \in Messages, logged \in BOOLEAN : SendMessage(m, logged)
  <2>1. ~Reset
    <3>1. ASSUME Reset PROVE FALSE
      <4>1. last' = [last EXCEPT !.asked = 0]
        BY <3>1 DEF Reset
      <4>2. last'.picked = last.picked
        BY <1>1, <4>1 DEF Reply
      <4>3. last.asked = 0
        BY <4>2 DEF DialogueInv, PickedIsAnswered
      <4>4. last' = last
        BY <1>1, <4>1, <4>3 DEF Reply
      <4> QED
        BY <4>4
    <3> QED
      BY <3>1
  <2> QED
    BY <2>1 DEF DialogueNext, ToggleCategory, ToggleArticle, Convert, LinkUser, Escalate
<1>3. m \in Message
  BY DialogueAssumption
<1>4. \/ Answers
      \/ DevelopDraft(m, logged)
      \/ \E branch : Unavailable(branch, logged)
  BY <1>1, <1>2, <1>3, MessageSteps
<1>5. CASE Answers
  BY <1>5 DEF Answers, Fits
<1>6. CASE DevelopDraft(m, logged)
  <2>1. last'.picked = 0
    BY <1>6, SaidEffect, EmptyMenu DEF DevelopDraft
  <2> QED
    BY <2>1
<1>7. CASE \E branch : Unavailable(branch, logged)
  <2>1. last.asked \in Nat
    BY <1>1 DEF Reply
  <2>2. last'.picked = 0
    BY <1>7, <2>1, SaidEffect, EmptyMenu DEF Unavailable
  <2> QED
    BY <2>2
<1> QED
  BY <1>4, <1>5, <1>6, <1>7

\* "The second one" gets the second option shown, or one before it was withdrawn.
THEOREM OrdinalsInPlace == DialogueSpec => OrdinalNeedsAllShown
BY DialogueInvariant, OrdinalStep, PTL DEF DialogueSpec, OrdinalNeedsAllShown

(***************************************************************************)
(* The lifecycle of the draft.                                             *)
(***************************************************************************)
Converted == conv.status = "CONVERTED_TO_TICKET"

LEMMA LifecycleStep ==
  DialogueInv /\ [DialogueNext]_dialogue =>
    [Lifecycle!Next]_<<Stage, conv.status = "CONVERTED_TO_TICKET">>
<1> SUFFICES ASSUME DialogueInv, [DialogueNext]_dialogue
             PROVE  Lifecycle!Next \/ (Stage' = Stage /\ Converted' = Converted)
  BY DEF Converted
<1>1. conv \in Conversation
  BY DEF DialogueInv, DialogueTypeOK
<1>2. ASSUME conv'.draft = conv.draft PROVE Stage' = Stage
  BY <1>2 DEF Stage
<1>3. ASSUME conv' = conv PROVE Stage' = Stage /\ Converted' = Converted
  BY <1>2, <1>3 DEF Converted
<1>4. CASE \/ \E c \in Categories : ToggleCategory(c)
           \/ \E a \in Library : ToggleArticle(a)
           \/ UNCHANGED dialogue
  BY <1>3, <1>4 DEF ToggleCategory, ToggleArticle, dialogue
<1>5. CASE LinkUser \/ Escalate
  <2>1. conv'.draft = conv.draft /\ Converted' = Converted
    BY <1>1, <1>5 DEF LinkUser, Escalate, Conversation, Converted
  <2> QED
    BY <1>2, <2>1
<1>6. CASE Reset
  <2>1. conv'.draft = NULL /\ ~Converted /\ ~Converted'
    BY <1>1, <1>6 DEF Reset, Conversation, Converted
  <2>2. Stage' = "none"
    BY <2>1 DEF Stage
  <2> QED
    BY <2>1, <2>2 DEF Lifecycle!Next, Lifecycle!Clear, Converted
<1>7. CASE \E c \in Categories : Convert(c)
  <2>1. /\ conv'.draft = NULL /\ ~Converted /\ Converted'
        /\ conv.draft # NULL => conv.draft.status = "READY_FOR_CONFIRMATION"
    BY <1>1, <1>7 DEF Convert, Confirms, Conversation, Converted
  <2>2. Stage' = "none" /\ Stage \in {"none", "ready"}
    BY <2>1 DEF Stage
  <2> QED
    BY <2>1, <2>2 DEF Lifecycle!Next, Lifecycle!Convert, Converted
<1>8. CASE \E m \in Messages, logged \in BOOLEAN : SendMessage(m, logged)
  <2>1. PICK m \in Messages, logged \in BOOLEAN : SendMessage(m, logged)
    BY <1>8
  <2>2. m \in Message
    BY DialogueAssumption
  <2>3. /\ MayPost(logged)
        /\ \/ Answers
           \/ DevelopDraft(m, logged)
           \/ \E branch : Unavailable(branch, logged)
    BY <2>1, <2>2, MessageSteps DEF DialogueInv, DialogueTypeOK
  <2>4. ~Converted
    BY <2>3 DEF MayPost, Converted
  <2>5. CASE Answers
    <3>1. conv'.draft = conv.draft /\ ~Converted'
      BY <1>1, <2>3, <2>5, SettleEffect DEF Answers, MayPost, Converted
    <3> QED
      BY <1>2, <2>4, <3>1 DEF Converted
  <2>6. CASE \E branch : Unavailable(branch, logged)
    <3>1. conv'.draft = conv.draft /\ ~Converted'
      BY <1>1, <2>6 DEF Unavailable, Conversation, Converted
    <3> QED
      BY <1>2, <2>4, <3>1 DEF Converted
  <2>7. CASE DevelopDraft(m, logged)
    <3> DEFINE draft == Handle(m, conv.draft, active, IsStart(m, logged))
               saved == IF draft = Inactive THEN NULL ELSE draft
               status == IF draft.status = "COLLECTING" THEN "WAITING_CLARIFICATION"
                         ELSE "ACTIVE"
    <3>1. conv'.draft = saved /\ ~Converted'
      <4>1. conv' = [conv EXCEPT !.turns = @ + 1, !.attempts = 0, !.menu = <<>>,
                                 !.query = FALSE, !.linked = TRUE, !.draft = saved,
                                 !.status = status]
        BY <2>7 DEF DevelopDraft
      <4> HIDE DEF saved
      <4> QED
        BY <1>1, <4>1 DEF Conversation, Converted
    <3>2. \/ draft = Cancelled /\ conv.draft # NULL /\ InProgress(conv.draft)
          \/ InProgress(draft)
          \/ /\ draft = IF conv.draft = NULL THEN Inactive ELSE conv.draft
             /\ conv.draft # NULL => ~InProgress(conv.draft)
      BY <2>2, HandleSettles DEF DialogueInv, DialogueTypeOK, SavedDraft
    <3>3. Inactive.status = "INACTIVE" /\ Cancelled.status = "CANCELLED"
      BY DEF Inactive, Cancelled, Empty
    <3> HIDE DEF draft
    <3>4. ASSUME saved = NULL
          PROVE  Lifecycle!Next
      <4>1. Stage' = "none"
        BY <3>1, <3>4 DEF Stage
      <4> QED
        BY <2>4, <3>1, <4>1 DEF Lifecycle!Next, Lifecycle!Clear, Converted
    <3>5. CASE draft = Cancelled /\ conv.draft # NULL /\ InProgress(conv.draft) /\ saved # NULL
      <4>1. Stage \in {"collecting", "ready"}
        BY <3>5 DEF Stage, InProgress
      <4>2. Stage' = "cancelled"
        BY <3>1, <3>3, <3>5 DEF Stage
      <4> QED
        BY <2>4, <3>1, <4>1, <4>2 DEF Lifecycle!Next, Lifecycle!Change, Converted
    <3>6. CASE InProgress(draft) /\ saved # NULL
      <4>1. Stage' \in {"collecting", "ready"}
        BY <3>1, <3>6 DEF Stage, InProgress
      <4>2. Stage \in {"none", "cancelled", "collecting", "ready"}
        BY DEF DialogueInv, SavedDraft, Settled, Sound, Draft, DraftStatuses, Stage
      <4> QED
        BY <2>4, <3>1, <4>1, <4>2
           DEF Lifecycle!Next, Lifecycle!Begin, Lifecycle!Change, Converted
    <3>7. CASE /\ draft = IF conv.draft = NULL THEN Inactive ELSE conv.draft
               /\ conv.draft # NULL => ~InProgress(conv.draft)
               /\ saved # NULL
      <4>1. conv'.draft = conv.draft
        BY <3>1, <3>7
      <4> QED
        BY <1>2, <2>4, <3>1, <4>1 DEF Converted
    <3> QED
      BY <3>2, <3>4, <3>5, <3>6, <3>7
  <2> QED
    BY <2>3, <2>5, <2>6, <2>7
<1> QED
  BY <1>4, <1>5, <1>6, <1>7, <1>8 DEF DialogueNext

\* The draft goes only through the stages a client may rely on: it begins before it is
\* cancelled, only none or a ready one is converted, and nothing follows conversion.
THEOREM DraftLifecycleKept == DialogueSpec => ImplementsLifecycle
<1>1. DialogueInit => Lifecycle!Init
  <2> SUFFICES ASSUME DialogueInit PROVE Lifecycle!Init
    OBVIOUS
  <2>1. conv.draft = NULL /\ conv.status = "ACTIVE"
    BY DEF DialogueInit
  <2> QED
    BY <2>1 DEF Stage, Lifecycle!Init
<1> QED
  BY <1>1, DialogueInvariant, LifecycleStep, PTL
     DEF DialogueSpec, ImplementsLifecycle, Lifecycle!Spec

=============================================================================
