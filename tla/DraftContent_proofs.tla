-------------------------- MODULE DraftContent_proofs --------------------------
(***************************************************************************)
(* Proofs about DraftGeneration, for any number of retries, any guardrails *)
(* and any costs, and about DraftContent, for any requests, any texts that *)
(* the model may write and anything that the policy judge may say.         *)
(*                                                                         *)
(* The first part is the loop, about which nothing is used but its own     *)
(* assumptions.  The second part shows that DraftContent is a behaviour of *)
(* that loop, and what the text of an accepted draft cannot say.           *)
(***************************************************************************)
EXTENDS DraftContent, TLAPS

USE GuardrailsAssumption, MaxRetriesAssumption, CostsAssumption

\* While a call is pending the draft held is the previous attempt's, and the
\* feedback in the prompt says what was wrong with that one.
FeedbackInv ==
  phase = "calling" =>
    /\ attempt = 0 => draft = Nothing /\ verdict = NoVerdict /\ tokens.total = 0 /\ calls = 0
    /\ attempt > 0 => /\ feedback.on = attempt - 1
                      /\ draft = attempt - 1
                      /\ feedback.kind \in {"table", "guardrails"}
                      /\ feedback.kind = "guardrails" => verdict.of = draft /\ Blocking(verdict)
                      /\ feedback.kind = "table" => verdict.of < draft

\* A request that was answered holds a draft, and a verdict on that draft.
AnswerInv ==
  Returned =>
    /\ verdict.of = draft
    /\ draft # Nothing
    /\ RequiresTable(request) => hasTable
    /\ Blocking(verdict) => attempt = MaxRetries /\ draft = MaxRetries
    /\ draft = FixedBody => /\ modelVerdict.of = MaxRetries
                            /\ FixedBodyAllowed(request, modelVerdict)
                            /\ ~Blocking(verdict)

\* While a call is pending, each attempt before it made one call.
CallsInv == phase = "calling" => calls = attempt

\* The tokens of the breakdown are among those counted.
TokensInv ==
  /\ tokens.main <= tokens.total
  /\ Returned => tokens.main + verdict.cost <= tokens.total

IInv == TypeOK /\ FeedbackInv /\ AnswerInv /\ CallsInv /\ TokensInv

-----------------------------------------------------------------------------
(* The types                                                               *)

\* The verdicts that the steps choose from are verdicts.
LEMMA VerdictType ==
  ASSUME NEW d \in Drafts, NEW v \in VerdictsOn(d)
  PROVE  v \in Verdicts /\ v.of = d /\ v.cost \in Nat
BY DEF VerdictsOn, Verdicts

LEMMA NoVerdictFacts ==
  /\ NoVerdict \in Verdicts /\ NoVerdict.of = Nothing
  /\ NoVerdict.cost = 0 /\ ~Blocking(NoVerdict)
BY DEF NoVerdict, Verdicts, Drafts, Blocking

\* Feedback in the prompt, or none.
FeedbackKinds == [kind : {"none", "table", "guardrails"}, on : Attempts \cup {Nothing}]

LEMMA FeedbackType ==
  /\ NoFeedback \in FeedbackKinds
  /\ \A d \in Attempts, k \in {"table", "guardrails"} :
       /\ Feedback(k, d) \in FeedbackKinds
       /\ Feedback(k, d).on = d /\ Feedback(k, d).kind = k
BY DEF NoFeedback, Feedback, FeedbackKinds

\* Two ways to say where a draft comes from.
LEMMA DraftFacts ==
  /\ 0 \in Attempts /\ Nothing \in Drafts /\ FixedBody \in Drafts
  /\ \A a \in Attempts : a \in Drafts /\ a \in Nat /\ a <= MaxRetries
  /\ \A d \in Drafts : d \in Int
  /\ Nothing = -1 /\ FixedBody = MaxRetries + 1
BY DEF Attempts, Drafts, Nothing, FixedBody

\* The form of TypeOK that the proofs use.
Counters == [total : Nat, main : Nat]

LEMMA TypeForm ==
  TypeOK <=>
    /\ phase \in {"idle", "calling"} /\ request \in RequestKinds
    /\ attempt \in Attempts /\ feedback \in FeedbackKinds
    /\ draft \in Drafts /\ hasTable \in BOOLEAN
    /\ verdict \in Verdicts /\ modelVerdict \in Verdicts
    /\ provider \in Providers /\ calls \in 0..(MaxRetries + 1)
    /\ tokens \in Counters /\ outcome \in Raises \cup {None, "returned"}
BY DEF TypeOK, FeedbackKinds, Counters

LEMMA InitInv == Init => IInv
<1> SUFFICES ASSUME Init PROVE IInv
  OBVIOUS
<1>1. TypeOK
  <2>1. [total |-> 0, main |-> 0] \in Counters /\ 0 \in 0..(MaxRetries + 1)
    BY DEF Counters
  <2> QED
    BY <2>1, NoVerdictFacts, FeedbackType, DraftFacts, TypeForm DEF Init, Providers
<1> QED
  BY <1>1 DEF Init, IInv, FeedbackInv, AnswerInv, CallsInv, TokensInv, Returned, None

LEMMA AskInv == ASSUME IInv, NEW q \in RequestKinds, Ask(q) PROVE IInv'
<1>1. TypeOK'
  <2>1. [total |-> 0, main |-> 0] \in Counters /\ 0 \in 0..(MaxRetries + 1)
    BY DEF Counters
  <2> QED
    BY <2>1, NoVerdictFacts, FeedbackType, DraftFacts DEF IInv, Ask, Raises, TypeOK, FeedbackKinds, Counters
<1>2. ~Returned'
  BY DEF Ask, Returned, None
<1> QED
  BY <1>1, <1>2 DEF IInv, Ask, FeedbackInv, AnswerInv, CallsInv, TokensInv

LEMMA CallFailsInv == ASSUME IInv, CallFails PROVE IInv'
<1>1. TypeOK'
  BY DEF IInv, CallFails, End, TypeOK, Raises
<1>2. ~Returned' /\ phase' = "idle"
  BY DEF CallFails, End, Returned
<1> QED
  BY <1>1, <1>2 DEF IInv, CallFails, FeedbackInv, AnswerInv, CallsInv, TokensInv

\* What an answer does to the counters, whatever becomes of it.
LEMMA AnsweredFacts ==
  ASSUME IInv, phase = "calling", NEW p \in Providers, NEW cost \in Costs,
         NEW judging \in Nat, Answered(p, cost, judging)
  PROVE  /\ provider' \in Providers
         /\ calls' \in 0..(MaxRetries + 1) /\ calls' = attempt + 1
         /\ tokens' \in [total : Nat, main : Nat]
         /\ tokens'.main + judging <= tokens'.total
         /\ tokens'.main <= tokens'.total
<1>1. calls = attempt /\ attempt \in 0..MaxRetries
  BY DEF IInv, CallsInv, TypeOK, Attempts
<1>2. /\ tokens.total \in Nat /\ tokens.main \in Nat /\ cost \in Nat
      /\ tokens.main <= tokens.total
  BY DEF IInv, TypeOK, TokensInv
<1>3. /\ tokens'.total = tokens.total + cost + judging
      /\ tokens'.main = tokens.main + cost
      /\ tokens' \in [total : Nat, main : Nat]
  BY <1>2 DEF Answered
<1> QED
  BY <1>1, <1>2, <1>3 DEF Answered

LEMMA MalformedInv ==
  ASSUME IInv, NEW p \in Providers, NEW cost \in Costs, AnswerIsMalformed(p, cost)
  PROVE  IInv'
<1>1. /\ provider' \in Providers /\ calls' \in 0..(MaxRetries + 1)
      /\ tokens' \in [total : Nat, main : Nat] /\ tokens'.main <= tokens'.total
  BY AnsweredFacts DEF AnswerIsMalformed
<1>2. TypeOK'
  BY <1>1 DEF IInv, AnswerIsMalformed, End, TypeOK, Raises
<1>3. ~Returned' /\ phase' = "idle"
  BY DEF AnswerIsMalformed, End, Returned
<1> QED
  BY <1>1, <1>2, <1>3 DEF IInv, FeedbackInv, AnswerInv, CallsInv, TokensInv

\* What Retry and End do to the loop.
LEMMA RetryFacts ==
  ASSUME IInv, NEW k \in {"table", "guardrails"}, Retry(Feedback(k, attempt))
  PROVE  /\ attempt' = attempt + 1 /\ attempt' \in Attempts
         /\ feedback' \in FeedbackKinds /\ feedback'.on = attempt /\ feedback'.kind = k
         /\ UNCHANGED <<phase, request, outcome>>
<1>1. attempt \in Attempts
  BY DEF IInv, TypeOK
<1>2. attempt' = attempt + 1 /\ attempt' \in Attempts
  BY <1>1 DEF Retry, Attempts
<1>3. feedback' = Feedback(k, attempt) /\ UNCHANGED <<phase, request, outcome>>
  BY DEF Retry
<1> QED
  BY <1>1, <1>2, <1>3, FeedbackType

\* An answer keeps the types, if what it stores is well formed.
LEMMA AnswerTypes ==
  ASSUME IInv, phase' \in {"idle", "calling"}, UNCHANGED request,
         attempt' \in Attempts, feedback' \in FeedbackKinds, draft' \in Drafts,
         hasTable' \in BOOLEAN, verdict' \in Verdicts, modelVerdict' \in Verdicts,
         provider' \in Providers, calls' \in 0..(MaxRetries + 1),
         tokens' \in Counters, outcome' \in Raises \cup {None, "returned"}
  PROVE  TypeOK'
BY DEF IInv, TypeOK, FeedbackKinds, Counters

\* Nothing is known of a request that ended without a draft.
LEMMA RaisedInv ==
  ASSUME IInv, TypeOK', phase' = "idle", outcome' # "returned", tokens'.main <= tokens'.total
  PROVE  IInv'
BY DEF IInv, FeedbackInv, AnswerInv, CallsInv, TokensInv, Returned

LEMMA OmitsTableInv ==
  ASSUME IInv, NEW p \in Providers, NEW cost \in Costs, AnswerOmitsTable(p, cost)
  PROVE  IInv'
<1>1. /\ provider' \in Providers /\ calls' \in 0..(MaxRetries + 1) /\ calls' = attempt + 1
      /\ tokens' \in Counters /\ tokens'.main <= tokens'.total
  BY AnsweredFacts DEF AnswerOmitsTable, Counters
<1>2. /\ attempt \in Attempts /\ phase = "calling" /\ draft' = attempt /\ hasTable' = FALSE
      /\ UNCHANGED <<verdict, modelVerdict>>
      /\ verdict \in Verdicts /\ modelVerdict \in Verdicts /\ feedback \in FeedbackKinds
      /\ outcome \in Raises \cup {None, "returned"}
  BY TypeForm DEF IInv, AnswerOmitsTable
<1>3. verdict.of < attempt
  <2>1. attempt \in Nat /\ verdict.of \in Int
    BY <1>2, DraftFacts DEF Verdicts
  <2>2. CASE attempt = 0
    BY <1>2, <2>1, <2>2, NoVerdictFacts, DraftFacts DEF IInv, FeedbackInv
  <2>3. CASE attempt > 0
    BY <1>2, <2>1, <2>3 DEF IInv, FeedbackInv
  <2> QED
    BY <2>1, <2>2, <2>3
<1>4. CASE Retry(Feedback("table", attempt))
  <2>1. /\ attempt' = attempt + 1 /\ attempt' \in Attempts /\ phase' = "calling"
        /\ feedback' \in FeedbackKinds /\ feedback'.on = attempt /\ feedback'.kind = "table"
        /\ UNCHANGED <<request, outcome>>
    BY <1>2, <1>4, RetryFacts
  <2>2. TypeOK'
    BY <1>1, <1>2, <2>1, DraftFacts, AnswerTypes
  <2>3. FeedbackInv'
    BY <1>2, <1>3, <2>1, DraftFacts DEF FeedbackInv
  <2> QED
    BY <1>1, <2>1, <2>2, <2>3 DEF IInv, AnswerInv, CallsInv, TokensInv, Returned
<1>5. CASE End("LLMResponseInvalidError")
  <2>1. TypeOK'
    BY <1>1, <1>2, <1>5, DraftFacts, AnswerTypes DEF End, Raises
  <2> QED
    BY <1>1, <1>5, <2>1, RaisedInv DEF End
<1> QED
  BY <1>4, <1>5 DEF AnswerOmitsTable

-----------------------------------------------------------------------------
(* Answers that the guardrails judged                                      *)

\* What every judged answer stores.
LEMMA JudgedFacts ==
  ASSUME IInv, phase = "calling", NEW p \in Providers, NEW cost \in Costs,
         NEW table \in BOOLEAN, NEW v \in VerdictsOn(attempt),
         Judged(table, v), Answered(p, cost, v.cost)
  PROVE  /\ attempt \in Attempts /\ draft' = attempt /\ draft' \in Drafts
         /\ hasTable' = table /\ verdict' = v /\ modelVerdict' = v
         /\ v \in Verdicts /\ v.of = attempt
         /\ provider' \in Providers /\ calls' \in 0..(MaxRetries + 1)
         /\ calls' = attempt + 1 /\ tokens' \in Counters
         /\ tokens'.main + v.cost <= tokens'.total /\ tokens'.main <= tokens'.total
<1>1. attempt \in Attempts
  BY DEF IInv, TypeOK
<1>2. v \in Verdicts /\ v.of = attempt /\ v.cost \in Nat
  BY <1>1, DraftFacts, VerdictType
<1> QED
  BY <1>1, <1>2, DraftFacts, AnsweredFacts DEF Judged, Counters

LEMMA ReturnsInv ==
  ASSUME IInv, phase = "calling", NEW p \in Providers, NEW cost \in Costs,
         NEW table \in BOOLEAN, NEW v \in VerdictsOn(attempt),
         Judged(table, v), Answered(p, cost, v.cost), End("returned"),
         RequiresTable(request) => table, Blocking(v) => attempt = MaxRetries
  PROVE  IInv'
<1>1. /\ attempt \in Attempts /\ draft' = attempt /\ draft' \in Drafts
      /\ hasTable' = table /\ verdict' = v /\ modelVerdict' = v
      /\ v \in Verdicts /\ v.of = attempt
      /\ provider' \in Providers /\ calls' \in 0..(MaxRetries + 1)
      /\ tokens' \in Counters
      /\ tokens'.main + v.cost <= tokens'.total /\ tokens'.main <= tokens'.total
  BY JudgedFacts
<1>2. phase' = "idle" /\ outcome' = "returned" /\ UNCHANGED <<request, attempt, feedback>>
  BY DEF End
<1>3. TypeOK'
  BY <1>1, <1>2, TypeForm, AnswerTypes DEF IInv
<1>4. AnswerInv'
  <2>1. attempt # FixedBody /\ attempt # Nothing
    BY <1>1, DraftFacts
  <2> QED
    BY <1>1, <1>2, <2>1 DEF AnswerInv, RequiresTable, Blocking
<1>5. FeedbackInv' /\ CallsInv' /\ TokensInv'
  BY <1>1, <1>2 DEF FeedbackInv, CallsInv, TokensInv
<1> QED
  BY <1>3, <1>4, <1>5 DEF IInv

LEMMA RetriedInv ==
  ASSUME IInv, NEW p \in Providers, NEW cost \in Costs, NEW table \in BOOLEAN,
         NEW v \in VerdictsOn(attempt), AnswerIsRetried(p, cost, table, v)
  PROVE  IInv'
<1>1. phase = "calling" /\ Blocking(v) /\ Retry(Feedback("guardrails", attempt))
  BY DEF AnswerIsRetried
<1>2. /\ attempt \in Attempts /\ draft' = attempt /\ draft' \in Drafts
      /\ hasTable' = table /\ verdict' = v /\ modelVerdict' = v
      /\ v \in Verdicts /\ v.of = attempt
      /\ provider' \in Providers /\ calls' \in 0..(MaxRetries + 1) /\ calls' = attempt + 1
      /\ tokens' \in Counters /\ tokens'.main <= tokens'.total
  BY JudgedFacts DEF AnswerIsRetried
<1>3. /\ attempt' = attempt + 1 /\ attempt' \in Attempts
      /\ feedback' \in FeedbackKinds /\ feedback'.on = attempt /\ feedback'.kind = "guardrails"
      /\ UNCHANGED <<phase, request, outcome>>
  BY <1>1, RetryFacts
<1>4. TypeOK'
  BY <1>1, <1>2, <1>3, TypeForm, AnswerTypes DEF IInv
<1>5. FeedbackInv'
  BY <1>1, <1>2, <1>3, DraftFacts DEF FeedbackInv, Blocking
<1> QED
  BY <1>1, <1>2, <1>3, <1>4, <1>5 DEF IInv, AnswerInv, CallsInv, TokensInv, Returned

LEMMA FixedBodyInv ==
  ASSUME IInv, NEW p \in Providers, NEW cost \in Costs,
         NEW v \in VerdictsOn(attempt), NEW w \in VerdictsOn(FixedBody),
         FixedBodyIsTried(p, cost, v, w)
  PROVE  IInv'
<1>1. /\ attempt \in Attempts /\ phase = "calling" /\ attempt = MaxRetries
      /\ FixedBodyAllowed(request, v) /\ modelVerdict' = v /\ hasTable' = TRUE
  BY DEF IInv, TypeOK, FixedBodyIsTried
<1>2. /\ v \in Verdicts /\ v.of = attempt /\ v.cost \in Nat
      /\ w \in Verdicts /\ w.of = FixedBody /\ w.cost \in Nat
  BY <1>1, DraftFacts, VerdictType
<1>3. /\ provider' \in Providers /\ calls' \in 0..(MaxRetries + 1)
      /\ tokens' \in Counters /\ tokens'.main + (v.cost + w.cost) <= tokens'.total
      /\ tokens'.main <= tokens'.total
  BY <1>1, <1>2, AnsweredFacts DEF FixedBodyIsTried, Counters
<1>4. phase' = "idle" /\ outcome' = "returned" /\ UNCHANGED <<request, attempt, feedback>>
  BY DEF FixedBodyIsTried, End
<1>5. \/ Blocking(w) /\ draft' = attempt /\ verdict' = v
      \/ ~Blocking(w) /\ draft' = FixedBody /\ verdict' = w
  BY DEF FixedBodyIsTried
<1>6. draft' \in Drafts /\ verdict' \in Verdicts /\ verdict'.of = draft'
  BY <1>1, <1>2, <1>5, DraftFacts
<1>7. TypeOK'
  BY <1>1, <1>2, <1>3, <1>4, <1>6, TypeForm, AnswerTypes DEF IInv
<1>8. AnswerInv'
  <2>1. attempt # FixedBody /\ attempt # Nothing /\ FixedBody # Nothing
    BY <1>1, DraftFacts
  <2> QED
    BY <1>1, <1>2, <1>4, <1>5, <1>6, <2>1
       DEF AnswerInv, FixedBodyAllowed, RequiresTable, Blocking
<1>9. tokens'.main + verdict'.cost <= tokens'.total
  <2>1. tokens'.main \in Nat /\ tokens'.total \in Nat
    BY <1>3 DEF Counters
  <2> QED
    BY <1>2, <1>3, <1>5, <2>1
<1>10. FeedbackInv' /\ CallsInv' /\ TokensInv'
  BY <1>3, <1>4, <1>9 DEF FeedbackInv, CallsInv, TokensInv
<1> QED
  BY <1>7, <1>8, <1>10 DEF IInv

-----------------------------------------------------------------------------
(* The theorems                                                            *)

LEMMA NextInv == ASSUME IInv, [Next]_vars PROVE IInv'
<1>1. CASE \E q \in RequestKinds : Ask(q)
  BY <1>1, AskInv
<1>2. CASE CallFails
  BY <1>2, CallFailsInv
<1>3. ASSUME NEW p \in Providers, NEW cost \in Costs, AnswerIsMalformed(p, cost)
      PROVE  IInv'
  BY <1>3, MalformedInv
<1>4. ASSUME NEW p \in Providers, NEW cost \in Costs, AnswerOmitsTable(p, cost)
      PROVE  IInv'
  BY <1>4, OmitsTableInv
<1>5. ASSUME NEW p \in Providers, NEW cost \in Costs, NEW table \in BOOLEAN,
             NEW v \in VerdictsOn(attempt),
             \/ AnswerIsAccepted(p, cost, table, v)
             \/ AnswerIsRetried(p, cost, table, v)
             \/ AnswerIsReturnedBlocked(p, cost, table, v)
      PROVE  IInv'
  <2>1. CASE AnswerIsAccepted(p, cost, table, v)
    BY <2>1, ReturnsInv DEF AnswerIsAccepted
  <2>2. CASE AnswerIsRetried(p, cost, table, v)
    BY <2>2, RetriedInv
  <2>3. CASE AnswerIsReturnedBlocked(p, cost, table, v)
    BY <2>3, ReturnsInv DEF AnswerIsReturnedBlocked
  <2> QED
    BY <1>5, <2>1, <2>2, <2>3
<1>6. ASSUME NEW p \in Providers, NEW cost \in Costs, NEW v \in VerdictsOn(attempt),
             NEW w \in VerdictsOn(FixedBody), FixedBodyIsTried(p, cost, v, w)
      PROVE  IInv'
  BY <1>6, FixedBodyInv
<1>7. CASE UNCHANGED vars
  BY <1>7 DEF IInv, TypeOK, FeedbackInv, AnswerInv, CallsInv, TokensInv, Returned, vars
<1> QED
  BY <1>1, <1>2, <1>3, <1>4, <1>5, <1>6, <1>7 DEF Next, Answer

\* The state of a request is well formed, and the loop never makes more than
\* max_guardrail_retries + 1 model calls.
THEOREM TypeCorrect == Spec => []TypeOK
<1>1. IInv => TypeOK
  BY DEF IInv
<1> QED
  BY <1>1, InitInv, NextInv, PTL DEF Spec

THEOREM Invariance == Spec => []IInv
BY InitInv, NextInv, PTL DEF Spec

\* The validation summary of a response is about the body it comes with.
THEOREM VerdictAlwaysOfDraft == Spec => []VerdictIsOfDraft
<1>1. IInv => VerdictIsOfDraft
  BY DEF IInv, AnswerInv, VerdictIsOfDraft
<1> QED
  BY <1>1, Invariance, PTL

\* No standard collection draft is returned without its table placeholder.
THEOREM TableAlwaysThere == Spec => []CollectionDraftsHaveTable
<1>1. IInv => CollectionDraftsHaveTable
  BY DEF IInv, AnswerInv, CollectionDraftsHaveTable
<1> QED
  BY <1>1, Invariance, PTL

\* The fixed body never bypasses a block that prose cannot answer.
THEOREM NeverBypassed == Spec => []FixedBodyIsNoBypass
<1>1. IInv => FixedBodyIsNoBypass
  BY DEF IInv, AnswerInv, FixedBodyIsNoBypass, FixedBodyAllowed, RequiresTable
<1> QED
  BY <1>1, Invariance, PTL

\* A blocked draft is returned only when the attempts are used up.
THEOREM BlockedOnlyAtTheEnd == Spec => []BlockedOnlyWhenExhausted
<1>1. IInv => BlockedOnlyWhenExhausted
  BY DEF IInv, AnswerInv, BlockedOnlyWhenExhausted
<1> QED
  BY <1>1, Invariance, PTL

\* Every repeated prompt is about the attempt just before it.
THEOREM FeedbackAlwaysFresh == Spec => []FeedbackIsFresh
<1>1. ASSUME IInv PROVE FeedbackIsFresh
  <2>1. attempt \in Attempts /\ draft \in Drafts /\ verdict \in Verdicts
    BY <1>1, TypeForm DEF IInv
  <2>2. attempt \in Nat /\ draft \in Int /\ verdict.of \in Int
    BY <2>1, DraftFacts DEF Verdicts
  <2> QED
    BY <1>1, <2>2 DEF IInv, FeedbackInv, FeedbackIsFresh
<1> QED
  BY <1>1, Invariance, PTL

\* A draft that was neither blocked nor without its table is not asked for again.
THEOREM RetriesHaveCause == Spec => RetryOnlyForCause
<1> DEFINE Cause == \/ Blocking(verdict') /\ verdict'.of = attempt
                    \/ RequiresTable(request) /\ ~hasTable'
<1>1. ASSUME IInv, Next, phase = "calling", attempt' > attempt PROVE Cause
  <2>1. attempt \in Nat /\ attempt \in Drafts
    BY <1>1, TypeForm, DraftFacts DEF IInv
  <2>2. attempt' # attempt
    BY <1>1, <2>1
  <2>3. CASE \E q \in RequestKinds : Ask(q)
    BY <1>1, <2>3 DEF Ask
  <2>4. CASE CallFails
    BY <2>2, <2>4 DEF CallFails, End
  <2>5. ASSUME NEW p \in Providers, NEW cost \in Costs, AnswerIsMalformed(p, cost) PROVE FALSE
    BY <2>2, <2>5 DEF AnswerIsMalformed, End
  <2>6. ASSUME NEW p \in Providers, NEW cost \in Costs, AnswerOmitsTable(p, cost) PROVE Cause
    BY <2>6 DEF AnswerOmitsTable
  <2>7. ASSUME NEW p \in Providers, NEW cost \in Costs, NEW table \in BOOLEAN,
               NEW v \in VerdictsOn(attempt),
               \/ AnswerIsAccepted(p, cost, table, v)
               \/ AnswerIsRetried(p, cost, table, v)
               \/ AnswerIsReturnedBlocked(p, cost, table, v)
        PROVE  Cause
    <3>1. CASE AnswerIsRetried(p, cost, table, v)
      <4>1. v.of = attempt
        BY <2>1, VerdictType
      <4> QED
        BY <3>1, <4>1 DEF AnswerIsRetried, Judged
    <3>2. CASE AnswerIsAccepted(p, cost, table, v) \/ AnswerIsReturnedBlocked(p, cost, table, v)
      BY <2>2, <3>2 DEF AnswerIsAccepted, AnswerIsReturnedBlocked, End
    <3> QED
      BY <2>7, <3>1, <3>2
  <2>8. ASSUME NEW p \in Providers, NEW cost \in Costs, NEW v \in VerdictsOn(attempt),
               NEW w \in VerdictsOn(FixedBody), FixedBodyIsTried(p, cost, v, w)
        PROVE  FALSE
    BY <2>2, <2>8 DEF FixedBodyIsTried, End
  <2> QED
    BY <1>1, <2>3, <2>4, <2>5, <2>6, <2>7, <2>8 DEF Next, Answer
<1>2. IInv /\ [Next]_vars => [phase = "calling" /\ attempt' > attempt => Cause]_vars
  BY <1>1
<1> QED
  BY <1>2, Invariance, PTL DEF Spec, RetryOnlyForCause

-----------------------------------------------------------------------------
(* DraftContent: what an empty set of blockers means                       *)

\* A draft that nothing blocks has passed each of the guardrails that could.
LEMMA NothingBlocks ==
  ASSUME NEW d, NEW r, NEW policy, Blockers(d, r, policy) = {}
  PROVE  /\ UngroundedFacts(d, r) = {} /\ NumericalConsistency(d, r) /\ LaneScope(d, r)
         /\ ToneClamping(d, r) /\ PolicyGrounding(d, r, policy)
<1>1. \A g : g \notin Blockers(d, r, policy)
  OBVIOUS
<1>2. UngroundedFacts(d, r) = {}
  BY <1>1 DEF Blockers
<1>3. NumericalConsistency(d, r)
  BY <1>1 DEF Blockers
<1>4. LaneScope(d, r)
  BY <1>1 DEF Blockers
<1>5. ToneClamping(d, r)
  BY <1>1 DEF Blockers
<1>6. PolicyGrounding(d, r, policy)
  BY <1>1 DEF Blockers
<1> QED
  BY <1>2, <1>3, <1>4, <1>5, <1>6

\* The loop sees that something blocks whenever something does.
LEMMA VerdictView ==
  ASSUME NEW n, NEW d, NEW r, NEW policy, NEW cost, ~Blocking(VerdictOn(n, d, r, policy, cost))
  PROVE  Blockers(d, r, policy) = {}
BY DEF VerdictOn, Blocking

\* Every verdict of the thirteen guardrails is one that the loop expects: no text
\* is left unjudged because its verdict is not of the right form.
LEMMA VerdictOnType ==
  ASSUME NEW n, NEW d, NEW r, NEW policy, NEW cost \in Costs
  PROVE  VerdictOn(n, d, r, policy, cost) \in VerdictsOn(n)
BY AnotherAssumption DEF VerdictOn, VerdictsOn

LEMMA KindType == ASSUME NEW r \in Requests PROVE KindOf(r) \in RequestKinds
<1>1. r.skip \in BOOLEAN /\ r.closure \in BOOLEAN /\ r.chaseForbidden \in BOOLEAN
  BY RequestsAssumption
<1> QED
  BY <1>1 DEF KindOf, RequestKinds, CurrentContract

-----------------------------------------------------------------------------
(* DraftContent implements the loop                                        *)

LEMMA ContentStep == ASSUME mail \in Requests, ContentNext PROVE [Next]_vars
<1>1. CASE Refuse
  BY <1>1 DEF Refuse
<1>2. CASE Admit
  BY <1>2, KindType DEF Admit, Next
<1>3. CASE CallFails
  BY <1>3 DEF Next
<1>4. ASSUME NEW p \in Providers, NEW cost \in Costs, AnswerIsMalformed(p, cost)
      PROVE  Next
  BY <1>4 DEF Next, Answer
<1>5. ASSUME NEW p \in Providers, NEW cost \in Costs, OmitsTable(p, cost)
      PROVE  Next
  BY <1>5 DEF OmitsTable, Next, Answer
<1>6. ASSUME NEW p \in Providers, NEW cost \in Costs, NEW d \in Texts, ModelWrites(p, cost, d)
      PROVE  Next
  <2>1. PICK policy \in Judgements, spent \in Costs :
          LET v == VerdictOn(attempt, d, mail, policy, spent)
          IN \/ Judge(p, cost, d, policy, v)
             \/ JudgeFixedBody(p, cost, d, policy, v)
    BY <1>6 DEF ModelWrites
  <2> DEFINE v == VerdictOn(attempt, d, mail, policy, spent)
  <2>2. v \in VerdictsOn(attempt)
    BY VerdictOnType
  <2>3. HasTable(d) \in BOOLEAN
    BY DEF HasTable
  <2> HIDE DEF v
  <2>4. CASE Judge(p, cost, d, policy, v)
    <3>1. \/ AnswerIsAccepted(p, cost, HasTable(d), v)
          \/ AnswerIsRetried(p, cost, HasTable(d), v)
          \/ AnswerIsReturnedBlocked(p, cost, HasTable(d), v)
      BY <2>4 DEF Judge
    <3> QED
      BY <2>2, <2>3, <3>1 DEF Next, Answer
  <2>5. CASE JudgeFixedBody(p, cost, d, policy, v)
    <3>1. PICK k \in Judgements, last \in Costs :
            FixedBodyIsTried(p, cost, v, VerdictOn(FixedBody, FixedText, mail, k, last))
      BY <2>5 DEF JudgeFixedBody
    <3>2. VerdictOn(FixedBody, FixedText, mail, k, last) \in VerdictsOn(FixedBody)
      BY VerdictOnType
    <3> QED
      BY <2>2, <3>1, <3>2 DEF Next, Answer
  <2> QED
    BY <2>1, <2>4, <2>5 DEF v
<1> QED
  BY <1>1, <1>2, <1>3, <1>4, <1>5, <1>6 DEF ContentNext

LEMMA MailIsKept == ASSUME ContentNext PROVE UNCHANGED mail
<1>1. ASSUME NEW p \in Providers, NEW cost \in Costs, NEW d \in Texts, ModelWrites(p, cost, d)
      PROVE  UNCHANGED mail
  BY <1>1 DEF ModelWrites, Judge, JudgeFixedBody, Holds, content
<1> QED
  BY <1>1 DEF ContentNext, Refuse, Admit, OmitsTable, content

\* The generator with the thirteen guardrails in it is the attempt loop: every
\* behaviour of DraftContent is one of DraftGeneration, so that what is proved of
\* the loop holds of it.
THEOREM ContentImplementsLoop == ContentSpec => Spec
<1> DEFINE MailInv == mail \in Requests
<1>1. ContentInit => Init /\ MailInv
  BY DEF ContentInit
<1>2. MailInv /\ [ContentNext]_<<vars, content>> => MailInv' /\ [Next]_vars
  BY ContentStep, MailIsKept DEF content
<1> QED
  BY <1>1, <1>2, PTL DEF ContentSpec, Spec

-----------------------------------------------------------------------------
(* The text of an accepted draft                                           *)

\* The loop sees the request that came; a request that was refused is not valid;
\* and what is accepted was blocked by nothing.
ContentInv ==
  /\ mail \in Requests
  /\ request = KindOf(mail)
  /\ admission = "refused" => ~IsValid(mail)
  /\ Accepted => Blockers(text, mail, judgement) = {}

LEMMA ContentInitInv == ContentInit => ContentInv
BY DEF ContentInit, ContentInv, Init, Accepted, Returned, None

\* A step that returns no draft, or one that nothing blocks.
LEMMA ContentStays ==
  ASSUME ContentInv, UNCHANGED <<mail, admission, request>>,
         ~Accepted' \/ Blockers(text', mail, judgement') = {}
  PROVE  ContentInv'
BY DEF ContentInv

LEMMA ModelWritesInv ==
  ASSUME ContentInv, NEW p \in Providers, NEW cost \in Costs, NEW d \in Texts,
         ModelWrites(p, cost, d)
  PROVE  ContentInv'
<1>1. PICK policy \in Judgements, spent \in Costs :
        LET v == VerdictOn(attempt, d, mail, policy, spent)
        IN \/ Judge(p, cost, d, policy, v)
           \/ JudgeFixedBody(p, cost, d, policy, v)
  BY DEF ModelWrites
<1> DEFINE v == VerdictOn(attempt, d, mail, policy, spent)
<1>2. ASSUME AnswerIsAccepted(p, cost, HasTable(d), v), Holds(d, policy) PROVE ContentInv'
  <2>1. ~Blocking(v) /\ text' = d /\ judgement' = policy /\ UNCHANGED <<mail, admission, request>>
    BY <1>2 DEF AnswerIsAccepted, End, Holds
  <2> QED
    BY <2>1, VerdictView, ContentStays
<1>3. ASSUME AnswerIsRetried(p, cost, HasTable(d), v), UNCHANGED content PROVE ContentInv'
  <2>1. ~Accepted' /\ UNCHANGED <<mail, admission, request>>
    BY <1>3 DEF AnswerIsRetried, Retry, Accepted, Returned, content
  <2> QED
    BY <2>1, ContentStays
<1>4. ASSUME AnswerIsReturnedBlocked(p, cost, HasTable(d), v), Holds(d, policy) PROVE ContentInv'
  <2>1. verdict' = v /\ Blocking(v) /\ UNCHANGED <<mail, admission, request>>
    BY <1>4 DEF AnswerIsReturnedBlocked, Judged, End, Holds
  <2>2. ~Accepted'
    BY <2>1 DEF Accepted, Blocking
  <2> QED
    BY <2>1, <2>2, ContentStays
<1>5. ASSUME NEW k \in Judgements, NEW last \in Costs,
             LET w == VerdictOn(FixedBody, FixedText, mail, k, last)
             IN /\ FixedBodyIsTried(p, cost, v, w)
                /\ IF Blocking(w) THEN Holds(d, policy) ELSE Holds(FixedText, k)
      PROVE  ContentInv'
  <2> DEFINE w == VerdictOn(FixedBody, FixedText, mail, k, last)
  <2>1. UNCHANGED <<mail, admission, request>>
    BY <1>5 DEF FixedBodyIsTried, End, Holds
  <2>2. CASE Blocking(w)
    <3>1. verdict' = v /\ FixedBodyAllowed(request, v)
      BY <1>5, <2>2 DEF FixedBodyIsTried
    <3>2. ~Accepted'
      BY <3>1 DEF Accepted, Blocking, FixedBodyAllowed
    <3> QED
      BY <2>1, <3>2, ContentStays
  <2>3. CASE ~Blocking(w)
    <3>1. text' = FixedText /\ judgement' = k
      BY <1>5, <2>3 DEF Holds
    <3>2. Blockers(FixedText, mail, k) = {}
      BY <2>3, VerdictView
    <3> QED
      BY <2>1, <3>1, <3>2, ContentStays
  <2> QED
    BY <2>2, <2>3
<1> QED
  BY <1>1, <1>2, <1>3, <1>4, <1>5 DEF Judge, JudgeFixedBody

LEMMA ContentNextInv == ASSUME ContentInv, [ContentNext]_<<vars, content>> PROVE ContentInv'
<1>1. CASE Refuse
  BY <1>1 DEF Refuse, ContentInv, Accepted, Returned, vars
<1>2. CASE Admit
  BY <1>2 DEF Admit, Ask, ContentInv, Accepted, Returned, None
<1>3. CASE CallFails /\ UNCHANGED content
  <2>1. ~Accepted' /\ UNCHANGED <<mail, admission, request>>
    BY <1>3 DEF CallFails, End, Accepted, Returned, content
  <2> QED
    BY <2>1, ContentStays
<1>4. ASSUME NEW p \in Providers, NEW cost \in Costs,
             AnswerIsMalformed(p, cost), UNCHANGED content
      PROVE  ContentInv'
  <2>1. ~Accepted' /\ UNCHANGED <<mail, admission, request>>
    BY <1>4 DEF AnswerIsMalformed, End, Accepted, Returned, content
  <2> QED
    BY <2>1, ContentStays
<1>5. ASSUME NEW p \in Providers, NEW cost \in Costs, OmitsTable(p, cost)
      PROVE  ContentInv'
  <2>1. ~Accepted' /\ UNCHANGED <<mail, admission, request>>
    BY <1>5 DEF OmitsTable, AnswerOmitsTable, Retry, End, Accepted, Returned, content
  <2> QED
    BY <2>1, ContentStays
<1>6. ASSUME NEW p \in Providers, NEW cost \in Costs, NEW d \in Texts, ModelWrites(p, cost, d)
      PROVE  ContentInv'
  BY <1>6, ModelWritesInv
<1>7. CASE UNCHANGED <<vars, content>>
  BY <1>7 DEF ContentInv, Accepted, Returned, vars, content
<1> QED
  BY <1>1, <1>2, <1>3, <1>4, <1>5, <1>6, <1>7 DEF ContentNext

THEOREM ContentInvariance == ContentSpec => []ContentInv
BY ContentInitInv, ContentNextInv, PTL DEF ContentSpec

\* A request of a known origin and with a recipient that the API refuses has no
\* invoice that the generator would chase.
THEOREM NoChaseableIsRefused == ContentSpec => []NoChaseableRequestIsRefused
<1>1. ASSUME ContentInv PROVE NoChaseableRequestIsRefused
  <2>1. SUFFICES ASSUME admission = "refused", mail.lineage, HasValidRecipient(mail),
                        NEW o \in Candidates(mail)
                 PROVE  FALSE
    BY DEF NoChaseableRequestIsRefused
  <2>2. ~IsValid(mail)
    BY <1>1, <2>1 DEF ContentInv
  <2>3. CurrentContract(mail) /\ ~PassesValidation(o, mail)
    BY <2>1, <2>2 DEF IsValid, Candidates
  <2> QED
    BY <2>3 DEF Candidates, UpstreamAllows, PassesValidation
<1> QED
  BY <1>1, ContentInvariance, PTL

\* Where the lane and the selected invoices differ, no accepted draft states a total.
THEOREM NoDisputedTotal == ContentSpec => []NoTotalWhenSourcesDiffer
<1>1. ASSUME ContentInv PROVE NoTotalWhenSourcesDiffer
  <2>1. SUFFICES ASSUME Accepted, ~mail.closure, LaneDigits(mail) # {},
                        NEW n \in Figures(text, {"total"})
                 PROVE  mail.lane.outstanding - ScopedTotal(mail) \in -1..1
    BY DEF NoTotalWhenSourcesDiffer
  <2>2. NumericalConsistency(text, mail) /\ LaneScope(text, mail)
    BY <1>1, <2>1, NothingBlocks DEF ContentInv
  <2>3. n \in Figures(text, {"total", "owed"}) /\ n \in Figures(text, {"total", "subtotal"})
    BY DEF Figures
  <2>4. n - ScopedTotal(mail) \in -1..1
    BY <2>1, <2>2, <2>3 DEF NumericalConsistency, TotalsMatch
  <2>5. n = mail.lane.outstanding
    BY <2>1, <2>2, <2>3 DEF LaneScope
  <2> QED
    BY <2>4, <2>5
<1> QED
  BY <1>1, ContentInvariance, PTL

\* No accepted collection draft asks for what is disputed, or names what is withheld.
THEOREM WithheldAreLeftAlone == ContentSpec => []WithheldInvoicesAreLeftAlone
<1>1. ASSUME ContentInv PROVE WithheldInvoicesAreLeftAlone
  <2>1. SUFFICES ASSUME Accepted, ~mail.closure
                 PROVE  /\ \A o \in mail.obligations, s \in text.sentences :
                             HasSourceDispute(o) /\ Chases(s) => ~MentionsRef(s, o.ref)
                        /\ Candidates(mail) # {} =>
                             Spelled(text, {"invoice"}) \cap InvoiceDigits(Withheld(mail)) = {}
    BY DEF WithheldInvoicesAreLeftAlone
  <2>2. UngroundedFacts(text, mail) = {} /\ LaneScope(text, mail)
    BY <1>1, <2>1, NothingBlocks DEF ContentInv
  <2>3. DisputesNotChased(text, mail)
    <3>1. "source-disputed" \notin UngroundedFacts(text, mail)
      BY <2>2
    <3> QED
      BY <2>1, <3>1 DEF UngroundedFacts
  <2>4. ASSUME Candidates(mail) # {}
        PROVE  Spelled(text, {"invoice"}) \cap InvoiceDigits(Withheld(mail)) = {}
    <3>1. LaneDigits(mail) # {}
      BY <2>4 DEF LaneDigits, InvoiceDigits
    <3> QED
      BY <2>2, <3>1 DEF LaneScope
  <2> QED
    BY <2>3, <2>4 DEF DisputesNotChased
<1> QED
  BY <1>1, ContentInvariance, PTL

\* While the policy judge cannot be asked, no accepted draft commits to what the
\* policies do not allow; a legal threat needs the policy whatever the judge says.
THEOREM OutageNeverCommits == ContentSpec => []OutageDoesNotCommit
<1>1. ASSUME ContentInv PROVE OutageDoesNotCommit
  <2>1. SUFFICES ASSUME Accepted
                 PROVE  /\ judgement = "error" => PlainCommitments(text, mail) = {}
                        /\ SaysItself(text, {"legal proceedings"}) =>
                             "legal_escalation" \in mail.policies
    BY DEF OutageDoesNotCommit
  <2>2. PolicyGrounding(text, mail, judgement) /\ ToneClamping(text, mail)
    BY <1>1, <2>1, NothingBlocks DEF ContentInv
  <2>3. judgement = "error" => PlainCommitments(text, mail) = {}
    BY <2>2 DEF PolicyGrounding
  <2>4. SaysItself(text, {"legal proceedings"}) => SaysItself(text, LegalPressure)
    BY DEF SaysItself, LegalPressure
  <2> QED
    BY <2>2, <2>3, <2>4 DEF ToneClamping
<1> QED
  BY <1>1, ContentInvariance, PTL

-----------------------------------------------------------------------------
(* The fixed body                                                          *)

\* What the guardrails find in the fixed body: three phrases, and no fact.
LEMMA FixedTextFacts ==
  /\ \A s \in FixedText.sentences :
       /\ s.mentions = {} /\ s.figures = {} /\ s.dates = {} /\ s.quoted = FALSE
       /\ s.words \subseteq {"when payment", "help", "thank"}
  /\ \E s \in FixedText.sentences : "thank" \in s.words
  /\ FixedText.placeholders = {"{INVOICE_TABLE}"} /\ FixedText.opening = "Hello"
  /\ FixedText.signedBy = "none" /\ FixedText.addresses = {} /\ FixedText.replyTo = "none"
  /\ FixedText.subject = {}
<1>1. FixedText.sentences = {Plain({"when payment"}), Plain({"help"}), Plain({"thank"})}
  BY DEF FixedText, NoText
<1>2. ASSUME NEW w \in SUBSET {"when payment", "help", "thank"}
      PROVE  /\ Plain(w).mentions = {} /\ Plain(w).figures = {} /\ Plain(w).dates = {}
             /\ Plain(w).quoted = FALSE /\ Plain(w).words = w
  BY DEF Plain
<1>3. \A s \in FixedText.sentences :
        \E w \in SUBSET {"when payment", "help", "thank"} : s = Plain(w)
  <2>1. {{"when payment"}, {"help"}, {"thank"}} \subseteq SUBSET {"when payment", "help", "thank"}
    OBVIOUS
  <2> QED
    BY <1>1, <2>1
<1>4. ASSUME NEW s \in FixedText.sentences
      PROVE  /\ s.mentions = {} /\ s.figures = {} /\ s.dates = {} /\ s.quoted = FALSE
             /\ s.words \subseteq {"when payment", "help", "thank"}
  <2>1. PICK w \in SUBSET {"when payment", "help", "thank"} : s = Plain(w)
    BY <1>3
  <2>2. s.words = w
    BY <1>2, <2>1
  <2>3. s.mentions = {} /\ s.figures = {} /\ s.dates = {} /\ s.quoted = FALSE
    BY <1>2, <2>1
  <2> QED
    BY <2>2, <2>3
<1>5. Plain({"thank"}) \in FixedText.sentences /\ "thank" \in Plain({"thank"}).words
  BY <1>1 DEF Plain
<1>6. /\ FixedText.placeholders = {"{INVOICE_TABLE}"} /\ FixedText.opening = "Hello"
      /\ FixedText.signedBy = "none" /\ FixedText.addresses = {} /\ FixedText.replyTo = "none"
      /\ FixedText.subject = {}
  BY DEF FixedText, NoText
<1> QED
  BY <1>6, <1>4, <1>5

LEMMA FixedTextSays ==
  /\ \A kinds : Figures(FixedText, kinds) = {}
  /\ \A forms : Spelled(FixedText, forms) = {}
  /\ OwnWords(FixedText) \subseteq {"when payment", "help", "thank"}
  /\ Words(FixedText) \subseteq {"when payment", "help", "thank"}
  /\ "thank" \in OwnWords(FixedText)
  /\ \A s \in FixedText.sentences : \A ref : ~MentionsRef(s, ref)
<1>1. ASSUME NEW kinds, NEW n \in Figures(FixedText, kinds) PROVE FALSE
  <2>1. PICK s \in FixedText.sentences : n \in {f.value : f \in {x \in s.figures : x.as \in kinds}}
    BY DEF Figures
  <2> QED
    BY <2>1, FixedTextFacts
<1>2. ASSUME NEW forms, NEW n \in Spelled(FixedText, forms) PROVE FALSE
  <2>1. PICK s \in FixedText.sentences : n \in {m.digits : m \in {x \in s.mentions : x.form \in forms}}
    BY DEF Spelled
  <2> QED
    BY <2>1, FixedTextFacts
<1>3. ASSUME NEW w \in Words(FixedText) PROVE w \in {"when payment", "help", "thank"}
  <2>1. PICK s \in FixedText.sentences : w \in s.words
    BY DEF Words
  <2> QED
    BY <2>1, FixedTextFacts
<1>4. OwnWords(FixedText) = Words(FixedText) /\ "thank" \in Words(FixedText)
  BY FixedTextFacts DEF OwnWords, Words
<1>5. \A s \in FixedText.sentences : \A ref : ~MentionsRef(s, ref)
  BY FixedTextFacts DEF MentionsRef
<1> QED
  BY <1>1, <1>2, <1>3, <1>4, <1>5

\* A request with invoices to chase, of a tone that is known: nothing in the fixed
\* body can offend a guardrail on facts, scope, identity, words or tone.
LEMMA FixedTextPasses ==
  ASSUME NEW r, NEW policy, ~r.skip, ~r.closure, r.tone # "none"
  PROVE  Blockers(FixedText, r, policy) \subseteq {"promise_reply", "policy_grounding"}
<1>1. Placeholders(FixedText, r)
  BY FixedTextFacts DEF Placeholders, AllowedPlaceholders
<1>2. UngroundedFacts(FixedText, r) = {}
  <2>1. InvoicesExist(FixedText, r) /\ AmountsGrounded(FixedText, r)
    BY FixedTextSays DEF InvoicesExist, AmountsGrounded
  <2>2. DisputesNotChased(FixedText, r) /\ ResolvedNotMentioned(FixedText, r)
    BY FixedTextSays DEF DisputesNotChased, ResolvedNotMentioned
  <2>3. ProcurementGrounded(FixedText, r)
    BY FixedTextFacts DEF ProcurementGrounded
  <2>4. \A s \in FixedText.sentences : OutreachGrounded(s, r)
    BY FixedTextFacts DEF OutreachGrounded, OutreachWords
  <2> QED
    BY <2>1, <2>2, <2>3, <2>4 DEF UngroundedFacts
<1>3. NumericalConsistency(FixedText, r)
  BY FixedTextSays DEF NumericalConsistency, TotalsMatch, DaysMatch
<1>4. LaneScope(FixedText, r)
  BY FixedTextSays DEF LaneScope
<1>5. ToneClamping(FixedText, r)
  BY FixedTextSays
     DEF ToneClamping, SaysItself, LegalPressure, SoftPressure, PaymentPressure, AcknowledgementCues
<1>6. IdentityScope(FixedText, r)
  BY FixedTextFacts DEF IdentityScope
<1>7. OverdueTerminology(FixedText, r)
  BY FixedTextFacts, FixedTextSays DEF OverdueTerminology, Says
<1> QED
  BY <1>1, <1>2, <1>3, <1>4, <1>5, <1>6, <1>7 DEF Blockers

\* Wherever the fixed body is tried, only a date that the debtor has named, or the
\* policy judge, can still block it.
THEOREM FixedBodyStandsAChance == ContentSpec => []FixedBodyIsAdmissible
<1>1. ASSUME ContentInv PROVE FixedBodyIsAdmissible
  <2>1. SUFFICES ASSUME FixedBodyAllowed(request, modelVerdict), NEW j \in Judgements
                 PROVE  Blockers(FixedText, mail, j) \subseteq {"promise_reply", "policy_grounding"}
    BY DEF FixedBodyIsAdmissible
  <2>2. ~mail.skip /\ ~mail.closure /\ mail.tone # "none"
    BY <1>1, <2>1, RequestsAssumption DEF ContentInv, FixedBodyAllowed, RequiresTable, KindOf
  <2> QED
    BY <2>2, FixedTextPasses
<1> QED
  BY <1>1, ContentInvariance, PTL

-----------------------------------------------------------------------------
(* A draft for every request                                               *)

\* What the guardrails find in the courteous text.
LEMMA CourteousFacts ==
  ASSUME NEW r
  PROVE  LET d == Courteous(r)
         IN /\ \A s \in d.sentences :
                 /\ s.mentions = {} /\ s.figures = {} /\ s.dueDates = {} /\ s.quoted = FALSE
                 /\ s.words \in {{"thank"}, {"help"}, {"dispute"}, {"promise"}}
            /\ \A w \in {"thank", "help", "dispute", "promise"} :
                 \E s \in d.sentences : w \in s.words
            /\ \E s \in d.sentences : s.dates = PromiseDates(r)
            /\ d.placeholders = IF r.skip \/ r.closure THEN {} ELSE {"{INVOICE_TABLE}"}
            /\ d.opening = "Hello" /\ d.signedBy = "none" /\ d.addresses = {}
            /\ d.replyTo = "none" /\ d.subject = {}
<1> DEFINE d == Courteous(r)
           promise == [Plain({"promise"}) EXCEPT !.dates = PromiseDates(r)]
<1>1. d.sentences = {Plain({"thank"}), Plain({"help"}), Plain({"dispute"}), promise}
  BY DEF Courteous, NoText
<1>2. ASSUME NEW w
      PROVE  /\ Plain(w).mentions = {} /\ Plain(w).figures = {} /\ Plain(w).dueDates = {}
             /\ Plain(w).quoted = FALSE /\ Plain(w).words = w
  BY DEF Plain
<1>3. /\ promise.mentions = {} /\ promise.figures = {} /\ promise.dueDates = {}
      /\ promise.quoted = FALSE /\ promise.words = {"promise"}
      /\ promise.dates = PromiseDates(r)
  BY DEF Plain
<1>4. /\ d.placeholders = IF r.skip \/ r.closure THEN {} ELSE {"{INVOICE_TABLE}"}
      /\ d.opening = "Hello" /\ d.signedBy = "none" /\ d.addresses = {}
      /\ d.replyTo = "none" /\ d.subject = {}
  BY DEF Courteous, NoText
<1> HIDE DEF d, promise
<1>5. ASSUME NEW s \in d.sentences
      PROVE  /\ s.mentions = {} /\ s.figures = {} /\ s.dueDates = {} /\ s.quoted = FALSE
             /\ s.words \in {{"thank"}, {"help"}, {"dispute"}, {"promise"}}
  <2>1. CASE s = promise
    BY <1>3, <2>1
  <2>2. ASSUME NEW w \in {{"thank"}, {"help"}, {"dispute"}}, s = Plain(w)
        PROVE  /\ s.mentions = {} /\ s.figures = {} /\ s.dueDates = {} /\ s.quoted = FALSE
               /\ s.words = w
    BY <1>2, <2>2
  <2> QED
    BY <1>1, <2>1, <2>2
<1>6. ASSUME NEW w \in {"thank", "help", "dispute", "promise"}
      PROVE  \E s \in d.sentences : w \in s.words
  <2>1. CASE w = "promise"
    BY <1>1, <1>3, <2>1
  <2>2. CASE w # "promise"
    <3>1. Plain({w}) \in d.sentences /\ Plain({w}).words = {w}
      BY <1>1, <1>2, <2>2
    <3> QED
      BY <3>1
  <2> QED
    BY <2>1, <2>2
<1> QED
  BY <1>1, <1>3, <1>4, <1>5, <1>6 DEF d

LEMMA CourteousSays ==
  ASSUME NEW r
  PROVE  LET d == Courteous(r)
         IN /\ \A kinds : Figures(d, kinds) = {}
            /\ \A forms : Spelled(d, forms) = {}
            /\ Words(d) = {"thank", "help", "dispute", "promise"} /\ OwnWords(d) = Words(d)
            /\ \A s \in d.sentences : \A ref : ~MentionsRef(s, ref)
<1> DEFINE d == Courteous(r)
<1>1. ASSUME NEW s \in d.sentences
      PROVE  /\ s.mentions = {} /\ s.figures = {} /\ s.quoted = FALSE
             /\ s.words \in {{"thank"}, {"help"}, {"dispute"}, {"promise"}}
  BY CourteousFacts
<1>2. ASSUME NEW w \in {"thank", "help", "dispute", "promise"}
      PROVE  \E s \in d.sentences : w \in s.words
  BY CourteousFacts
<1> HIDE DEF d
<1>3. ASSUME NEW kinds, NEW n \in Figures(d, kinds) PROVE FALSE
  <2>1. PICK s \in d.sentences : n \in {f.value : f \in {x \in s.figures : x.as \in kinds}}
    BY DEF Figures
  <2> QED
    BY <1>1, <2>1
<1>4. ASSUME NEW forms, NEW n \in Spelled(d, forms) PROVE FALSE
  <2>1. PICK s \in d.sentences : n \in {m.digits : m \in {x \in s.mentions : x.form \in forms}}
    BY DEF Spelled
  <2> QED
    BY <1>1, <2>1
<1>5. ASSUME NEW w PROVE w \in Words(d) <=> w \in {"thank", "help", "dispute", "promise"}
  <2>1. w \in Words(d) <=> \E s \in d.sentences : w \in s.words
    BY DEF Words
  <2> QED
    BY <1>1, <1>2, <2>1
<1>6. {s \in d.sentences : ~s.quoted} = d.sentences
  BY <1>1
<1>7. OwnWords(d) = Words(d)
  BY <1>6 DEF OwnWords, Words
<1>8. \A s \in d.sentences : \A ref : ~MentionsRef(s, ref)
  BY <1>1 DEF MentionsRef
<1> QED
  BY <1>3, <1>4, <1>5, <1>7, <1>8 DEF d

\* No guardrail has anything to say against it, content or unreachable as the two
\* judges may be.
LEMMA CourteousPasses ==
  ASSUME NEW r, r.tone # "none"
  PROVE  /\ \A j \in {"none", "error"} : Blockers(Courteous(r), r, j) = {}
         /\ \A c \in {"coherent", "error"} : Warnings(Courteous(r), r, c) = {}
<1> DEFINE d == Courteous(r)
<1>1. Placeholders(d, r)
  BY CourteousFacts DEF Placeholders, AllowedPlaceholders
<1>2. UngroundedFacts(d, r) = {}
  <2>1. InvoicesExist(d, r) /\ AmountsGrounded(d, r)
    BY CourteousSays DEF InvoicesExist, AmountsGrounded
  <2>2. DisputesNotChased(d, r) /\ ResolvedNotMentioned(d, r)
    BY CourteousSays DEF DisputesNotChased, ResolvedNotMentioned
  <2>3. \A s \in d.sentences : s.words \in {{"thank"}, {"help"}, {"dispute"}, {"promise"}}
    BY CourteousFacts
  <2>4. ProcurementGrounded(d, r)
    <3>1. \A w \in {"purchase order", "delivery note", "procurement process", "approval workflow"} :
            ~(\E s \in d.sentences : w \in s.words)
      BY <2>3
    <3> HIDE DEF d
    <3> QED
      BY <3>1 DEF ProcurementGrounded
  <2>5. ASSUME NEW s \in d.sentences PROVE OutreachGrounded(s, r)
    <3>1. s.words \subseteq {"thank", "help", "dispute", "promise"}
      BY <2>3
    <3>2. s.words \cap OutreachWords = {} /\ "today" \notin s.words
      BY <3>1 DEF OutreachWords
    <3> QED
      BY <3>2 DEF OutreachGrounded
  <2> QED
    BY <2>1, <2>2, <2>4, <2>5 DEF UngroundedFacts
<1>3. NumericalConsistency(d, r)
  BY CourteousSays DEF NumericalConsistency, TotalsMatch, DaysMatch
<1>4. LaneScope(d, r)
  BY CourteousSays DEF LaneScope
<1>5. ToneClamping(d, r)
  BY CourteousSays
     DEF ToneClamping, SaysItself, LegalPressure, SoftPressure, PaymentPressure, AcknowledgementCues
<1>6. IdentityScope(d, r)
  BY CourteousFacts DEF IdentityScope
<1>7. OverdueTerminology(d, r)
  BY CourteousFacts, CourteousSays DEF OverdueTerminology, Says
<1>8. PromiseReply(d, r)
  <2>1. ~Says(d, {"when payment"})
    BY CourteousSays DEF Says
  <2>2. PICK s \in d.sentences : s.dates = PromiseDates(r)
    BY CourteousFacts
  <2> QED
    BY <2>1, <2>2 DEF PromiseReply
<1>9. \A j \in {"none", "error"} : PolicyGrounding(d, r, j)
  <2>1. ASSUME NEW p \in Policies PROVE ~Says(d, StrictPhrases[p])
    <3>1. StrictPhrases[p] \subseteq {"legal proceedings", "statutory interest", "10% discount",
                                     "settle for"}
      <4>1. /\ StrictPhrases["legal_escalation"] = {"legal proceedings"}
            /\ StrictPhrases["statutory_interest"] = {"statutory interest"}
            /\ StrictPhrases["discount"] = {"10% discount"}
            /\ StrictPhrases["settlement"] = {"settle for"}
        BY DEF StrictPhrases
      <4> QED
        BY <4>1 DEF Policies
    <3>2. Words(d) = {"thank", "help", "dispute", "promise"}
      BY CourteousSays
    <3> HIDE DEF d
    <3> QED
      BY <3>1, <3>2 DEF Says
  <2>2. PlainCommitments(d, r) = {}
    BY <2>1 DEF PlainCommitments, Unauthorised
  <2>3. "none" \notin Unauthorised(r)
    BY DEF Unauthorised, Policies
  <2> QED
    BY <2>2, <2>3 DEF PolicyGrounding
<1> HIDE DEF d
<1>10. ASSUME NEW j \in {"none", "error"} PROVE Blockers(d, r, j) = {}
  BY <1>1, <1>2, <1>3, <1>4, <1>5, <1>6, <1>7, <1>8, <1>9 DEF Blockers
<1>11. TemporalConsistency(d, r)
  <2>1. \A s \in d.sentences : s.dueDates = {}
    BY CourteousFacts DEF d
  <2> QED
    BY <2>1 DEF TemporalConsistency
<1>12. ForbiddenContent(d, r)
  BY CourteousSays DEF ForbiddenContent, Says, d
<1>13. ContextualCoherence(d, r)
  <2>1. /\ Words(d) = {"thank", "help", "dispute", "promise"}
        /\ \A forms : Spelled(d, forms) = {}
    BY CourteousSays DEF d
  <2>2. DisputeAware(d) /\ HardshipAware(d) /\ HistoryAware(d)
    BY <2>1 DEF DisputeAware, HardshipAware, HistoryAware, Says
  <2>3. NoPaidInvoiceChase(d, r)
    BY <2>1 DEF NoPaidInvoiceChase
  <2> QED
    BY <2>2, <2>3 DEF ContextualCoherence
<1>14. ASSUME NEW c \in {"coherent", "error"} PROVE Warnings(d, r, c) = {}
  BY <1>11, <1>12, <1>13 DEF Warnings, SemanticCoherence
<1> QED
  BY <1>10, <1>14 DEF d

\* No request is hopeless: there is always a text that satisfies all thirteen
\* guardrails, while the judges are content or cannot be asked.
THEOREM NoRequestIsHopeless == ContentSpec => []SomeDraftSatisfiesAll
<1>1. ASSUME ContentInv PROVE SomeDraftSatisfiesAll
  <2>1. mail.tone # "none" /\ Courteous(mail) \in Texts
    BY <1>1, RequestsAssumption, TextsAssumption DEF ContentInv
  <2>2. RequiresTable(request) => HasTable(Courteous(mail))
    BY <1>1, CourteousFacts DEF ContentInv, RequiresTable, KindOf, HasTable
  <2> QED
    BY <2>1, <2>2, CourteousPasses DEF SomeDraftSatisfiesAll
<1> QED
  BY <1>1, ContentInvariance, PTL
=============================================================================
