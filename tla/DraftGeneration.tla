--------------------------- MODULE DraftGeneration ---------------------------
(***************************************************************************)
(* DraftGenerator.generate (src/engine/generator.py): ask the model for a  *)
(* draft, have the guardrails judge it, and ask again with feedback while  *)
(* they block it; when the attempts are used up a fixed, fact-free body    *)
(* may take the place of a draft that was blocked for its prose alone.     *)
(*                                                                         *)
(* The generator keeps no state between requests, so one request at a time *)
(* is modelled.  The only await is the model call: all that the code does  *)
(* from an answer to the next call, or to the end, is one action.          *)
(*                                                                         *)
(* The guardrails enter by what GuardrailVerdict promises of them: they    *)
(* block a draft when the set of guardrails that object is not empty.      *)
(***************************************************************************)
EXTENDS Integers

CONSTANTS
  Guardrails,      \* the names of the guardrails
  FactualGrounding,\* the one whose objections the fixed body can answer
  MaxRetries,      \* settings.max_guardrail_retries
  Costs            \* the tokens that a model call or a guardrail run may use

ASSUME GuardrailsAssumption == FactualGrounding \in Guardrails
ASSUME MaxRetriesAssumption == MaxRetries \in Nat
ASSUME CostsAssumption == Costs \subseteq Nat

Attempts == 0..MaxRetries

\* A draft is known by the attempt that produced it; the fixed body comes after.
Nothing == -1
FixedBody == MaxRetries + 1
Drafts == Attempts \cup {Nothing, FixedBody}

\* What the code reads of a GenerateDraftRequest: whether its schema_version is the
\* current one, skip_invoice_table, closure_mode, trigger_classification, whether the
\* policy forbids e-mail chasing, and whether any obligation can be chased.
RequestKinds ==
  [current : BOOLEAN, skip : BOOLEAN, closure : BOOLEAN, trigger : BOOLEAN,
   forbidden : BOOLEAN, candidates : BOOLEAN]

\* A GuardrailPipelineResult: the draft it judges, the guardrails that block,
\* whether a blocking message names a constraint that no prose can answer
\* (source dispute, procurement, closed history), and the tokens of the run.
VerdictsOn(d) ==
  [of : {d}, blocking : SUBSET Guardrails, unanswerable : BOOLEAN, cost : Costs]
Verdicts ==
  [of : Drafts, blocking : SUBSET Guardrails, unanswerable : BOOLEAN, cost : Costs \cup {0}]
NoVerdict == [of |-> Nothing, blocking |-> {}, unanswerable |-> FALSE, cost |-> 0]

Blocking(v) == v.blocking # {}

\* Feedback for the next attempt: what about, and on which attempt.
NoFeedback == [kind |-> "none", on |-> Nothing]
Feedback(kind, d) == [kind |-> kind, on |-> d]

Providers == {"primary", "fallback"}
Raises == {"ValueError", "LLMError", "JSONDecodeError", "LLMResponseInvalidError"}

VARIABLES
  phase,       \* "idle", or "calling" while the model call is awaited
  request,     \* the request being served
  attempt,     \* the loop variable
  feedback,    \* guardrail_feedback
  draft,       \* result: which draft is held
  hasTable,    \* its body holds {INVOICE_TABLE}
  verdict,     \* guardrail_result
  modelVerdict,\* history: the last verdict on a draft of the model
  provider,    \* response.provider of the last answer
  calls,       \* tokens.main_attempts
  tokens,      \* tokens.total and tokens.main_total
  outcome      \* how the last request ended: "returned", or what it raised

vars == <<phase, request, attempt, feedback, draft, hasTable, verdict, modelVerdict,
          provider, calls, tokens, outcome>>

None == "none"

TypeOK ==
  /\ phase \in {"idle", "calling"}
  /\ request \in RequestKinds
  /\ attempt \in Attempts
  /\ feedback \in [kind : {"none", "table", "guardrails"}, on : Attempts \cup {Nothing}]
  /\ draft \in Drafts
  /\ hasTable \in BOOLEAN
  /\ verdict \in Verdicts
  /\ modelVerdict \in Verdicts
  /\ provider \in Providers
  /\ calls \in 0..(MaxRetries + 1)
  /\ tokens \in [total : Nat, main : Nat]
  /\ outcome \in Raises \cup {None, "returned"}

Init ==
  /\ phase = "idle"
  /\ request \in RequestKinds
  /\ attempt = 0
  /\ feedback = NoFeedback
  /\ draft = Nothing
  /\ hasTable = FALSE
  /\ verdict = NoVerdict
  /\ modelVerdict = NoVerdict
  /\ provider = "primary"
  /\ calls = 0
  /\ tokens = [total |-> 0, main |-> 0]
  /\ outcome = None

-----------------------------------------------------------------------------
(* Conditions of the code                                                  *)

\* _policy_blocks_ai_email_chase, and the check that opens _assemble_prompt.
Refused(q) ==
  \/ q.forbidden /\ ~q.closure /\ ~q.trigger
  \/ q.current /\ ~q.candidates /\ ~q.skip /\ ~q.closure

\* requires_invoice_table
RequiresTable(q) == ~q.skip /\ ~q.closure /\ q.candidates

\* Faulty variants (a name ending in Mutant) are not part of the model: each is
\* a bug the next definition could have, which a property must tell apart.
FixedBodyAllowedOverlapMutant(q, v) ==
  /\ RequiresTable(q)
  /\ FactualGrounding \in v.blocking
  /\ ~v.unanswerable

FixedBodyAllowedInRepliesMutant(q, v) ==
  /\ q.candidates
  /\ v.blocking = {FactualGrounding}

\* _can_use_deterministic_collection_fallback
FixedBodyAllowed(q, v) ==
  /\ RequiresTable(q)
  /\ v.blocking = {FactualGrounding}
  /\ ~v.unanswerable

-----------------------------------------------------------------------------
(* What the steps are made of                                              *)

\* The model answered: count its tokens, and those of the guardrail runs.
Answered(p, cost, judging) ==
  /\ provider' = p
  /\ calls' = calls + 1
  /\ tokens' = [total |-> tokens.total + cost + judging, main |-> tokens.main + cost]

End(o) == phase' = "idle" /\ outcome' = o /\ UNCHANGED <<request, attempt, feedback>>

RetryKeepsFeedbackMutant(f) ==
  /\ attempt < MaxRetries
  /\ attempt' = attempt + 1
  /\ feedback' = IF feedback = NoFeedback THEN f ELSE feedback
  /\ UNCHANGED <<phase, request, outcome>>

\* The next iteration of the loop, up to the await of its model call.
Retry(f) ==
  /\ attempt < MaxRetries
  /\ attempt' = attempt + 1
  /\ feedback' = f
  /\ UNCHANGED <<phase, request, outcome>>

\* The draft of this attempt is held, and the guardrails have judged it.
Judged(table, v) ==
  /\ v \in VerdictsOn(attempt)
  /\ draft' = attempt
  /\ hasTable' = table
  /\ verdict' = v
  /\ modelVerdict' = v

-----------------------------------------------------------------------------
(* Actions                                                                 *)

\* generate() is entered.
Ask(q) ==
  /\ phase = "idle"
  /\ request' = q
  /\ attempt' = 0
  /\ feedback' = NoFeedback
  /\ draft' = Nothing
  /\ hasTable' = FALSE
  /\ verdict' = NoVerdict
  /\ modelVerdict' = NoVerdict
  /\ calls' = 0
  /\ tokens' = [total |-> 0, main |-> 0]
  /\ phase' = IF Refused(q) THEN "idle" ELSE "calling"
  /\ outcome' = IF Refused(q) THEN "ValueError" ELSE None
  /\ UNCHANGED provider

\* complete() raises: the request ends with its error.
CallFails ==
  /\ phase = "calling"
  /\ End("LLMError")
  /\ UNCHANGED <<draft, hasTable, verdict, modelVerdict, provider, calls, tokens>>

\* The answer is not JSON, or not a DraftGenerationLLMResponse.
AnswerIsMalformed(p, cost) ==
  /\ phase = "calling"
  /\ Answered(p, cost, 0)
  /\ \E e \in {"JSONDecodeError", "LLMResponseInvalidError"} : End(e)
  /\ UNCHANGED <<draft, hasTable, verdict, modelVerdict>>

AnswerOmitsTableKeepsGoingMutant(p, cost) ==
  /\ phase = "calling"
  /\ RequiresTable(request)
  /\ Answered(p, cost, 0)
  /\ draft' = attempt
  /\ hasTable' = FALSE
  /\ \/ Retry(Feedback("table", attempt))
     \/ attempt = MaxRetries /\ End("returned")
  /\ UNCHANGED <<verdict, modelVerdict>>

\* The body lacks the {INVOICE_TABLE} that the request needs; the guardrails
\* are not asked, so verdict is still the one on an earlier attempt.
AnswerOmitsTable(p, cost) ==
  /\ phase = "calling"
  /\ RequiresTable(request)
  /\ Answered(p, cost, 0)
  /\ draft' = attempt
  /\ hasTable' = FALSE
  /\ \/ Retry(Feedback("table", attempt))
     \/ attempt = MaxRetries /\ End("LLMResponseInvalidError")
  /\ UNCHANGED <<verdict, modelVerdict>>

\* The guardrails do not block.
AnswerIsAccepted(p, cost, table, v) ==
  /\ phase = "calling"
  /\ RequiresTable(request) => table
  /\ ~Blocking(v)
  /\ Judged(table, v)
  /\ Answered(p, cost, v.cost)
  /\ End("returned")

\* They block, and attempts remain.
AnswerIsRetried(p, cost, table, v) ==
  /\ phase = "calling"
  /\ RequiresTable(request) => table
  /\ Blocking(v)
  /\ Judged(table, v)
  /\ Answered(p, cost, v.cost)
  /\ Retry(Feedback("guardrails", attempt))

\* They block the last attempt, and the fixed body cannot help: the blocked
\* draft is returned, with its verdict.
AnswerIsReturnedBlocked(p, cost, table, v) ==
  /\ phase = "calling"
  /\ attempt = MaxRetries
  /\ RequiresTable(request) => table
  /\ Blocking(v)
  /\ ~FixedBodyAllowed(request, v)
  /\ Judged(table, v)
  /\ Answered(p, cost, v.cost)
  /\ End("returned")

FixedBodyIsTriedKeepsVerdictMutant(p, cost, v, w) ==
  /\ phase = "calling"
  /\ attempt = MaxRetries
  /\ v \in VerdictsOn(attempt)
  /\ w \in VerdictsOn(FixedBody)
  /\ FixedBodyAllowed(request, v)
  /\ modelVerdict' = v
  /\ hasTable' = TRUE
  /\ verdict' = v
  /\ draft' = IF Blocking(w) THEN attempt ELSE FixedBody
  /\ Answered(p, cost, v.cost + w.cost)
  /\ End("returned")

\* They block the last attempt for its prose alone: the fixed body is judged
\* by all the guardrails in turn, and replaces the draft if none blocks it.
FixedBodyIsTried(p, cost, v, w) ==
  /\ phase = "calling"
  /\ attempt = MaxRetries
  /\ v \in VerdictsOn(attempt)
  /\ w \in VerdictsOn(FixedBody)
  /\ FixedBodyAllowed(request, v)
  /\ modelVerdict' = v
  /\ hasTable' = TRUE
  /\ IF Blocking(w) THEN draft' = attempt   /\ verdict' = v
                    ELSE draft' = FixedBody /\ verdict' = w
  /\ Answered(p, cost, v.cost + w.cost)
  /\ End("returned")

Answer ==
  \E p \in Providers, cost \in Costs :
    \/ AnswerIsMalformed(p, cost)
    \/ AnswerOmitsTable(p, cost)
    \/ \E table \in BOOLEAN, v \in VerdictsOn(attempt) :
         \/ AnswerIsAccepted(p, cost, table, v)
         \/ AnswerIsRetried(p, cost, table, v)
         \/ AnswerIsReturnedBlocked(p, cost, table, v)
    \/ \E v \in VerdictsOn(attempt), w \in VerdictsOn(FixedBody) :
         FixedBodyIsTried(p, cost, v, w)

Next ==
  \/ \E q \in RequestKinds : Ask(q)
  \/ CallFails
  \/ Answer

Spec == Init /\ [][Next]_vars

-----------------------------------------------------------------------------
(* Properties                                                              *)

Returned == phase = "idle" /\ outcome = "returned"

\* The validation summary of a response is about the body it comes with, even
\* after an attempt that the guardrails never saw (result, guardrail_result).
VerdictIsOfDraft == Returned => verdict.of = draft

\* A standard collection draft is never returned without the place for its
\* invoice table, which the backend fills in.
CollectionDraftsHaveTable == Returned /\ RequiresTable(request) => hasTable

\* The fixed body is not a bypass of the guardrails: it replaces only a draft
\* that factual_grounding alone blocked, on the last attempt, for something
\* that prose can answer, and only after the whole suite has passed it.
FixedBodyIsNoBypass ==
  Returned /\ draft = FixedBody =>
    /\ modelVerdict.of = MaxRetries
    /\ modelVerdict.blocking = {FactualGrounding}
    /\ ~modelVerdict.unanswerable
    /\ ~Blocking(verdict)
    /\ ~request.skip /\ ~request.closure

\* A draft that the guardrails block is returned only once the attempts are
\* used up, and in place of the fixed body only if that is blocked too.
BlockedOnlyWhenExhausted ==
  Returned /\ Blocking(verdict) => attempt = MaxRetries /\ draft = MaxRetries

\* Every repeated prompt answers the attempt just before it: feedback of an
\* older attempt is never sent again, and it is about the guardrails exactly
\* when they judged that attempt.
FeedbackIsFresh ==
  phase = "calling" /\ attempt > 0 =>
    /\ feedback.on = attempt - 1
    /\ feedback.on = draft
    /\ (feedback.kind = "guardrails") = (verdict.of = draft /\ Blocking(verdict))

\* A draft is asked for again only when the one before it was blocked or lacked
\* its table: warnings alone never cost another model call.
RetryOnlyForCause ==
  [][phase = "calling" /\ attempt' > attempt =>
       \/ Blocking(verdict') /\ verdict'.of = attempt
       \/ RequiresTable(request) /\ ~hasTable']_vars
=============================================================================
