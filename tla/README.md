# TLA+ models of the Outstanding AI engine

The engine is a FastAPI service that classifies debtors' e-mails and drafts
collection e-mails with language models. It stores nothing: the backend sends a
request, or a manifest of candidates that the engine completes from a regional
data lake through Athena; the engine asks a model, judges the answer with
guardrails, and responds. What makes it hard is therefore not storage but
interleaving at `await`, timeouts that race late answers, failures of one step
among many, reads that are stale when they are used, and loops that ask again.

The modules here model the parts that carry this logic. TLC checks them on small
instances; TLAPS proves their safety for every value of the constants. Paths
below are relative to the repository.

1. [Inventory](#1-inventory)
2. [Modules and how they correspond to the code](#2-modules-and-how-they-correspond-to-the-code)
3. [Runs, bounds and what they show](#3-runs-bounds-and-what-they-show)
4. [Fairness](#4-fairness)
5. [Proofs](#5-proofs)
6. [Disagreements between code and documents](#6-disagreements-between-code-and-documents)
7. [Not modelled, and why](#7-not-modelled-and-why)
8. [Plan](#8-plan)

## 1. Inventory

```
 backend ──HTTP──> routes ──> engine/* ──> LLMProviderWithFallback ──> provider ──> model service
                     │           │               (llm/factory)       (llm/*_provider)
                     │           └──> guardrail_pipeline.validate ──> 6 threads
                     └──> lake/context_hydrator ──> RegionalLakeReader ──> Athena
```

| Component | State it keeps | Operations | What makes it correct |
|---|---|---|---|
| `llm/factory.py` LLMProviderWithFallback | lazily made providers, cooldown per (provider, caller), all shared by every coroutine | `complete`, `health_check` | nobody calls a cooling provider; every cooldown has a cause; a timed request ends; a disabled fallback stays disabled |
| `llm/*_provider.py` | a client per call, the attempt number | `complete` | the client is closed on every way out; a cancellation is not swallowed; the error class says what happened; repeats are bounded and only for faults that pass |
| `guardrails/` pipeline and executor | one thread pool for the process, accumulators of a call | `validate`, parallel or sequential, `fail_fast` | the verdict depends on the answers only, not on the order of threads; an exception blocks; the call ends |
| `engine/generator.py` DraftGenerator | one request's attempt, draft, verdict, feedback, tokens | `generate` | the verdict returned is about the body returned; the invoice table is there; the fixed body is no way round the guardrails; the loop ends |
| `api/routes/generate.py` and `lake/` | a request's candidates, nine reads, results | load, hydrate, draft each, report | only owed invoices that are in scope are chased, once each; one failure costs one candidate; the report covers the manifest |
| `lake/regional_reader.py` | one query's deadline, pages, rows | `execute` | the rows are the result; the wait, and the number of polls, are bounded |
| `llm/aws_ecs_supplier.py` | a cached credential and its expiry, one pair for the process | `get_aws_security_credentials` | a credential from the cache lives as long as the test of its expiry promised, though threads write the pair in two statements |
| thirteen guardrails | none | `validate` | a finding blocks when its severity says so; what an unreachable model does is deliberate; together they leave every request a draft that passes |
| `engine/sent_scope.py` | none | `analyze` | the report agrees with the draft, names only invoices of the request, and needs no review only if every candidate was decided without doubt |
| `engine/manual_note_interpreter.py` | attempt, correction, responses of one note | `interpret` | an accepted note moves only the controls that were selected; every figure is in the note; attempts are bounded and all are paid for in the report |
| `engine/collection_email_event_classifier.py`, `weekly_overdue_report_summarizer.py` | attempt and correction of one request | ask, ground or validate, ask again | every figure is in the words quoted for it; a prompt corrects the answer just refused |
| `engine/document_request_interpreter.py` | none | admission, one call, resolution of references | no document of an invoice the message does not reach |
| `engine/mail_semantic_evidence_v2.py`, `_v3.py` | none | admission, one call, placement of quotes | every amount is in one place of one source; an answer that cannot be grounded is a response that says so |
| `engine/classifier.py` | none | one call, validation, the tenant's calendar | "the next payment run" is given a day by the calendar, another vague time one of its days or none |
| `engine/collection_*`, `historical_*` | none | one model call, validation | each invoice is routed once, to a chain that was offered or to a person |
| `main.py`, `api/middleware.py` | the time of the last request | tracker, idle watchdog, authentication, error handlers | the process stops when nobody calls it, and not under a young request |

How they interact:

- **Coroutines.** One event loop runs every request. A coroutine gives up
  control only at an `await`, so all that happens between two awaits is one
  action. The state several coroutines share is that of the factory object.
- **Threads.** `guardrail_pipeline.validate` is called synchronously from the
  event loop and waits there for the threads of a module-level pool of six: until they have
  answered no coroutine and no timer of the process runs, the idle watchdog included. Two
  guardrails (`policy_grounding`, `semantic_coherence`) call a model from a pool
  thread, each in an event loop of its own, so the provider object and the
  credential supplier are used by several threads.
- **Signals.** The idle watchdog sends the process SIGTERM; the server then lets the
  requests under way go on for a while.
- **Outside writers.** The backend writes to the lake while a manifest is read; and the date
  may change, which makes invoices overdue without any write.
- **Timers.** `asyncio.wait_for` around the provider calls of some callers; the
  deadline of an Athena query; both race the answer they wait for. A call that `wait_for`
  cancels is waited for until it has ended, its close included.

The hazards this leaves are listed, each at its line, in `PROJECT.json`.

## 2. Modules and how they correspond to the code

Every definition that stands for code is listed with its lines in the `map` of
`PROJECT.json`. A definition whose name ends in `Mutant` is not part of a model:
it is a plausible bug of the definition after it, and the property named with it
in `PROJECT.json` is violated when it takes that definition's place.

### LLMFactory

`complete()` and `health_check()` of `LLMProviderWithFallback`, for any number
of requests at once. A request is `idle`, awaits the `primary`, or awaits the
`fallback`. The actions are what happens between two awaits: `StartPrimary`,
`StartRefused` (the pair is cooling: the refusal is raised inside the `try`, so it
is handled like a failure), `StartWithoutPrimary` (it cannot be made),
`PrimaryAnswers`, `PrimaryFails(r, e)` (cooldown, permission, lazy creation of the
fallback, its cooldown, and either its call or the end of the request),
`FallbackAnswers`, `FallbackFails`, `HealthCheck`, `Tick`. A cooldown is stored as
what is left of it rather than as the instant it ends. Creating the fallback ends in one of
three ways: made, disabled for good (the `ValueError` of a missing key), or another exception,
which leaves the request and the fallback unset. `TimeIsUp` is the timer of
`asyncio.wait_for`: it cancels the call, and the request is `cancelling` until that call
has ended, however long its close takes; only then `PrimaryFails` or `FallbackFails` raises
the timeout. `HoldLoop` and `ReleaseLoop` are a run of the guardrails, which holds the event
loop: no other action but `Tick` happens meanwhile, so a timer may run late by any amount.

### ProviderCall

One `complete()` of the Vertex, OpenAI or OpenRouter provider: `called`, `sending`,
`pausing` between two requests, `closing` the client, and `returned` or `raised`. A
fault is what happened at the service (`quota`, `server`, `policy`, `length`, ...); a
sight is how the code sees it (whether the exception is of a class it repeats,
whether its text has the words "length" and "limit"); `VertexError`,
`OpenAIError` and `OpenRouterError` are the exception mappings, with the statuses that each
provider takes for a rejected request: 400 only (OpenAI's `BadRequestError`), 400 and 422
(OpenRouter), any client error (Vertex AI); the others are told as unavailable. `Cancel` and
`CancelClosing` are the cancellation that `wait_for` of the factory sends, at any
await. What the factory sees of a call, an error of `LLMFactory!Errors`, is what
this module's `error` may be.

### GuardrailResults, GuardrailVerdict, GuardrailExecutor

`GuardrailResults` is what a guardrail says (checks, or an exception) and what the
pipeline makes of it. `GuardrailVerdict` is the abstract specification: one call,
one verdict that the answers justify. `GuardrailExecutor` is the code: `Submit`
puts one job per guardrail in the queue, `Take` and `Complete` are the threads,
`Collect` is the body of the `as_completed` loop, `ReturnParallel` the end;
`RunNext`, `RunNextAndStop` (fail-fast) and `ReturnSequential` are the sequential
mode. `Promise == INSTANCE GuardrailVerdict WITH ...` is the refinement mapping:
a call is pending while the executor is not idle, and the verdict's lists are
read as sets.

### DraftGeneration

The attempt loop of `DraftGenerator.generate`. A draft is known by the attempt that
made it, so that "the verdict is about this draft" can be said. The only await is
the model call; each action after it runs to the next call or to the end of the
request: malformed answer, body without the table, accepted, retried, returned
blocked, or replaced by the fixed body, which has a run of the guardrails of its
own. The guardrails enter by what `GuardrailVerdict` promises: the set of those that
block. Tokens are counted in the total and in the share the breakdown reports. A request is
known by the few things the loop reads of it, among them whether its schema version is the
current one: only then is a request without an invoice to chase refused.

### CollectionScope, ConductRules, DraftContent

The loop with the guardrails themselves instead of a set that may object.
`CollectionScope` is what a collection e-mail may be about: the validation of the request
(`IsValid`: lineage, a recipient, an invoice that may be sent), the selection of the invoices to chase (`Candidates`), the dates of proven
outreach, and the guardrails that hold the prose to them (`numerical_consistency`,
`lane_scope`, `factual_grounding`). `ConductRules` is how it may speak: `identity_scope`,
`placeholder_validation`, `overdue_terminology`, `promise_reply`, `tone_clamping`,
`policy_grounding`, `temporal_consistency`, `semantic_coherence`, `contextual_coherence`,
`forbidden_content`. A draft is a set of sentences, each a record of what the patterns of
the code find in it: phrases, invoice numbers with their spelling (the guardrails do not
all see the same spellings), sums, days and dates. The invoice number is a prefix and a number, since the code
compares digits in some places and whole references in others.

`DraftContent` puts text under the loop: it EXTENDS `DraftGeneration`, adds the request as it
came (`mail`), what the API made of it (`admission`), the text that was returned (`text`) and
what the policy judge said of it (`judgement`), and lets each action of the loop happen only
as the text allows: `Refuse` (the API's validation) and `Admit`; `OmitsTable`; `Judge`, where
the verdict of the loop is `VerdictOn` the text the model wrote; and `JudgeFixedBody`, where
the fixed body has its own run of the same guardrails. `Blockers` are the guardrails that
block a text, `Warnings` those that only find fault with it. Of a verdict the loop reads
whether anything blocks and whether `factual_grounding` blocks alone, so that guardrail and
`Another`, which stands for all the rest, are enough to tell the loop. The model may write
any text whatever it was told; the two model-backed guardrails may answer anything, or not
at all. Every behaviour of `DraftContent` is one of `DraftGeneration` (theorem
`ContentImplementsLoop`).

### ManifestRun

`generate_draft_from_manifest`: the handoff is checked (`Reject`), the manifest
loaded, the nine reads of `hydrate_batch` made in order, each answered, skipped,
swallowed or failed (`ReadAnswers`, `ReadIsSkipped`, `ReadIsSwallowed`, `ReadFails`),
the contexts put together (`Hydrate`, `HydrationFails`), and the candidates drafted
in turn. `Chased(c)` is the chain of conditions that decides which invoice rows a
draft asks for: the restriction to named invoices, the first row of each, the list
`sendable_obligation_ids`, which restricts nothing when it is empty (`IsListed`), the
row's own eligibility, and the state of the invoice. Meanwhile `Backend` writes to the
lake: invoices are paid, queried, settled, promised, linked; a lane is retired. In
`compact_only` mode all reads look at one epoch; otherwise each looks at the lake as it is
then. An invoice has the day it is due on, and the read of the obligations compares it with
the date of that moment (`CURRENT_DATE`, kept as `asOf`) in either mode; `DayTurns` is
midnight. `owed` is a history variable: the invoices that the lake this request reads
showed as open and not in query, with the date past their due date, at some moment since
it came.

### AthenaQuery

`RegionalLakeReader.execute`: start, poll, decide, sleep, fetch pages. `Environment`
runs the query and ends it, or not; `Tick` is the clock, and may pass between any
two steps of the reader, since its calls take time. A row is its number and row 0
the header of the first page.

### Interpretation and the eleven services

`Interpretation` is the loop that the interpreters of `engine/` have in common: `Decline` (no
call is needed), `FailEarly`, `Begin`, `ProviderFails`, `ReturnUnavailable`, `Accept`, `Refuse`
(and ask again), `GiveUp`, `ReturnInvalid`. What a service checks of an answer and makes of it is in a module
of rules, instantiated here:

| Service | Module | Code | Attempts |
|---|---|---|---|
| `manual_note` | `ManualNote` | `manual_note_interpreter.py` | `MaxAttempts` |
| `event` | `CollectionEvent` | `collection_email_event_classifier.py` | `MaxAttempts` |
| `weekly` | `WeeklyUpdate` | `weekly_overdue_report_summarizer.py` | `MaxAttempts` |
| `document` | `DocumentRequest` | `document_request_interpreter.py` | 1 |
| `mail` | `MailEvidence` | `mail_semantic_evidence_v2.py`, `_v3.py` | 1 |
| `reply` | `InboundReply` over `CommitmentDates` | `classifier.py` | 1 |
| `sent_scope` | `SentScope` | `sent_scope.py` | 1 |
| `facts`, `identify`, `route`, `history` | `CollectionChain` | `collection_email_fact_extractor.py`, `collection_chain_identifier.py`, `collection_chain_router.py`, `historical_collection_thread_classifier.py` | 1 |

`MessageEvidence` is `_evidence_grounding.py`, which several of them share: a text is how often
each quote occurs in it, a quote the values its words spell out. Which rule an answer breaks
first only decides the words of the correction, so the order of the rules is not modelled;
that the correction is about the answer just refused is (`subject`). `Audited` is the prompt
that a response reports: the one that was answered, except for the weekly report, which hashes
its first prompt without the correction that was sent. `answer` is a history
variable: the answer that was accepted, to which some properties compare the response. `CommitmentDates` is the
tenant's calendar: days are numbers, weeks and months are computed.

`SentScope` reconciles one answer with the request. `Verdict(q, a, r)` is what is made of the
first decision on invoice `r`: none, a repeated one, a contradiction of the draft and a low
confidence each leave a code. `Response` files each invoice under one list, with the codes
that call for review. Numbers are spelled in several ways that `Norm` identifies, and two
candidates may share one; confidences are in percent. An error of the model becomes a
response of this service (`ReturnUnavailable`).

### EcsCredentials, ServiceProcess

`EcsCredentials` is `EcsTaskRoleSupplier`: the test of the cache (`Enter`), the second read of
the credential (`ReturnCached`), a refresh that answers or fails (`Answer`, `AskFails`), and
the two assignments (`Store`), in as many threads as there are. A credential is the time it has
left, which runs down for all of them at once (`CredentialsAge`). `budget` and `contested` are
history variables: what is left of the skew a cache hit was granted, and whether refreshes
with different answers overlapped.

`ServiceProcess` is one process: `Accept`, `Track` (the middleware that notes the time, and the
authentication behind it), `Call` (a thread of a request goes on with its credential),
`Respond`, `HoldLoop` and `ReleaseLoop` (the guardrails of a request, on the event loop),
`Watch` (one look of the idle watchdog), `Exit`, `Tick`, `EndpointRotates`. While the loop is
held only threads, the clock and the endpoint go on. `age` is a
history variable: the time since a request passed the tracker.

### How the modules fit

`ManifestRun` uses `AthenaQuery` (a read answers or fails) and `DraftGeneration` (a
draft is made or raises); `DraftGeneration` uses `GuardrailVerdict`, which
`GuardrailExecutor` implements, and `LLMFactory` (a call answers or raises);
`LLMFactory` uses `ProviderCall`, and a Vertex call gets its credential as in `EcsCredentials`.
The services of `Interpretation` serve requests of their own and use `LLMFactory` only. Each
upper module takes from the lower one only what the lower one is shown to promise: that it
ends, and the outcomes it can have. They are not composed into one state space; the product
would add no interleaving, since a lower part's steps touch no variable of an upper one.
`ServiceProcess` is composed with `EcsCredentials`, since a request ends only when
its threads do, and `DraftContent` with `DraftGeneration`, whose steps it narrows.

## 3. Runs, bounds and what they show

| Run | Configuration | Shows |
|---|---|---|
| `factory` | `MCLLMFactory.cfg` | two requests of a timed collection caller and an untimed drafting caller, and guardrails that hold the loop at any moment: cooldowns are right, a disabled fallback stays so, and a timed request ends though no provider ever answers, once its cancelled call does |
| `provider_call` | `MCProviderCall.cfg` | every fault, repeat and cancellation of one call |
| `guardrails` | `MCGuardrailExecutor.cfg` | both modes implement `GuardrailVerdict`; the call ends |
| `draft_generation` | `MCDraftGeneration.cfg` | every kind of request, answer and verdict over three attempts |
| `draft_content` | `MCDraftContent.cfg` | what a draft that passes all thirteen guardrails cannot say, and that each request admits one |
| `manifest` | `MCManifestRun.cfg` | one request over a lake and a date that change between its reads, every read able to fail |
| `athena` | `MCAthenaQuery.cfg` | one query at any pace, paged in every way |
| `interpretation` | `MCInterpretation.cfg` | what each of the eleven services lets out, whatever the model answers in any attempt |
| `service` | `MCServiceProcess.cfg` | one process with two connections, two threads on one credential and the watchdog |
| `manifest_partial_doc`, `event_widened_doc`, `factory_configuration_doc` | `MCManifestRun_partial.cfg`, `MCInterpretation_widened.cfg`, `MCLLMFactory_configuration.cfg` | one sentence of a document or a comment each, which the code contradicts ([section 6](#6-disagreements-between-code-and-documents)) |

The bounds:

- **factory**: 2 requests, 2 callers, a cooldown of 2 for a drafting primary and of 1 for
  the other pairs, a timeout of 1, clocks that saturate at 3. Two requests suffice for one
  to fail while the other is suspended, and the properties speak of at most a
  request and a pair; the drafting caller's two providers have different cooldowns, so
  one may still cool when the other no longer does. The loop may be held for any time, so a
  timer may be late by any amount. No symmetry is used, since the run has a liveness
  property. 624,860 states.
- **provider_call**: 3 attempts (the default), and 1 for historical mail, whose `+ 1`
  is then visible. The state space is complete, no clock is bounded: 690 states.
- **guardrails**: 4 guardrails on 2 threads, of severities CRITICAL, HIGH and
  REVIEW, some with several checks, none, or an exception. There are more
  guardrails than threads, so jobs queue, as thirteen do on six.
- **draft_generation**: the default of 2 retries, so a first, a middle and a last
  attempt; two guardrails, which is enough to tell "factual grounding alone" from
  "and another"; one cost.
- **manifest**: 2 parties, 2 lanes, 2 invoices; manifests with a shared lane, with and
  without named invoices, with duplicate ids, and empty; four first states of the
  lake, with invoices due before, on and after the first day. `MaxChanges = 1` and
  `MaxDays = 1`: one write of the backend and one midnight, at any place among the nine
  reads; a second write adds no new relation between two reads and a draft, and the
  theorems hold for any number of either. 187,540 states.
- **draft_content**: requests that differ from an ordinary collection request in one respect
  each, or in two that meet in a guardrail; drafts of at most two sentences, one sentence for
  each thing a guardrail looks for, and some longer ones that answer the requests which ask for
  more. A guardrail looks at a sentence, at a pair, or at what the whole draft contains, so two sentences
  show what may block; the longer drafts are needed for what must not. Among the texts is
  `Courteous(r)` of every request, which the theorem `NoRequestIsHopeless` asks for. One request
  is served, with one retry and no costs: the guardrails keep nothing between attempts, and the
  loop's own properties are checked by `draft_generation`. 138,484 states.
- **interpretation**: for each service the requests and answers in which its rules differ. Notes:
  one or two selected invoices and a stranger, one or two queries, answers of one assertion of every
  kind or of two that may clash. Events and mails: two quotes, each absent, once or twice in the
  text, each with the value it spells out. Documents: two references and up to two earlier
  sets. Weekly: two events that may share an id. Replies: each day of a week and the turn of
  a month. Chains: two chains and one that was not offered. Sent drafts: two invoices, one of them
  spelled in two ways, and a blank number; up to three candidates and two decisions, which is what
  a shared number, a duplicate and a contradiction need; one confidence below the threshold and one
  above. Three attempts, the default. 206,026 states.
- **service**: a skew of 2, a life of 4, so a credential is fresh, within the skew, and dead; an
  idle limit of 3 that is no multiple of the watchdog's sleep of 2; a grace of 1, so the
  server may also lose its patience. Two threads of two requests, so refreshes overlap. 1,441,825
  states.
- **athena**: a timeout of 5 that is no multiple of the interval 2, so the last sleep
  ends after the deadline; up to 4 rows in pages of any size. 16,580 states.

Every property has a mutant that violates it under the run's own configuration.

Deadlock is checked where a component never rests: the factory, the guardrail
pipeline and the generator take the next request. `CHECK_DEADLOCK FALSE` is set for
the modules of one request, one query or one call, which stop when it is answered, and for
the process, which stops when it is idle.

The type invariants (`TypeOK`) are proved for every value of the constants, so no run repeats
them. `DraftContent` adds no type invariant of its own to the loop's: what its variables hold is
part of the inductive invariant `ContentInv`.

## 4. Fairness

- **LLMFactory**: time passes, `WF(Tick)`, and a loop that is free again and again runs every
  timer that is due, `SF(TimeIsUp(r))`: `asyncio` takes all due timers at the beginning of each
  turn. Strong fairness, because the guardrails may hold the loop between any two turns.
  Nothing is assumed of the providers. `TimedRequestsEnd` states what else it needs: that
  guardrails do not hold the loop for ever (two of them await a model without a timeout), and
  that a cancelled call ends (its `finally` closes the client, and no line bounds the close).
  A caller without a timeout is promised no end.
- **GuardrailExecutor**: the calling thread and the pool threads run, and a guardrail
  that was started returns. The last is an assumption too: two guardrails await a
  model without a timeout.
- **AthenaQuery**: `time.sleep` returns and calls to Athena answer; the query itself
  need never end.
- **ServiceProcess**: `WF(Tick)`, and `SF(Watch)`: a loop that is free again and again runs
  the watchdog when its sleep is over. `IdleProcessStops` is conditional on the loop being free
  again and again; given that, nothing is assumed of the requests, of their threads, or of the
  metadata endpoint, so the process is stopped also while a request hangs in an `await`. While
  one hangs in `guardrail_pipeline.validate`, which waits on the loop itself, it is not.

The other modules state no liveness: their loops are bounded by the number of attempts
and of candidates, so a request ends if what it awaits does. Of a provider call even that
is not certain: `wait_for` waits for the cancelled call, which awaits the closing of its
client, and no line bounds the close.

## 5. Proofs

`tlapm` checks every theorem of the `*_proofs` modules. They hold for all values of the
constants that satisfy the named assumptions of each module (for instance that a
cooldown and a timeout are smaller than the value at which the model's clocks
saturate, or that a poll interval is positive). Those of `Interpretation` say that a request is
one the API admits and an answer one its schema admits, and that months begin on days; those of
`DraftContent`, that flags are flags and the model may write the text `Courteous(r)`.

| Module | Proved | The inductive invariant and why it is needed |
|---|---|---|
| `LLMFactory_proofs` | types; `PendingCallsPredateCooldown`, `CooldownHasCause`, `CooldownNeverCutShort`, `DisabledForGood` | that a call pending on a cooling pair is older than the cooldown needs the clocks of idle requests to be zero, and the rest of a cooldown never to exceed its duration |
| `GuardrailExecutor_proofs` | types; `ImplementsPromise`, the refinement; `BlockedForCause` | `HeardSoFar`: the accumulators are a function of the set of guardrails heard, not of their order. `Collect` keeps it by a lemma on appending results; at the return that set is all of them |
| `DraftContent_proofs` | of the loop: types; `VerdictIsOfDraft`, `CollectionDraftsHaveTable`, `FixedBodyIsNoBypass`, `BlockedOnlyWhenExhausted`, `FeedbackIsFresh`, `RetryOnlyForCause` | `IInv`: while a call is pending, the draft held is the previous attempt's and the feedback is about it; a verdict on an older draft can only be there while the feedback is about the table |
| | of the text: `ContentImplementsLoop`, the refinement; `NoChaseableRequestIsRefused`, `NoTotalWhenSourcesDiffer`, `WithheldInvoicesAreLeftAlone`, `OutageDoesNotCommit`, `FixedBodyIsAdmissible`, `SomeDraftSatisfiesAll` | `ContentInv`: the loop serves the kind of the mail that came, a refused mail is not valid, and when nothing blocks by the loop's verdict then none of the thirteen guardrails blocks the text held, with the judge's word held. That last clause ties a verdict, of which the loop keeps only `factual_grounding` and `Another`, to the text it was about |
| `ManifestRun_proofs` | types; `ReportCoversManifest`, `ChasedIsOwed`, `ChasedInScope`, `CountedOnce`, `DraftsNeedTheirReads` | what the invoices read show as owed on the day they were read was owed at some moment, and stays so noted through every write and every change of the date; the report is a prefix of the manifest; each entry chases rows its candidate's reads contain |
| `AthenaQuery_proofs` | types; `RowsAreTheResult`, `PollsAreBounded`, `RejectedBeforeAthena` | polls are a whole interval apart, so their number is bounded by elapsed time; an answer that the query ended stays true |
| `ProviderCall_proofs` | types; `ClientIsClosed`, `CancellationIsNotSwallowed`, `QuotaAndRejectionKeepApart`, `AnswerSurvivesClosing`, `EffortIsBounded`, `NothingSentInVain` | the error held stands for the last fault seen, unless the call was cancelled or its closing failed |
| `Interpretation_proofs` | types; all nine properties of the run | `Inv`: the attempts refused and the attempt the prompt corrects are what the number of calls says; a response that was given is `Declined(q)`, `Content(q, e)` of a valid answer `e` that is `answer`, or one of the two fixed ones. The rest is one argument per service, below |
| `ServiceProcess_proofs` | types; `HitOutlivesSkew`, `YoungRequestsAreSafe` | the expiry in the cache is never later than the credential in it; unless refreshes are contested, the answers that threads hold are equal, and the cached credential is no younger than they are. The time since the last request is at most the age of every request that is handled |

The arguments that are about operators rather than steps:

- *A draft that was accepted* (`DraftContent`). `NothingBlocks` turns an empty set of blockers into
  the nine conditions of the guardrails; each property then follows from two or three of them. A total
  would have to be one sum and within a penny of another, further away; the sentence that asks for a
  disputed invoice is what `factual_grounding` calls source-disputed, and `lane_scope` looks for a
  number called an invoice among those of the lane without the withheld; while the judge cannot be
  asked, `policy_grounding` is left with its patterns for the plain commitments.
- *A draft that will be* (`SomeDraftSatisfiesAll`, `FixedBodyIsAdmissible`). The witness is a text of
  four sentences, `Courteous(r)`; that it passes is proved guardrail by guardrail from what it says
  and what it leaves out. It needs `TextsAssumption`, that the model may write this text, and
  the judges content or out of reach. So does the fixed body of the code, but for the date it asks for.
- *Figures* (`FiguresAreFounded`). Notes: cleaning an assertion touches nothing but an optional
  date. Events: a figure is kept as it is or dropped, and a kept one that grounding does not refute
  is spelled out in one place of the body. Mails: a segment is replaced by an earlier mail of its id
  at most, so every text quoted is one the service could read. Weekly: an id is judged by the words
  of its last event.
- *Scope of documents*. The invoices reached are those resolved from the references of an
  item; a reference resolves to what the message names, or to the one complete set. A scope of
  `account_wide` is only given where no item has a reference left and all are statements.
- *Routes*. The routes of a valid answer name different invoices, and together all of them, so
  their positions and the invoices are in bijection and there are as many of one as of the other.
- *Days*. Days from today on have an earliest one, since `<` is well founded on `Nat` (a theorem of
  the library); the beginnings of a next week and of a next month are such days; a payment run
  is scheduled on the earliest chase date from the first day that is meant, if there is one. For
  other vague words the theorem only says that the day is in the calendar and not past: which of
  its days is the model's choice.
- *Reports*. A first decision exists because the positions of a list have a least element, and the
  confidence reported is a minimum that some verdict has; the rest expands `Response`. An invoice of
  the draft without a decision makes the report ask for a review, so that only "not present" is
  left to lose it.

Trying to prove that `DraftContent` implements the loop showed that the loop was wrong: it refused every
collection request without an invoice to chase, where `src/engine/generator.py:258` does so
only under the current schema version. `DraftGeneration` now reads the version.

Only model-checked: the liveness properties (`TimedRequestsEnd`, `ValidateReturns`,
`ExecuteEnds`, `IdleProcessStops`), which are out of the prover's reach, and the violations of
section 6. Every other property of a run is a theorem.

Only proved, and not among the properties of a run, because they follow closely from
invariants that a run does check: `CooldownNeverCutShort`, `BlockedOnlyWhenExhausted`,
`RetryOnlyForCause`, `DraftsNeedTheirReads`, `RejectedBeforeAthena`, `AnswerSurvivesClosing`,
`EffortIsBounded`, `YoungRequestsAreSafe`.

## 6. Disagreements between code and documents

Shown by a run, each quoted in `PROJECT.json` under `findings`:

- One party row without a provider type turns a "partial-failure tolerant" request
  into a 500.
- A promise to pay whose amount its quote refutes is refused, and when the corrected answer leaves
  the amount out, becomes a promise of the full balance; by the comment at
  `src/engine/collection_email_event_classifier.py:353` an explicit amount that fails grounding must not
  become "a silently widened full-balance promise".
- A primary provider that cannot be made, for a missing key or setting, counts as unavailable
  (`src/llm/factory.py:81`): a cooldown is recorded and the second provider called, for
  collection callers too. By `docs/API_REFERENCE.md:337` configuration failures fail closed
  without fallback.

Met while reading, and not run because the contradiction is in the text of one line,
outside the models, or about a point that no property here is about:

- A request refused by the primary's cooldown starts the cooldown anew
  (`src/llm/factory.py:175`), so under steady traffic the primary is never used again;
  `docs/API_REFERENCE.md:337` describes a cooldown that ends, as the fallback's does.
- A denial by a provider's policy or authentication is told as unavailable, so it falls back and
  cools down like an outage, against the same line of `docs/API_REFERENCE.md`. Of OpenAI's errors only `BadRequestError` is a rejected request
  (`src/llm/openai_provider.py:378`), of OpenRouter's statuses only 400 and 422
  (`src/llm/openrouter_provider.py:267`): a 401 or 404 is told as unavailable as well.
- The comment at `src/llm/factory.py:340`, by which two calls of a timed caller fit in the 180 s the
  backend waits, counts neither the close of a cancelled call, which is awaited without a limit
  (`src/llm/vertex_provider.py:299`), nor the time the guardrails of other requests hold the loop.
- An invoice of the generated draft that the model calls not present in the sent one is
  neither retained nor removed (`src/engine/sent_scope.py:247`): the report may succeed with an
  unchanged scope, although `src/prompts/sent_scope.py:18` calls a generated invoice that is
  absent removed. `ReportAgreesWithDraft` says that there is no other such way.
- The weekly report's audit record hashes the first prompt, also when the answer it reports
  was given to a corrected one (`src/engine/weekly_overdue_report_summarizer.py:424` and `:475`).
- A vague commitment other than to a payment run is dated by the model, among the days of the
  tenant's calendar (`src/engine/classifier.py:383`).
- A `compact_only` request takes the date from the clock, not from its epoch
  (`src/lake/context_reader.py:345`): an invoice that was paid or queried after the commit of the
  epoch may be chased, on a day on which it was overdue only by the epoch's balance.
- A drafting or classification call with invalid structured output is sent to the
  fallback, although `docs/API_REFERENCE.md:337` says it fails closed.
- The generator retries whatever the number of blocking guardrails;
  `docs/API_REFERENCE.md:277` says at most two.
- OpenAI's answer without usable structured output counts as an outage, against
  `src/llm/base.py:54`.
- Of two candidates that share a normalized number, `analyze` decides the last one's
  obligation only; a generated number that no candidate has leaves no trace in the report.
- `src/config/settings.py:176` calls the collection timeout a limit per call; callers
  outside that family have no limit at all.
- In sequential fail-fast mode `retry_suggested` may be set with more than two
  blockers, against `src/guardrails/base.py:104`; nothing in the service uses the mode.
- A draft that is still blocked after the last attempt is returned with its verdict;
  `README.md:254` reads as if it were not.
- The token breakdown covers the last run of the guardrails only, the total all of
  them.
- Temporal evidence is read twice outside `compact_only` mode, against
  `src/lake/context_hydrator.py:85`.
- A server error that google-genai raises as its own `ServerError` is neither repeated,
  nor put in cooldown, nor replaced by the fallback for collection callers, against
  `docs/API_REFERENCE.md:333` and `:337`.
- `src/main.py:158` and `docs/API_REFERENCE.md:18` put the service authentication outermost. The
  tracker and the request id wrap it, so requests that are refused with a 401 keep the process alive.
- `generic_error_handler` runs outside the request-id middleware, so a 500 has no request id header.
- The health check of the `Dockerfile` calls `/ping` every 30 seconds, which counts as a request:
  where it runs, the idle shutdown never comes. The comment at `Dockerfile:65` lets in-flight
  model requests complete; the grace is 30 seconds, a request may take 180.
- Within the last minute of a credential's life a failed refresh raises although the cached
  credential is alive (`src/llm/aws_ecs_supplier.py:39`).
- What a disagreement proposes to pay (`proposed_payment_amount`, `_date`) is not grounded, although
  the docstring at `src/engine/collection_email_event_classifier.py:332` says every amount and date.
- A statement requested with references that cannot be resolved becomes account-wide
  (`src/engine/document_request_interpreter.py:446`), against the comment at line 389 by which these
  must not become an implied scope; `RequestedScopeIsNamed` names the exception. An
  uncertain answer with references that can be resolved is refused by the response model.
- An invalid timezone of the tenant is meant to fall back to UTC (`src/engine/classifier.py:506`); the
  warning is called with a keyword that `logging` does not know, and raises.
- The classifier and the historical thread classifier parse the answer outside the `try` that
  wraps their other errors, so a truncated answer is an unexpected error.
- Two weekly evidence events with one id are both judged by the words of the last; the tie-break of the
  historical classifier may name a chain that is no candidate; an identifier that is uncertain
  may say that the chain is closed.
- An earlier mail with the source id of a segment replaces the segment in V3 of the mail evidence; V3
  drops figures where V2 refuses them.
- The admission reasons `unavailable`, `invalid_body_source` and a direction other than inbound cannot
  occur; `src/engine/escalation_validator.py` is not called.
- The documents count twelve guardrails, `src/guardrails/pipeline.py` registers thirteen.

## 7. Not modelled, and why

- **Text**: prompts, formatting, regular expressions over prose. The guardrails and the
  interpreters are modelled by what their patterns find in a text, not by which strings they
  match.
- **Schemas**: Pydantic models enter by whether a value is accepted.
- **What outside services promise**: providers, Athena, the metadata endpoint and the lake may
  do anything the code is prepared for, and fail at any time.
- **Persona generation**: a model call with a deterministic fallback, no state, no decision that
  another part reads.
- **Guardrail feedback helper, Anthropic provider, escalation validator**: nothing calls them.
- **Settings**: read once; the values the models depend on are CONSTANTS.
- **JSON extraction**: character-level; an answer is parsed or it is not.
- **Counters that are only logged**: S3 and SQL attribution, latencies, the fallback
  count.
- **Request id, CORS, rate limit**: a library, and headers.
- **Offline code**: `evals/`, `scripts/`, deployment files.

Some hazards of the list in `PROJECT.json` have no property, or one for a part of them; their notes
say why: that two candidates of one manifest name the same invoice (the loader leaves that to the
producer of the manifest), that google-genai raises server errors of its own class (a fact of that
library), and that an OpenAI error whose words speak of a length and a limit is taken for a truncated
answer (the property about errors exempts it, since of these no claim holds).

## 8. Plan

The order follows what the engine could do wrong to a customer: money asked for
that is not owed, mail handed to the wrong provider, a verdict that is not about
the text; then time and resources; then the smaller interpreters.

Done: `LLMFactory`, `GuardrailExecutor` implementing `GuardrailVerdict`, `DraftGeneration` and
`DraftContent` implementing it, `ManifestRun`, `AthenaQuery`, `ProviderCall`, `Interpretation` over
its eleven services, and `ServiceProcess` over `EcsCredentials`. Each has its proofs, and every safety
property that a run checks is a theorem.

Next:

1. An abstract specification of an interpreter ("a validated answer, a refusal or an error, and never
   more calls than its limit") that `Interpretation` implements, as `DraftContent` does the loop.
2. That the sets of blocking guardrails of `DraftContent` are among those `GuardrailVerdict` allows for
   the severities of the code, which would join the two halves of the guardrails by a theorem.
3. Persona generation, for completeness.

The properties a run checks are chosen so that no two ask the same question: where a theorem
follows closely from another property, the theorem alone is kept.
