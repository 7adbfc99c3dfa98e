----------------------------- MODULE ProviderCall -----------------------------
(***************************************************************************)
(* One complete() of a provider: VertexProvider, OpenAIProvider or         *)
(* OpenRouterProvider.  It sends the request through a client made for it, *)
(* for some errors sends it again after a pause, closes the client, and    *)
(* returns a response or raises one of the classes of src/llm/base.py, by  *)
(* which LLMFactory decides what to do next.                               *)
(*                                                                         *)
(* LLMFactory runs the calls of its timed callers under asyncio.wait_for,  *)
(* so the call may be cancelled at whatever it is waiting for: the answer, *)
(* the pause between two requests, or the closing of the client.           *)
(***************************************************************************)
EXTENDS Integers

CONSTANTS
  MaxAttempts,           \* llm_max_retries
  HistoricalMaxAttempts  \* llm_historical_collection_vertex_max_retries

ASSUME ConstantsAssumption ==
  /\ MaxAttempts \in Nat \ {0}
  /\ HistoricalMaxAttempts \in Nat

Providers == {"vertex", "openai", "openrouter"}

\* What may become of a request other than an answer that can be used.  "token"
\* is an access token that cannot be had, "policy" the dunning decision of
\* Vertex AI, "malformed" a request whose form is rejected (400, of OpenRouter
\* also 422), "refused" any other 4xx, a refused key or an unknown model say,
\* "length" an output cut off by the model's own limit, and "unusable" an answer
\* without the output that was asked for.
Faults == {"quota", "server", "network", "token", "policy", "malformed", "refused",
           "length", "unusable"}

\* A fault as the code sees it: whether its exception is of a class that the
\* provider repeats, and whether its text speaks of a length and a limit.
Sights == [what : Faults, repeatable : BOOLEAN, wordy : BOOLEAN]

\* Vertex AI may show a quota or server error as an exception of api_core, which
\* is repeated, or as one of its own client library, which is not.
SightsOf(p) ==
  {s \in Sights :
     /\ s.what \in {"token", "policy"} => p = "vertex"
     /\ s.what = "length" => p = "openai"
     /\ s.wordy => p = "openai"
     /\ s.repeatable => \/ p = "vertex" /\ s.what \in {"quota", "server"}
                        \/ p = "openai" /\ s.what = "quota"
     /\ p = "openai" /\ s.what = "quota" => s.repeatable}

NoFault == [what |-> "none", repeatable |-> FALSE, wordy |-> FALSE]

\* "Other" is an exception that complete() lets through as it is.
Errors == {"RateLimited", "Unavailable", "PolicyDenied", "StructuredOutput", "Other"}

VARIABLES
  provider,    \* whose complete() this is
  historical,  \* caller is historical_collection_thread
  timed,       \* runs under wait_for
  phase,       \* where the call is
  client,      \* its client
  sent,        \* requests sent so far (attempt_number)
  waited,      \* history: seconds spent in pauses that ended
  seen,        \* the fault of the last request that had one
  error,       \* what it has raised, or will once the client is closed
  cancelled    \* the time of wait_for was up

call == <<provider, historical, timed>>
vars == <<call, phase, client, sent, waited, seen, error, cancelled>>

TypeOK ==
  /\ provider \in Providers
  /\ historical \in BOOLEAN
  /\ timed \in BOOLEAN
  /\ phase \in {"called", "sending", "pausing", "closing", "returned", "raised"}
  /\ client \in {"none", "open", "closing", "closed", "failed"}
  /\ sent \in Nat
  /\ waited \in Nat
  /\ seen \in Sights \cup {NoFault}
  /\ error \in Errors \cup {"none", "Cancelled"}
  /\ cancelled \in BOOLEAN

Init ==
  /\ provider \in Providers
  /\ historical \in BOOLEAN
  /\ timed \in BOOLEAN
  /\ phase = "called"
  /\ client = "none"
  /\ sent = 0
  /\ waited = 0
  /\ seen = NoFault
  /\ error = "none"
  /\ cancelled = FALSE

Ended == phase \in {"returned", "raised"}

-----------------------------------------------------------------------------
(* What distinguishes the providers.                                       *)

\* stop_after_attempt; OpenRouter repeats nothing.
Attempts ==
  IF provider = "openrouter" THEN 1
  ELSE IF provider = "vertex" /\ historical
    THEN IF HistoricalMaxAttempts > 1 THEN HistoricalMaxAttempts ELSE 1
  ELSE MaxAttempts

\* wait_exponential(multiplier=1, min=2, max=30), after n requests.
Pause(n) == IF n <= 5 THEN <<2, 2, 4, 8, 16>>[n] ELSE 30

\* Faulty variants (a name ending in Mutant) are not part of the model: each is
\* a bug the next definition could have, which a property must tell apart.
VertexErrorByClassMutant(s) ==
  CASE s.what = "quota" /\ s.repeatable -> "RateLimited"
    [] s.what = "server" /\ s.repeatable -> "Unavailable"
    [] s.what = "policy" -> "PolicyDenied"
    [] s.what \in {"quota", "malformed", "refused", "unusable"} -> "StructuredOutput"
    [] OTHER -> "Other"

\* A quota or a server error that the client library raises under a name of its
\* own: the first is recognised by its code, the second is not and is re-raised.
VertexError(s) ==
  CASE s.what = "quota" -> "RateLimited"
    [] s.what = "server" /\ s.repeatable -> "Unavailable"
    [] s.what = "policy" -> "PolicyDenied"
    [] s.what \in {"malformed", "refused", "unusable"} -> "StructuredOutput"
    [] OTHER -> "Other"

\* The text is looked at before the class; of the refusals only BadRequestError
\* is told from a provider that is not available.
OpenAIError(s) ==
  CASE s.what = "length" \/ s.wordy -> "StructuredOutput"
    [] s.what = "quota" /\ ~s.wordy -> "RateLimited"
    [] s.what = "malformed" /\ ~s.wordy -> "StructuredOutput"
    [] OTHER -> "Unavailable"

\* By status; only 400 and 422 are told from an unavailable provider.
OpenRouterError(s) ==
  CASE s.what = "quota" -> "RateLimited"
    [] s.what \in {"malformed", "unusable"} -> "StructuredOutput"
    [] OTHER -> "Unavailable"

ErrorOf(s) ==
  CASE provider = "vertex" -> VertexError(s)
    [] provider = "openai" -> OpenAIError(s)
    [] provider = "openrouter" -> OpenRouterError(s)

-----------------------------------------------------------------------------
(* Actions.                                                                *)

\* The OpenAI client is not closed: it is left to the garbage collector.
Closes == provider # "openai"

\* The call is over with this error, or "none", once its client is closed.
WindUp(e) ==
  /\ error' = e
  /\ IF Closes
       THEN phase' = "closing" /\ client' = "closing"
       ELSE /\ phase' = IF e = "none" THEN "returned" ELSE "raised"
            /\ UNCHANGED client

Begin ==
  /\ phase = "called"
  /\ phase' = "sending"
  /\ client' = "open"
  /\ sent' = 1
  /\ UNCHANGED <<call, waited, seen, error, cancelled>>

\* The client cannot be made, its arguments are refused, or the prompt is over
\* OpenRouter's input budget: nothing is sent.
Refuse ==
  /\ phase = "called"
  /\ phase' = "raised"
  /\ error' = CASE provider = "vertex" -> "Other"
                [] provider = "openai" -> "Unavailable"
                [] provider = "openrouter" -> "StructuredOutput"
  /\ UNCHANGED <<call, client, sent, waited, seen, cancelled>>

Answer ==
  /\ phase = "sending"
  /\ WindUp("none")
  /\ UNCHANGED <<call, sent, waited, seen, cancelled>>

RepeatsMutant(s) == sent < Attempts

\* The decorator sends the request again.
Repeats(s) == s.repeatable /\ sent < Attempts

FaultRepeated(s) ==
  /\ phase = "sending"
  /\ Repeats(s)
  /\ seen' = s
  /\ phase' = "pausing"
  /\ UNCHANGED <<call, client, sent, waited, error, cancelled>>

FaultRaised(s) ==
  /\ phase = "sending"
  /\ ~Repeats(s)
  /\ seen' = s
  /\ WindUp(ErrorOf(s))
  /\ UNCHANGED <<call, sent, waited, cancelled>>

SendAgain ==
  /\ phase = "pausing"
  /\ phase' = "sending"
  /\ sent' = sent + 1
  /\ waited' = waited + Pause(sent)
  /\ UNCHANGED <<call, client, seen, error, cancelled>>

CancelLeavesClientMutant ==
  /\ timed /\ ~cancelled
  /\ phase \in {"sending", "pausing"}
  /\ cancelled' = TRUE
  /\ error' = "Cancelled"
  /\ phase' = "raised"
  /\ UNCHANGED <<call, client, sent, waited, seen>>

\* The time is up while a request or a pause is awaited.  CancelledError is
\* neither repeated nor mapped, but the client is closed.
Cancel ==
  /\ timed /\ ~cancelled
  /\ phase \in {"sending", "pausing"}
  /\ cancelled' = TRUE
  /\ WindUp("Cancelled")
  /\ UNCHANGED <<call, sent, waited, seen>>

CancelClosingSwallowedMutant ==
  /\ timed /\ ~cancelled
  /\ phase = "closing"
  /\ cancelled' = TRUE
  /\ phase' = IF error = "none" THEN "returned" ELSE "raised"
  /\ UNCHANGED <<call, client, sent, waited, seen, error>>

\* The time is up while the client is being closed: the closing breaks off, and
\* an answer that was there is lost.
CancelClosing ==
  /\ timed /\ ~cancelled
  /\ phase = "closing"
  /\ cancelled' = TRUE
  /\ error' = "Cancelled"
  /\ phase' = "raised"
  /\ UNCHANGED <<call, client, sent, waited, seen>>

Close ==
  /\ phase = "closing"
  /\ client' = "closed"
  /\ phase' = IF error = "none" THEN "returned" ELSE "raised"
  /\ UNCHANGED <<call, sent, waited, seen, error, cancelled>>

\* The client cannot be closed.  Vertex AI's only logs it; OpenRouter's is closed
\* by leaving its with block, and the failure takes the place of the outcome.
CloseFails ==
  /\ phase = "closing"
  /\ client' = "failed"
  /\ error' = IF provider = "vertex" THEN error ELSE "Unavailable"
  /\ phase' = IF error' = "none" THEN "returned" ELSE "raised"
  /\ UNCHANGED <<call, sent, waited, seen, cancelled>>

Next ==
  \/ Begin \/ Refuse
  \/ Answer
  \/ \E s \in SightsOf(provider) : FaultRepeated(s) \/ FaultRaised(s)
  \/ SendAgain
  \/ Cancel \/ CancelClosing
  \/ Close \/ CloseFails

Spec == Init /\ [][Next]_vars

-----------------------------------------------------------------------------
(* Properties.                                                             *)

\* However the call ends, by an answer, an error, a cancellation in a request,
\* in a pause or while closing, the client it made is at least being closed:
\* no connection is left open (the finally of VertexProvider, the with block of
\* OpenRouterProvider).
ClientIsClosed == Ended /\ Closes => client # "open"

\* OpenRouter's client could not be closed, which hides what happened before.
ClosingFailed == provider = "openrouter" /\ client = "failed"

\* A cancelled call never goes on as if it had answered, also when the
\* cancellation came while the client was being closed: wait_for tells the
\* factory that the time was up, or the failed close of OpenRouter's client
\* takes the place of the cancellation, which the factory handles alike.
CancellationIsNotSwallowed ==
  Ended /\ cancelled =>
    /\ phase = "raised"
    /\ error = IF ClosingFailed THEN "Unavailable" ELSE "Cancelled"

\* The class of the error tells the factory what happened, however the client
\* library dresses it: RateLimited is raised for every quota error and for
\* nothing else, PolicyDenied for the policy decision alone, and a malformed
\* request is never told as a provider that will recover.  For Vertex AI no
\* refusal is ("4xx requests ... must fail closed"); OpenAIProvider and
\* OpenRouterProvider do tell every other 4xx so.  OpenAI's errors whose text
\* speaks of a length and a limit are exempt: they are taken for a cut output,
\* whatever they are.
QuotaAndRejectionKeepApart ==
  phase = "raised" /\ ~cancelled /\ ~ClosingFailed /\ ~seen.wordy =>
    /\ seen.what = "quota" <=> error = "RateLimited"
    /\ seen.what = "policy" <=> error = "PolicyDenied"
    /\ \/ seen.what = "malformed"
       \/ seen.what = "refused" /\ provider = "vertex"
       => error = "StructuredOutput"

\* A failure to close Vertex AI's client changes nothing of what complete()
\* returns or raises: only a cancellation can take an answer away.
AnswerSurvivesClosing ==
  provider = "vertex" /\ phase = "raised" /\ sent > 0 /\ ~cancelled =>
    seen # NoFault /\ error = ErrorOf(seen)

\* The number of requests and the time spent between them are bounded by the
\* caller's own limit: a historical backfill fails fast on an exhausted quota
\* (the comment on llm_historical_collection_vertex_max_retries).
EffortIsBounded ==
  /\ sent <= Attempts
  /\ sent > 0 => waited <= 30 * (sent - 1)
  /\ provider = "vertex" /\ historical /\ HistoricalMaxAttempts <= 1 => waited = 0

\* Once the client is being closed or the time is up, no request is sent any
\* more, in particular not by the repetition that was pausing; and what is sent
\* again was refused for a transient reason.
NothingSentInVain ==
  [][sent' > sent /\ sent > 0 =>
       /\ ~cancelled' /\ client = "open"
       /\ seen.what \in {"quota", "server"}]_vars
=============================================================================
