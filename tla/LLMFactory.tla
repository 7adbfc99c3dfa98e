------------------------------ MODULE LLMFactory ------------------------------
(***************************************************************************)
(* LLMProviderWithFallback (src/llm/factory.py): one object shared by all  *)
(* the coroutines of the process that need a completion.  A request first  *)
(* tries the primary provider; when that fails it may try the fallback     *)
(* provider.  A transient failure puts the pair (provider, caller) in      *)
(* cooldown, and a cooling pair is refused without a call.                 *)
(*                                                                         *)
(* A coroutine only gives up control at an await, so everything that       *)
(* complete() does between two awaits is one action here.  The awaits are  *)
(* the two provider calls: a request is in phase "primary" or "fallback"   *)
(* while it waits for one, and any other request may run meanwhile.  When  *)
(* the time of a call is up, asyncio.wait_for cancels it and then waits    *)
(* for what the call does on its way out, however long that takes: the     *)
(* request is "cancelling" until the cancelled call has ended.             *)
(*                                                                         *)
(* The coroutines share the event loop with the guardrails, which run on   *)
(* it synchronously: while one does, no coroutine and no timer is run,     *)
(* and the time goes on.                                                   *)
(*                                                                         *)
(* The code stores the instant at which a cooldown ends; the model stores  *)
(* what is left of it, so that the clock needs no bound.  A key that was   *)
(* popped, one that was never set and one that has expired all read 0.     *)
(***************************************************************************)
EXTENDS Integers

CONSTANTS
  Requests,           \* concurrent invocations of complete()
  Callers,            \* the values of its caller= argument
  CollectionCallers,  \* _COLLECTION_FALLBACK_CALLERS
  CooldownSeconds,    \* _cooldown_seconds: [Providers -> [Callers -> Nat]]
  TimeoutSeconds,     \* _provider_timeout_seconds: [Callers -> Nat], 0 is None
  Cap                 \* where the clocks of the model saturate

Primary == "primary"
Fallback == "fallback"
Providers == {Primary, Fallback}

Timed(c) == TimeoutSeconds[c] > 0

ASSUME ConstantsAssumption ==
  /\ CollectionCallers \subseteq Callers
  /\ CooldownSeconds \in [Providers -> [Callers -> Nat]]
  /\ TimeoutSeconds \in [Callers -> Nat]
  /\ Cap \in Nat
  /\ \A p \in Providers, c \in Callers : CooldownSeconds[p][c] < Cap
  /\ \A c \in Callers : TimeoutSeconds[c] < Cap

\* What fails an attempt (src/llm/base.py), as far as complete() tells the
\* exceptions apart.  "NotConfigured" is the LLMProviderUnavailableError of a
\* primary that could not be made; "Unavailable" any other, a denial by the
\* provider's policy included, or LLMRateLimitedError; "Other" any exception
\* else, of which the malformed answer is the usual one.
Transient == {"Unavailable", "NotConfigured", "Timeout"}
Errors == Transient \cup {"Other"}

VARIABLES
  primaryReady,   \* self._primary is not None
  fallbackState,  \* "unset", "ready", or "disabled" (fallback_provider_name is None)
  cooldown,       \* [Providers -> [Callers -> what is left of the cooldown]]
  phase,          \* where each request is
  caller,         \* its caller= argument
  error,          \* the primary's error, while the fallback is being called
  elapsed,        \* time since the provider call it waits for began
  cancelling,     \* wait_for has cancelled that call and waits for its end
  loopHeld,       \* a guardrail is running on the event loop
  sinceFailure    \* history: time since the provider itself last failed a caller

vars == <<primaryReady, fallbackState, cooldown, phase, caller, error, elapsed,
          cancelling, loopHeld, sinceFailure>>

timers == <<elapsed, cancelling>>

None == "none"
Never == Cap + 1     \* sinceFailure of a pair that has not failed yet

TypeOK ==
  /\ primaryReady \in BOOLEAN
  /\ fallbackState \in {"unset", "ready", "disabled"}
  /\ cooldown \in [Providers -> [Callers -> 0..Cap]]
  /\ phase \in [Requests -> {"idle", "primary", "fallback"}]
  /\ caller \in [Requests -> Callers]
  /\ error \in [Requests -> Errors \cup {None}]
  /\ elapsed \in [Requests -> 0..Cap]
  /\ cancelling \in [Requests -> BOOLEAN]
  /\ loopHeld \in BOOLEAN
  /\ sinceFailure \in [Providers -> [Callers -> 0..Never]]

\* __init__: nothing is created yet; without a second provider, or with the
\* same one twice, the fallback is disabled from the start.
Init ==
  /\ primaryReady = FALSE
  /\ fallbackState \in {"unset", "disabled"}
  /\ cooldown = [p \in Providers |-> [c \in Callers |-> 0]]
  /\ phase = [r \in Requests |-> "idle"]
  /\ caller \in [Requests -> Callers]
  /\ error = [r \in Requests |-> None]
  /\ elapsed = [r \in Requests |-> 0]
  /\ cancelling = [r \in Requests |-> FALSE]
  /\ loopHeld = FALSE
  /\ sinceFailure = [p \in Providers |-> [c \in Callers |-> Never]]

-----------------------------------------------------------------------------
(* Helpers of complete().                                                  *)

\* _raise_if_cooling_down raises for this pair.
CoolingDown(p, c) == cooldown[p][c] > 0

\* Faulty variants (a name ending in Mutant) are not part of the model: each is
\* a bug the next definition could have, which a property must tell apart.
RecordCooldownAllCallersMutant(p, c, e) ==
  cooldown' = IF e \in Transient
                THEN [cooldown EXCEPT ![p] = CooldownSeconds[p]]
                ELSE cooldown

\* _record_cooldown, called for the transient errors only.
RecordCooldown(p, c, e) ==
  cooldown' = IF e \in Transient
                THEN [cooldown EXCEPT ![p][c] = CooldownSeconds[p][c]]
                ELSE cooldown

\* _fallback_is_permitted
FallbackPermitted(c, e) == c \in CollectionCallers => e \in Transient

\* History only: provider p itself failed caller c with a transient error.
NoteFailure(p, c, e) ==
  sinceFailure' = IF e \in Transient
                    THEN [sinceFailure EXCEPT ![p][c] = 0]
                    ELSE sinceFailure

\* complete() returns the response of an attempt, or raises its error, or raises
\* LLMFallbackExhaustedError.
Finish(r) ==
  /\ phase' = [phase EXCEPT ![r] = "idle"]
  /\ error' = [error EXCEPT ![r] = None]
  /\ elapsed' = [elapsed EXCEPT ![r] = 0]
  /\ cancelling' = [cancelling EXCEPT ![r] = FALSE]

\* _complete_with_provider(fallback), up to its await.
CallFallback(r, e) ==
  /\ phase' = [phase EXCEPT ![r] = "fallback"]
  /\ error' = [error EXCEPT ![r] = e]
  /\ elapsed' = [elapsed EXCEPT ![r] = 0]
  /\ cancelling' = [cancelling EXCEPT ![r] = FALSE]

\* The except branch of the primary attempt, from the cooldown it records to
\* the await of the fallback call or to the raise that ends the request.
PrimaryFailed(r, c, e) ==
  /\ RecordCooldown(Primary, c, e)
  /\ \/ /\ ~FallbackPermitted(c, e)
        /\ Finish(r)
        /\ UNCHANGED fallbackState
     \/ /\ FallbackPermitted(c, e)
        /\ fallbackState = "disabled"
        /\ Finish(r)
        /\ UNCHANGED fallbackState
     \/ /\ FallbackPermitted(c, e)
        /\ fallbackState = "unset"        \* no API key: disabled for good
        /\ fallbackState' = "disabled"
        /\ Finish(r)
     \/ /\ FallbackPermitted(c, e)
        /\ fallbackState = "unset"        \* any other failure to make it escapes
        /\ Finish(r)
        /\ UNCHANGED fallbackState
     \/ /\ FallbackPermitted(c, e)
        /\ fallbackState # "disabled"
        /\ fallbackState' = "ready"
        /\ IF CoolingDown(Fallback, c)
             THEN Finish(r)
             ELSE CallFallback(r, e)

-----------------------------------------------------------------------------
(* Actions.  All but the last three are run by the event loop, while no    *)
(* guardrail holds it.                                                     *)

StartPrimaryUncheckedMutant(r, c) ==
  /\ ~loopHeld
  /\ phase[r] = "idle"
  /\ primaryReady' = TRUE
  /\ phase' = [phase EXCEPT ![r] = "primary"]
  /\ caller' = [caller EXCEPT ![r] = c]
  /\ UNCHANGED <<fallbackState, cooldown, error, timers, sinceFailure, loopHeld>>

\* complete() is entered, the primary exists or can be created, and the pair
\* is not cooling: the primary is called.
StartPrimary(r, c) ==
  /\ ~loopHeld
  /\ phase[r] = "idle"
  /\ ~CoolingDown(Primary, c)
  /\ primaryReady' = TRUE
  /\ phase' = [phase EXCEPT ![r] = "primary"]
  /\ caller' = [caller EXCEPT ![r] = c]
  /\ UNCHANGED <<fallbackState, cooldown, error, timers, sinceFailure, loopHeld>>

\* complete() is entered while the pair is cooling.  The refusal is raised
\* inside the try, so it is handled like a failure of the provider.
StartRefused(r, c) ==
  /\ ~loopHeld
  /\ phase[r] = "idle"
  /\ CoolingDown(Primary, c)
  /\ primaryReady' = TRUE
  /\ caller' = [caller EXCEPT ![r] = c]
  /\ PrimaryFailed(r, c, "Unavailable")
  /\ UNCHANGED <<sinceFailure, loopHeld>>

\* complete() is entered and the primary cannot be created.
StartWithoutPrimary(r, c) ==
  /\ ~loopHeld
  /\ phase[r] = "idle"
  /\ ~primaryReady
  /\ caller' = [caller EXCEPT ![r] = c]
  /\ NoteFailure(Primary, c, "NotConfigured")
  /\ PrimaryFailed(r, c, "NotConfigured")
  /\ UNCHANGED <<primaryReady, loopHeld>>

PrimaryAnswers(r) ==
  /\ ~loopHeld
  /\ phase[r] = "primary"
  /\ ~cancelling[r]
  /\ Finish(r)
  /\ UNCHANGED <<primaryReady, fallbackState, cooldown, caller, sinceFailure, loopHeld>>

\* wait_for only around the first of the two calls.
TimeIsUpPrimaryOnlyMutant(r) ==
  /\ ~loopHeld
  /\ phase[r] = "primary"
  /\ ~cancelling[r]
  /\ Timed(caller[r])
  /\ elapsed[r] >= TimeoutSeconds[caller[r]]
  /\ cancelling' = [cancelling EXCEPT ![r] = TRUE]
  /\ UNCHANGED <<primaryReady, fallbackState, cooldown, phase, caller, error, elapsed,
                 sinceFailure, loopHeld>>

\* The time of the pending call is up and the loop runs the timer of wait_for,
\* on time or late: the call is cancelled.
TimeIsUp(r) ==
  /\ ~loopHeld
  /\ phase[r] # "idle"
  /\ ~cancelling[r]
  /\ Timed(caller[r])
  /\ elapsed[r] >= TimeoutSeconds[caller[r]]
  /\ cancelling' = [cancelling EXCEPT ![r] = TRUE]
  /\ UNCHANGED <<primaryReady, fallbackState, cooldown, phase, caller, error, elapsed,
                 sinceFailure, loopHeld>>

\* What the pending call can fail with.  A cancelled call gives the timeout, or
\* the failure of what it does on its way out (OpenRouterProvider closes its
\* client inside its own try), and never an answer.
CanFailWith(r, e) ==
  IF cancelling[r] THEN e \in {"Timeout", "Unavailable"}
                   ELSE e \notin {"Timeout", "NotConfigured"}

PrimaryFails(r, e) ==
  /\ ~loopHeld
  /\ phase[r] = "primary"
  /\ CanFailWith(r, e)
  /\ NoteFailure(Primary, caller[r], e)
  /\ PrimaryFailed(r, caller[r], e)
  /\ UNCHANGED <<primaryReady, caller, loopHeld>>

FallbackAnswers(r) ==
  /\ ~loopHeld
  /\ phase[r] = "fallback"
  /\ ~cancelling[r]
  /\ Finish(r)
  /\ UNCHANGED <<primaryReady, fallbackState, cooldown, caller, sinceFailure, loopHeld>>

FallbackFails(r, e) ==
  /\ ~loopHeld
  /\ phase[r] = "fallback"
  /\ CanFailWith(r, e)
  /\ NoteFailure(Fallback, caller[r], e)
  /\ RecordCooldown(Fallback, caller[r], e)
  /\ Finish(r)
  /\ UNCHANGED <<primaryReady, fallbackState, caller, loopHeld>>

\* The test of fallback_provider_name is dropped from the fallback property.
HealthCheckRevivesMutant ==
  /\ ~loopHeld
  /\ primaryReady' = TRUE
  /\ fallbackState' \in {"unset", "ready", "disabled"}
  /\ UNCHANGED <<cooldown, phase, caller, error, timers, sinceFailure, loopHeld>>

\* health_check: creates what is missing, the fallback after an await, and so
\* may disable the fallback, or leave it unset when making it fails otherwise.
HealthCheck ==
  /\ ~loopHeld
  /\ primaryReady' = TRUE
  /\ fallbackState' \in IF fallbackState = "unset" THEN {"unset", "ready", "disabled"}
                                                   ELSE {fallbackState}
  /\ UNCHANGED <<cooldown, phase, caller, error, timers, sinceFailure, loopHeld>>

\* A coroutine of the process enters guardrail_pipeline.validate, which is a
\* plain call: it waits for its threads on the event loop's own thread.
HoldLoop ==
  /\ ~loopHeld
  /\ loopHeld' = TRUE
  /\ UNCHANGED <<primaryReady, fallbackState, cooldown, phase, caller, error, timers,
                 sinceFailure>>

\* The guardrails have answered.
ReleaseLoop ==
  /\ loopHeld
  /\ loopHeld' = FALSE
  /\ UNCHANGED <<primaryReady, fallbackState, cooldown, phase, caller, error, timers,
                 sinceFailure>>

Bump(t) == IF t < Cap THEN t + 1 ELSE t

\* One unit of time passes, whether the loop is held or not.
Tick ==
  /\ cooldown' = [p \in Providers |-> [c \in Callers |->
                    IF cooldown[p][c] > 0 THEN cooldown[p][c] - 1 ELSE 0]]
  /\ elapsed' = [r \in Requests |->
                    IF phase[r] = "idle" THEN elapsed[r] ELSE Bump(elapsed[r])]
  /\ sinceFailure' = [p \in Providers |-> [c \in Callers |->
                    Bump(sinceFailure[p][c])]]
  /\ UNCHANGED <<primaryReady, fallbackState, phase, caller, error, cancelling,
                 loopHeld>>

Step(r) ==
  \/ \E c \in Callers : StartPrimary(r, c) \/ StartRefused(r, c) \/ StartWithoutPrimary(r, c)
  \/ PrimaryAnswers(r)
  \/ FallbackAnswers(r)
  \/ TimeIsUp(r)
  \/ \E e \in Errors : PrimaryFails(r, e) \/ FallbackFails(r, e)

Next ==
  \/ \E r \in Requests : Step(r)
  \/ HealthCheck
  \/ HoldLoop
  \/ ReleaseLoop
  \/ Tick

Spec == Init /\ [][Next]_vars

\* Time passes, and a loop that is free again and again runs every timer that
\* is due: it serves all due timers before it goes on.  Nothing is assumed of
\* the providers, of the close of a cancelled call, or of the guardrails.
Fairness ==
  /\ WF_vars(Tick)
  /\ \A r \in Requests : SF_vars(TimeIsUp(r))

FairSpec == Spec /\ Fairness

-----------------------------------------------------------------------------
(* Properties                                                              *)

\* Whatever failed when, a call that is pending on a cooling pair began before
\* the cooldown did: nobody calls a provider that is cooling down for him, not
\* even a request that was already past its own checks (_raise_if_cooling_down).
PendingCallsPredateCooldown ==
  \A r \in Requests :
    phase[r] # "idle" /\ CoolingDown(phase[r], caller[r]) =>
      elapsed[r] >= CooldownSeconds[phase[r]][caller[r]] - cooldown[phase[r]][caller[r]]

\* A pair cools down only for failures of that provider with that caller, and
\* the fallback's cooldown is counted from its last failure, however many
\* requests it has refused meanwhile.
CooldownHasCause ==
  \A c \in Callers :
    /\ CoolingDown(Primary, c) => sinceFailure[Primary][c] # Never
    /\ CoolingDown(Fallback, c) =>
         cooldown[Fallback][c] + sinceFailure[Fallback][c] = CooldownSeconds[Fallback][c]

\* A cooldown only ever runs down with the clock: neither a success nor the
\* failure of another request cuts it short.
CooldownNeverCutShort ==
  [][\A p \in Providers, c \in Callers : cooldown'[p][c] >= cooldown[p][c] - 1]_vars

\* Once disabled the fallback stays disabled, and no request is sent to it any
\* more, whichever coroutine or health check found the key missing.
DisabledForGood ==
  [][fallbackState = "disabled" =>
       /\ fallbackState' = "disabled"
       /\ \A r \in Requests : phase'[r] = "fallback" => phase[r] = "fallback"]_vars

\* A request of a timed caller ends whatever the providers answer, provided
\* that what it may still wait for without a limit does not last for ever: the
\* end of a call that wait_for has cancelled, and the guardrails on the loop.
TimedRequestsEnd ==
  \A r \in Requests :
    []<>~loopHeld /\ []<>~cancelling[r] =>
      (phase[r] # "idle" /\ Timed(caller[r]) ~> phase[r] = "idle")

\* docs/API_REFERENCE.md: a failure of the authentication or configuration is
\* not answered by the second provider.  (A primary that cannot be made is.)
ConfigurationFailsClosed ==
  \A r \in Requests : phase[r] = "fallback" => error[r] # "NotConfigured"

=============================================================================
