---------------------------- MODULE ServiceProcess ----------------------------
(***************************************************************************)
(* One process of the service (main.py): requests pass its middleware and  *)
(* are handled, a watchdog looks every WatchdogSleep seconds at the time   *)
(* of the last request and tells the process to stop, and the server then  *)
(* lets what is under way go on for a while.  A request that calls a model *)
(* needs a credential of the task (EcsCredentials), in the thread of the   *)
(* event loop, a worker of its own or that of a guardrail.                 *)
(*                                                                         *)
(* The server, the middleware and the watchdog run on one event loop, and  *)
(* so does guardrail_pipeline.validate, which is a plain call that waits   *)
(* for the threads of the guardrails: until they have answered the loop    *)
(* runs nothing else.                                                      *)
(***************************************************************************)
EXTENDS EcsCredentials

CONSTANTS
  Requests,       \* connections that carry one request after the other
  Owner,          \* the request a thread works for
  Authenticated,  \* SERVICE_AUTH_TOKEN is set
  IdleLimit,      \* IDLE_SHUTDOWN_SECONDS
  WatchdogSleep,  \* the watchdog's asyncio.sleep
  Grace           \* --timeout-graceful-shutdown of the server

ASSUME ProcessAssumption ==
  /\ Owner \in [Threads -> Requests]
  /\ Authenticated \in BOOLEAN
  /\ IdleLimit \in Nat \ {0}
  /\ WatchdogSleep \in Nat \ {0}
  /\ Grace \in Nat

VARIABLES
  process,   \* "serving"; "stopping" once SIGTERM was sent; "gone"
  request,   \* what each connection carries
  age,       \* history: the time since each request passed the tracker
  idle,      \* the time since _last_request_time, up to IdleLimit
  nap,       \* what is left of the watchdog's sleep
  grace,     \* what is left of the server's patience
  loopHeld   \* the guardrails of a request run on the event loop

lifeVars == <<process, request, age, idle, nap, grace, loopHeld>>
vars == <<credentialVars, lifeVars>>

TypeOK ==
  /\ CredentialsTypeOK
  /\ process \in {"serving", "stopping", "gone"}
  /\ request \in [Requests -> {"none", "accepted", "handled"}]
  /\ age \in [Requests -> 0..IdleLimit]
  /\ idle \in 0..IdleLimit
  /\ nap \in 0..WatchdogSleep
  /\ grace \in 0..Grace
  /\ loopHeld \in BOOLEAN

Init ==
  /\ CredentialsInit
  /\ process = "serving"
  /\ request = [r \in Requests |-> "none"]
  /\ age = [r \in Requests |-> 0]
  /\ idle = 0
  /\ nap = WatchdogSleep
  /\ grace = Grace
  /\ loopHeld = FALSE

-----------------------------------------------------------------------------
(* Requests.                                                               *)

\* The server accepts a request; its coroutine has not run yet.
Accept(r) ==
  /\ ~loopHeld
  /\ process = "serving"
  /\ request[r] = "none"
  /\ request' = [request EXCEPT ![r] = "accepted"]
  /\ UNCHANGED <<credentialVars, process, age, idle, nap, grace, loopHeld>>

\* ServiceAuthMiddleware lets a request through when no token is configured, on
\* a public path, and with the right token.
Admits(public, token) == ~Authenticated \/ public \/ token = "right"

\* _track_last_request, the outermost middleware, notes the time of every
\* request, whether or not it is then refused with a 401.
Track(r, public, token) ==
  /\ ~loopHeld
  /\ process # "gone"
  /\ request[r] = "accepted"
  /\ idle' = 0
  /\ age' = [age EXCEPT ![r] = 0]
  /\ request' = [request EXCEPT ![r] = IF Admits(public, token) THEN "handled" ELSE "none"]
  /\ UNCHANGED <<credentialVars, process, nap, grace, loopHeld>>

\* A thread goes on with the model call of its request.
Works(t) == process # "gone" /\ request[Owner[t]] = "handled" /\ UNCHANGED lifeVars

Call(t) ==
  /\ Works(t)
  /\ \/ Enter(t)
     \/ ReturnCached(t)
     \/ Answer(t)
     \/ AskFails(t)
     \/ Store(t)

\* The answer is sent, by the route or by one of the two exception handlers,
\* once the request's model calls have ended.
Respond(r) ==
  /\ ~loopHeld
  /\ process # "gone"
  /\ request[r] = "handled"
  /\ \A t \in Threads : Owner[t] = r => step[t] = "out"
  /\ request' = [request EXCEPT ![r] = "none"]
  /\ age' = [age EXCEPT ![r] = 0]
  /\ UNCHANGED <<credentialVars, process, idle, nap, grace, loopHeld>>

\* A request that drafts has its guardrails checked, on the event loop.
HoldLoop(r) ==
  /\ process # "gone"
  /\ ~loopHeld
  /\ request[r] = "handled"
  /\ loopHeld' = TRUE
  /\ UNCHANGED <<credentialVars, process, request, age, idle, nap, grace>>

\* The guardrails have answered.
ReleaseLoop ==
  /\ loopHeld
  /\ loopHeld' = FALSE
  /\ UNCHANGED <<credentialVars, process, request, age, idle, nap, grace>>

-----------------------------------------------------------------------------
(* The watchdog and the server.                                            *)

\* The watchdog ends after its first look.
WatchMutant ==
  /\ ~loopHeld
  /\ process = "serving"
  /\ nap = 0
  /\ IF idle >= IdleLimit
       THEN process' = "stopping" /\ UNCHANGED nap
       ELSE nap' = None           /\ UNCHANGED process
  /\ UNCHANGED <<credentialVars, request, age, idle, grace, loopHeld>>

\* One look of _idle_shutdown_watchdog: SIGTERM, or another sleep.
Watch ==
  /\ ~loopHeld
  /\ process = "serving"
  /\ nap = 0
  /\ IF idle >= IdleLimit
       THEN process' = "stopping" /\ UNCHANGED nap
       ELSE nap' = WatchdogSleep  /\ UNCHANGED process
  /\ UNCHANGED <<credentialVars, request, age, idle, grace, loopHeld>>

\* The server stops when nothing is under way or its patience is over; lifespan
\* cancels the watchdog.
Exit ==
  /\ ~loopHeld
  /\ process = "stopping"
  /\ grace = 0 \/ \A r \in Requests : request[r] = "none"
  /\ process' = "gone"
  /\ UNCHANGED <<credentialVars, request, age, idle, nap, grace, loopHeld>>

Older(a) == IF a < IdleLimit THEN a + 1 ELSE a

Tick ==
  /\ process # "gone"
  /\ CredentialsAge
  /\ age' = [r \in Requests |-> IF request[r] = "handled" THEN Older(age[r]) ELSE age[r]]
  /\ idle' = Older(idle)
  /\ nap' = Aged(nap)
  /\ grace' = IF process = "stopping" THEN Aged(grace) ELSE grace
  /\ UNCHANGED <<process, request, loopHeld>>

EndpointRotates == process # "gone" /\ Rotate /\ UNCHANGED lifeVars

Next ==
  \/ \E r \in Requests :
       \/ Accept(r)
       \/ \E public \in BOOLEAN, token \in {"missing", "wrong", "right"} : Track(r, public, token)
       \/ Respond(r)
       \/ HoldLoop(r)
  \/ ReleaseLoop
  \/ \E t \in Threads : Call(t)
  \/ Watch
  \/ Exit
  \/ Tick
  \/ EndpointRotates

Spec == Init /\ [][Next]_vars

\* The clock goes on, and an event loop that is free again and again runs the
\* watchdog once its sleep is over: it serves all due timers before it goes on.
\* Nothing is assumed of the requests, the guardrails, the threads and the
\* endpoint.
FairSpec == Spec /\ WF_vars(Tick) /\ SF_vars(Watch)

-----------------------------------------------------------------------------
(* Properties                                                              *)

\* A process that gets no requests any more is told to stop (main.py:92-104,
\* docs/API_REFERENCE.md:395), also while a request hangs, unless it hangs in
\* guardrails that hold the event loop for ever: the watchdog looks again after
\* each sleep, and only a new request puts the time back.
IdleProcessStops ==
  []<>~loopHeld => []<>(idle = 0) \/ <>(process # "serving")

\* The process is only ever told to stop when each request under way passed the
\* tracker at least the idle limit ago; one that did may be cut short.
YoungRequestsAreSafe ==
  [][process = "serving" /\ process' = "stopping" =>
       \A r \in Requests : request[r] = "handled" => age[r] >= IdleLimit]_vars
=============================================================================
