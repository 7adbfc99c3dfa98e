-------------------------- MODULE LLMFactory_proofs ---------------------------
(***************************************************************************)
(* Proofs about LLMFactory, for any number of concurrent requests, any     *)
(* callers and any durations of timeouts and cooldowns.                    *)
(***************************************************************************)
EXTENDS LLMFactory, TLAPS

USE DEF Primary, Fallback, Providers

-----------------------------------------------------------------------------
(* How complete() goes on after a failed primary attempt.                  *)

LEMMA PrimaryFailedCases ==
  ASSUME NEW r \in Requests, NEW c \in Callers, NEW e \in Errors,
         fallbackState \in {"unset", "ready", "disabled"},
         PrimaryFailed(r, c, e)
  PROVE  /\ RecordCooldown(Primary, c, e)
         /\ fallbackState' \in {"unset", "ready", "disabled"}
         /\ fallbackState = "disabled" => fallbackState' = "disabled"
         /\ \/ Finish(r)
            \/ /\ FallbackPermitted(c, e)
               /\ fallbackState # "disabled"
               /\ ~CoolingDown(Fallback, c)
               /\ CallFallback(r, e)
  BY DEF PrimaryFailed

-----------------------------------------------------------------------------
(* Type correctness                                                        *)

LEMMA InitType == Init => TypeOK
  <1>1. 0 \in 0..Cap /\ Never \in 0..Never
    BY ConstantsAssumption DEF Never
  <1>2. SUFFICES ASSUME Init PROVE TypeOK
    OBVIOUS
  <1>3. cooldown \in [Providers -> [Callers -> 0..Cap]]
    BY <1>1, <1>2 DEF Init
  <1>4. sinceFailure \in [Providers -> [Callers -> 0..Never]]
    BY <1>1, <1>2 DEF Init
  <1>5. elapsed \in [Requests -> 0..Cap] /\ cancelling \in [Requests -> BOOLEAN]
    BY <1>1, <1>2 DEF Init
  <1>6. QED
    BY <1>2, <1>3, <1>4, <1>5 DEF Init, TypeOK, None

\* The three ways in which a step moves a request keep the types.
LEMMA FinishType ==
  ASSUME TypeOK, NEW r \in Requests, Finish(r)
  PROVE  /\ phase' \in [Requests -> {"idle", "primary", "fallback"}]
         /\ error' \in [Requests -> Errors \cup {None}]
         /\ elapsed' \in [Requests -> 0..Cap]
         /\ cancelling' \in [Requests -> BOOLEAN]
  BY ConstantsAssumption DEF TypeOK, Finish

LEMMA CallFallbackType ==
  ASSUME TypeOK, NEW r \in Requests, NEW e \in Errors,
         CallFallback(r, e)
  PROVE  /\ phase' \in [Requests -> {"idle", "primary", "fallback"}]
         /\ error' \in [Requests -> Errors \cup {None}]
         /\ elapsed' \in [Requests -> 0..Cap]
         /\ cancelling' \in [Requests -> BOOLEAN]
  BY ConstantsAssumption DEF TypeOK, CallFallback

LEMMA RecordCooldownType ==
  ASSUME TypeOK, NEW p \in Providers, NEW c \in Callers, NEW e,
         RecordCooldown(p, c, e)
  PROVE  cooldown' \in [Providers -> [Callers -> 0..Cap]]
  <1>1. CooldownSeconds[p][c] \in 0..Cap
    BY ConstantsAssumption
  <1>2. QED
    BY <1>1 DEF TypeOK, RecordCooldown

LEMMA NoteFailureType ==
  ASSUME TypeOK, NEW p \in Providers, NEW c \in Callers, NEW e,
         NoteFailure(p, c, e)
  PROVE  sinceFailure' \in [Providers -> [Callers -> 0..Never]]
  BY ConstantsAssumption DEF TypeOK, NoteFailure, Never

LEMMA PrimaryFailedType ==
  ASSUME TypeOK, NEW r \in Requests, NEW c \in Callers, NEW e \in Errors,
         PrimaryFailed(r, c, e)
  PROVE  /\ fallbackState' \in {"unset", "ready", "disabled"}
         /\ cooldown' \in [Providers -> [Callers -> 0..Cap]]
         /\ phase' \in [Requests -> {"idle", "primary", "fallback"}]
         /\ error' \in [Requests -> Errors \cup {None}]
         /\ elapsed' \in [Requests -> 0..Cap]
         /\ cancelling' \in [Requests -> BOOLEAN]
  <1>1. fallbackState \in {"unset", "ready", "disabled"}
    BY DEF TypeOK
  <1>2. fallbackState' \in {"unset", "ready", "disabled"} /\ RecordCooldown(Primary, c, e)
    BY <1>1, PrimaryFailedCases
  <1>3. cooldown' \in [Providers -> [Callers -> 0..Cap]]
    BY <1>2, RecordCooldownType
  <1>4. CASE Finish(r)
    BY <1>2, <1>3, <1>4, FinishType
  <1>5. CASE CallFallback(r, e)
    BY <1>2, <1>3, <1>5, CallFallbackType
  <1>6. QED
    BY <1>1, <1>4, <1>5, PrimaryFailedCases

LEMMA TickType == TypeOK /\ Tick => TypeOK'
  <1>1. SUFFICES ASSUME TypeOK, Tick PROVE TypeOK'
    OBVIOUS
  <1>2. Cap \in Nat
    BY ConstantsAssumption
  <1>3. cooldown' \in [Providers -> [Callers -> 0..Cap]]
    BY <1>1, <1>2 DEF Tick, TypeOK
  <1>4. elapsed' \in [Requests -> 0..Cap]
    BY <1>1, <1>2 DEF Tick, TypeOK, Bump
  <1>5. sinceFailure' \in [Providers -> [Callers -> 0..Never]]
    BY <1>1, <1>2 DEF Tick, TypeOK, Bump, Never
  <1>6. QED
    BY <1>1, <1>3, <1>4, <1>5 DEF Tick, TypeOK

LEMMA NextType == TypeOK /\ [Next]_vars => TypeOK'
  <1>1. SUFFICES ASSUME TypeOK, [Next]_vars PROVE TypeOK'
    OBVIOUS
  <1>2. CASE UNCHANGED vars
    BY <1>1, <1>2 DEF TypeOK, vars
  <1>3. ASSUME NEW r \in Requests, NEW c \in Callers, StartPrimary(r, c)
        PROVE  TypeOK'
    BY <1>1, <1>3 DEF StartPrimary, TypeOK, timers, None
  <1>4. ASSUME NEW r \in Requests, NEW c \in Callers, StartRefused(r, c)
        PROVE  TypeOK'
    <2>1. "Unavailable" \in Errors /\ "NotConfigured" \in Errors
      BY DEF Errors, Transient
    <2>2. QED
      BY <1>1, <1>4, <2>1, PrimaryFailedType DEF StartRefused, TypeOK
  <1>5. ASSUME NEW r \in Requests, NEW c \in Callers, StartWithoutPrimary(r, c)
        PROVE  TypeOK'
    <2>1. "Unavailable" \in Errors /\ "NotConfigured" \in Errors
      BY DEF Errors, Transient
    <2>2. QED
      BY <1>1, <1>5, <2>1, PrimaryFailedType, NoteFailureType
      DEF StartWithoutPrimary, TypeOK
  <1>6. ASSUME NEW r \in Requests, PrimaryAnswers(r) \/ FallbackAnswers(r)
        PROVE  TypeOK'
    BY <1>1, <1>6, FinishType DEF PrimaryAnswers, FallbackAnswers, TypeOK
  <1>7. ASSUME NEW r \in Requests, TimeIsUp(r) PROVE TypeOK'
    BY <1>1, <1>7 DEF TimeIsUp, TypeOK
  <1>8. ASSUME NEW r \in Requests, NEW e \in Errors, PrimaryFails(r, e)
        PROVE  TypeOK'
    <2>1. caller[r] \in Callers
      BY <1>1 DEF TypeOK
    <2>2. QED
      BY <1>1, <1>8, <2>1, PrimaryFailedType, NoteFailureType DEF PrimaryFails, TypeOK
  <1>9. ASSUME NEW r \in Requests, NEW e \in Errors, FallbackFails(r, e)
        PROVE  TypeOK'
    <2>1. caller[r] \in Callers
      BY <1>1 DEF TypeOK
    <2>2. QED
      BY <1>1, <1>9, <2>1, FinishType, RecordCooldownType, NoteFailureType
      DEF FallbackFails, TypeOK
  <1>10. CASE HealthCheck
    BY <1>1, <1>10 DEF HealthCheck, TypeOK, timers
  <1>11. CASE HoldLoop \/ ReleaseLoop
    BY <1>1, <1>11 DEF HoldLoop, ReleaseLoop, TypeOK, timers
  <1>12. CASE Tick
    BY <1>1, <1>12, TickType
  <1>13. QED
    BY <1>1, <1>2, <1>3, <1>4, <1>5, <1>6, <1>7, <1>8, <1>9, <1>10, <1>11, <1>12
    DEF Next, Step

\* Every reachable state is well typed (the state of LLMProviderWithFallback).
THEOREM TypeCorrect == Spec => []TypeOK
  BY InitType, NextType, PTL DEF Spec

-----------------------------------------------------------------------------
(* The inductive invariant.  The properties of the runs are not inductive  *)
(* by themselves: what is left of a cooldown must be known not to exceed   *)
(* its duration, and the clock of a request to start from zero.            *)

CooldownBounded ==
  \A p \in Providers, c \in Callers : cooldown[p][c] <= CooldownSeconds[p][c]

ClockOf(r) == phase[r] = "idle" => elapsed[r] = 0

Predates(r) ==
  phase[r] # "idle" /\ CoolingDown(phase[r], caller[r]) =>
    elapsed[r] >= CooldownSeconds[phase[r]][caller[r]] - cooldown[phase[r]][caller[r]]

RequestInv(r) == ClockOf(r) /\ Predates(r)

Cause(c) ==
  /\ CoolingDown(Primary, c) => sinceFailure[Primary][c] # Never
  /\ CoolingDown(Fallback, c) =>
       cooldown[Fallback][c] + sinceFailure[Fallback][c] = CooldownSeconds[Fallback][c]

IInv ==
  /\ TypeOK
  /\ CooldownBounded
  /\ \A c \in Callers : Cause(c)
  /\ \A r \in Requests : RequestInv(r)

LEMMA InvSafety == IInv => PendingCallsPredateCooldown /\ CooldownHasCause
  BY DEF IInv, RequestInv, Predates, Cause, PendingCallsPredateCooldown, CooldownHasCause

LEMMA InvInit == Init => IInv
  <1>1. SUFFICES ASSUME Init PROVE IInv
    OBVIOUS
  <1>2. TypeOK
    BY <1>1, InitType
  <1>3. \A p \in Providers, c \in Callers : cooldown[p][c] = 0
    BY <1>1 DEF Init
  <1>4. CooldownBounded
    BY <1>3, ConstantsAssumption DEF CooldownBounded
  <1>5. \A c \in Callers : Cause(c)
    BY <1>3 DEF Cause, CoolingDown
  <1>6. \A r \in Requests : RequestInv(r)
    BY <1>1 DEF Init, RequestInv, ClockOf, Predates
  <1>7. QED
    BY <1>2, <1>4, <1>5, <1>6 DEF IInv

-----------------------------------------------------------------------------
(* What the pieces of a step preserve.                                     *)

\* A step of another request leaves a request alone, except that a cooldown
\* may have been recorded meanwhile: then the pending call predates it at once.
LEMMA OthersPreserved ==
  ASSUME IInv, NEW s \in Requests,
         phase'[s] = phase[s], caller'[s] = caller[s], elapsed'[s] = elapsed[s],
         \A p \in Providers, c \in Callers :
            cooldown'[p][c] \in {cooldown[p][c], CooldownSeconds[p][c]}
  PROVE  RequestInv(s)'
  <1>1. ClockOf(s)'
    BY DEF IInv, RequestInv, ClockOf
  <1>2. Predates(s)'
    <2>1. SUFFICES ASSUME phase[s] # "idle", cooldown'[phase[s]][caller[s]] > 0
                   PROVE  elapsed[s] >= CooldownSeconds[phase[s]][caller[s]]
                                          - cooldown'[phase[s]][caller[s]]
      BY DEF Predates, CoolingDown
    <2>2. /\ phase[s] \in Providers /\ caller[s] \in Callers /\ elapsed[s] \in Nat
          /\ CooldownSeconds[phase[s]][caller[s]] \in Nat
      BY <2>1, ConstantsAssumption DEF IInv, TypeOK
    <2>3. CASE cooldown'[phase[s]][caller[s]] = cooldown[phase[s]][caller[s]]
      BY <2>1, <2>3 DEF IInv, RequestInv, Predates, CoolingDown
    <2>4. CASE cooldown'[phase[s]][caller[s]] = CooldownSeconds[phase[s]][caller[s]]
      BY <2>2, <2>4
    <2>5. QED
      BY <2>2, <2>3, <2>4
  <1>3. QED
    BY <1>1, <1>2 DEF RequestInv

LEMMA RecordCooldownEffect ==
  ASSUME TypeOK, NEW p \in Providers, NEW c \in Callers, NEW e, RecordCooldown(p, c, e)
  PROVE  /\ \A q \in Providers, d \in Callers :
              cooldown'[q][d] \in {cooldown[q][d], CooldownSeconds[q][d]}
         /\ \A q \in Providers, d \in Callers :
              cooldown'[q][d] # cooldown[q][d] => q = p /\ d = c /\ e \in Transient
         /\ e \in Transient => cooldown'[p][c] = CooldownSeconds[p][c]
  BY DEF TypeOK, RecordCooldown

LEMMA CooldownBoundedPreserved ==
  ASSUME IInv, \A p \in Providers, c \in Callers :
                  cooldown'[p][c] \in {cooldown[p][c], CooldownSeconds[p][c]}
  PROVE  CooldownBounded'
  <1>1. \A p \in Providers, c \in Callers : CooldownSeconds[p][c] \in Nat
    BY ConstantsAssumption
  <1>2. QED
    BY <1>1 DEF IInv, CooldownBounded

LEMMA FinishPreserves ==
  ASSUME IInv, NEW r \in Requests, Finish(r),
         \A s \in Requests \ {r} : caller'[s] = caller[s],
         \A p \in Providers, c \in Callers :
            cooldown'[p][c] \in {cooldown[p][c], CooldownSeconds[p][c]}
  PROVE  \A s \in Requests : RequestInv(s)'
  <1>1. ASSUME NEW s \in Requests, s # r PROVE RequestInv(s)'
    <2>1. phase'[s] = phase[s] /\ elapsed'[s] = elapsed[s] /\ caller'[s] = caller[s]
      BY <1>1 DEF IInv, TypeOK, Finish
    <2>2. QED
      BY <2>1, OthersPreserved
  <1>2. RequestInv(r)'
    BY DEF IInv, TypeOK, Finish, RequestInv, ClockOf, Predates
  <1>3. QED
    BY <1>1, <1>2

LEMMA CallFallbackPreserves ==
  ASSUME IInv, NEW r \in Requests, NEW c \in Callers, NEW e \in Errors,
         CallFallback(r, e), caller'[r] = c,
         ~CoolingDown(Fallback, c), cooldown'[Fallback][c] = cooldown[Fallback][c],
         \A s \in Requests \ {r} : caller'[s] = caller[s],
         \A p \in Providers, d \in Callers :
            cooldown'[p][d] \in {cooldown[p][d], CooldownSeconds[p][d]}
  PROVE  \A s \in Requests : RequestInv(s)'
  <1>1. ASSUME NEW s \in Requests, s # r PROVE RequestInv(s)'
    <2>1. phase'[s] = phase[s] /\ elapsed'[s] = elapsed[s] /\ caller'[s] = caller[s]
      BY <1>1 DEF IInv, TypeOK, CallFallback
    <2>2. QED
      BY <2>1, OthersPreserved
  <1>2. phase'[r] = "fallback" /\ elapsed'[r] = 0
    BY DEF IInv, TypeOK, CallFallback
  <1>3. RequestInv(r)'
    BY <1>2 DEF RequestInv, ClockOf, Predates, CoolingDown
  <1>4. QED
    BY <1>1, <1>3

LEMMA PrimaryFailedPreserves ==
  ASSUME IInv, NEW r \in Requests, NEW c \in Callers, NEW e \in Errors,
         PrimaryFailed(r, c, e), caller' = [caller EXCEPT ![r] = c]
  PROVE  CooldownBounded' /\ \A s \in Requests : RequestInv(s)'
  <1>1. TypeOK /\ fallbackState \in {"unset", "ready", "disabled"}
    BY DEF IInv, TypeOK
  <1>2. caller'[r] = c /\ \A s \in Requests \ {r} : caller'[s] = caller[s]
    BY <1>1 DEF TypeOK
  <1>3. RecordCooldown(Primary, c, e)
    BY <1>1, PrimaryFailedCases
  <1>4. /\ \A q \in Providers, d \in Callers :
             cooldown'[q][d] \in {cooldown[q][d], CooldownSeconds[q][d]}
        /\ cooldown'[Fallback][c] = cooldown[Fallback][c]
    BY <1>1, <1>3, RecordCooldownEffect
  <1>5. CooldownBounded'
    BY <1>4, CooldownBoundedPreserved
  <1>6. CASE Finish(r)
    BY <1>2, <1>4, <1>5, <1>6, FinishPreserves
  <1>7. CASE /\ FallbackPermitted(c, e)
             /\ ~CoolingDown(Fallback, c)
             /\ CallFallback(r, e)
    BY <1>2, <1>4, <1>5, <1>7, CallFallbackPreserves
  <1>8. QED
    BY <1>1, <1>6, <1>7, PrimaryFailedCases

LEMMA StartPrimaryPreserves ==
  ASSUME IInv, NEW r \in Requests, NEW c \in Callers, StartPrimary(r, c)
  PROVE  \A s \in Requests : RequestInv(s)'
  <1>1. ASSUME NEW s \in Requests, s # r PROVE RequestInv(s)'
    BY <1>1, OthersPreserved DEF IInv, TypeOK, StartPrimary, timers
  <1>2. /\ phase'[r] = "primary" /\ caller'[r] = c /\ cooldown'[Primary][c] = cooldown[Primary][c]
        /\ elapsed'[r] = 0
    BY DEF IInv, TypeOK, RequestInv, ClockOf, StartPrimary, timers
  <1>3. RequestInv(r)'
    BY <1>2 DEF StartPrimary, RequestInv, ClockOf, Predates, CoolingDown
  <1>4. QED
    BY <1>1, <1>3

\* A step that records no cooldown without noting the failure of the provider,
\* but may refresh the primary's that is running, keeps the causes.
LEMMA CausePreserved ==
  ASSUME IInv, NEW c \in Callers,
         /\ sinceFailure' = sinceFailure
         /\ cooldown'[Fallback][c] = cooldown[Fallback][c]
         /\ cooldown'[Primary][c] > 0 => cooldown[Primary][c] > 0
  PROVE  Cause(c)'
  BY DEF IInv, Cause, CoolingDown

LEMMA NotedCausePreserved ==
  ASSUME IInv, NEW p \in Providers, NEW d \in Callers, NEW e \in Errors,
         NoteFailure(p, d, e), RecordCooldown(p, d, e), NEW c \in Callers
  PROVE  Cause(c)'
  <1>1. /\ cooldown \in [Providers -> [Callers -> 0..Cap]]
        /\ sinceFailure \in [Providers -> [Callers -> 0..Never]]
        /\ \A q \in Providers : CooldownSeconds[q][c] \in Nat
    BY ConstantsAssumption DEF IInv, TypeOK
  <1>2. CASE e \notin Transient
    BY <1>2 DEF IInv, Cause, CoolingDown, NoteFailure, RecordCooldown
  <1>3. CASE e \in Transient /\ c # d
    <2>1. \A q \in Providers : cooldown'[q][c] = cooldown[q][c]
                              /\ sinceFailure'[q][c] = sinceFailure[q][c]
      BY <1>1, <1>3 DEF NoteFailure, RecordCooldown
    <2>2. QED
      BY <2>1 DEF IInv, Cause, CoolingDown
  <1>4. CASE e \in Transient /\ c = d
    <2>1. cooldown'[p][c] = CooldownSeconds[p][c] /\ sinceFailure'[p][c] = 0
      BY <1>1, <1>4 DEF NoteFailure, RecordCooldown
    <2>2. \A q \in Providers \ {p} : cooldown'[q][c] = cooldown[q][c]
                                    /\ sinceFailure'[q][c] = sinceFailure[q][c]
      BY <1>1, <1>4 DEF NoteFailure, RecordCooldown
    <2>3. 0 # Never
      BY ConstantsAssumption DEF Never
    <2>4. QED
      BY <1>1, <2>1, <2>2, <2>3 DEF IInv, Cause, CoolingDown
  <1>5. QED
    BY <1>2, <1>3, <1>4

LEMMA TickPreserves == IInv /\ Tick => IInv'
  <1>1. SUFFICES ASSUME IInv, Tick PROVE IInv'
    OBVIOUS
  <1>2. TypeOK'
    BY <1>1, TickType DEF IInv
  <1>3. \A p \in Providers, c \in Callers :
          /\ cooldown[p][c] \in 0..Cap /\ sinceFailure[p][c] \in 0..Never
          /\ CooldownSeconds[p][c] \in Nat /\ CooldownSeconds[p][c] < Cap /\ Cap \in Nat
          /\ cooldown[p][c] <= CooldownSeconds[p][c]
          /\ cooldown'[p][c] = IF cooldown[p][c] > 0 THEN cooldown[p][c] - 1 ELSE 0
          /\ sinceFailure'[p][c] = Bump(sinceFailure[p][c])
    BY <1>1, ConstantsAssumption DEF IInv, TypeOK, CooldownBounded, Tick
  <1>4. CooldownBounded'
    BY <1>3 DEF CooldownBounded
  <1>5. ASSUME NEW c \in Callers PROVE Cause(c)'
    <2>1. Cause(c)
      BY <1>1 DEF IInv
    <2>2. CoolingDown(Primary, c)' => sinceFailure'[Primary][c] # Never
      BY <1>3, <2>1 DEF Cause, CoolingDown, Bump, Never
    <2>3. CoolingDown(Fallback, c)' =>
            cooldown'[Fallback][c] + sinceFailure'[Fallback][c] = CooldownSeconds[Fallback][c]
      BY <1>3, <2>1 DEF Cause, CoolingDown, Bump, Never
    <2>4. QED
      BY <2>2, <2>3 DEF Cause
  <1>6. ASSUME NEW r \in Requests PROVE RequestInv(r)'
    <2>1. /\ phase' = phase /\ caller' = caller
          /\ elapsed'[r] = IF phase[r] = "idle" THEN elapsed[r] ELSE Bump(elapsed[r])
          /\ elapsed[r] \in 0..Cap /\ Cap \in Nat /\ caller[r] \in Callers
          /\ phase[r] # "idle" => phase[r] \in Providers
      BY <1>1, ConstantsAssumption DEF IInv, TypeOK, Tick
    <2>2. ClockOf(r) /\ Predates(r)
      BY <1>1 DEF IInv, RequestInv
    <2>3. ClockOf(r)'
      BY <2>1, <2>2 DEF ClockOf
    <2>4. Predates(r)'
      BY <1>3, <2>1, <2>2 DEF Predates, CoolingDown, Bump
    <2>5. QED
      BY <2>3, <2>4 DEF RequestInv
  <1>7. QED
    BY <1>2, <1>4, <1>5, <1>6 DEF IInv

LEMMA InvNext == IInv /\ [Next]_vars => IInv'
  <1>1. SUFFICES ASSUME IInv, [Next]_vars PROVE IInv'
    OBVIOUS
  <1>2. TypeOK /\ TypeOK'
    BY <1>1, NextType DEF IInv
  <1>3. "Unavailable" \in Errors /\ "NotConfigured" \in Errors
    BY DEF Errors, Transient
  <1>5. CASE UNCHANGED vars
    BY <1>1, <1>2, <1>5 DEF vars, IInv, CooldownBounded, Cause, CoolingDown, RequestInv, ClockOf, Predates
  <1>6. ASSUME NEW r \in Requests, NEW c \in Callers, StartPrimary(r, c) PROVE IInv'
    <2>1. \A d \in Callers : Cause(d)'
      BY <1>1, <1>6, CausePreserved DEF StartPrimary
    <2>2. CooldownBounded'
      BY <1>1, <1>6 DEF IInv, CooldownBounded, StartPrimary
    <2>3. QED
      BY <1>1, <1>2, <1>6, <2>1, <2>2, StartPrimaryPreserves DEF IInv
  <1>7. ASSUME NEW r \in Requests, NEW c \in Callers, StartRefused(r, c) PROVE IInv'
    <2>1. CooldownBounded' /\ \A s \in Requests : RequestInv(s)'
      BY <1>1, <1>3, <1>7, PrimaryFailedPreserves DEF StartRefused
    <2>2. RecordCooldown(Primary, c, "Unavailable")
      BY <1>2, <1>3, <1>7, PrimaryFailedCases DEF StartRefused, TypeOK
    <2>3. ASSUME NEW d \in Callers PROVE Cause(d)'
      <3>1. cooldown'[Fallback][d] = cooldown[Fallback][d]
        BY <1>2, <2>2, RecordCooldownEffect
      <3>2. cooldown'[Primary][d] > 0 => cooldown[Primary][d] > 0
        BY <1>2, <1>7, <2>2, RecordCooldownEffect DEF StartRefused, CoolingDown
      <3>3. QED
        BY <1>1, <1>7, <3>1, <3>2, CausePreserved DEF StartRefused
    <2>4. QED
      BY <1>2, <2>1, <2>3 DEF IInv
  <1>8. ASSUME NEW r \in Requests, NEW c \in Callers, StartWithoutPrimary(r, c) PROVE IInv'
    <2>1. CooldownBounded' /\ \A s \in Requests : RequestInv(s)'
      BY <1>1, <1>3, <1>8, PrimaryFailedPreserves DEF StartWithoutPrimary
    <2>2. RecordCooldown(Primary, c, "NotConfigured")
      BY <1>2, <1>3, <1>8, PrimaryFailedCases DEF StartWithoutPrimary, TypeOK
    <2>3. \A d \in Callers : Cause(d)'
      BY <1>1, <1>3, <1>8, <2>2, NotedCausePreserved DEF StartWithoutPrimary
    <2>4. QED
      BY <1>2, <2>1, <2>3 DEF IInv
  <1>9. ASSUME NEW r \in Requests, PrimaryAnswers(r) \/ FallbackAnswers(r) PROVE IInv'
    <2>1. /\ Finish(r)
          /\ UNCHANGED <<cooldown, caller, sinceFailure>>
      BY <1>9 DEF PrimaryAnswers, FallbackAnswers
    <2>2. \A s \in Requests : RequestInv(s)'
      BY <1>1, <2>1, FinishPreserves
    <2>3. CooldownBounded' /\ \A d \in Callers : Cause(d)'
      BY <1>1, <2>1 DEF IInv, CooldownBounded, Cause, CoolingDown
    <2>4. QED
      BY <1>2, <2>2, <2>3 DEF IInv
  <1>10. ASSUME NEW r \in Requests, NEW e \in Errors, PrimaryFails(r, e) PROVE IInv'
    <2>1. /\ caller[r] \in Callers
          /\ caller' = [caller EXCEPT ![r] = caller[r]]
      BY <1>2, <1>10 DEF TypeOK, PrimaryFails
    <2>3. CooldownBounded' /\ \A s \in Requests : RequestInv(s)'
      BY <1>1, <1>10, <2>1, PrimaryFailedPreserves DEF PrimaryFails
    <2>4. RecordCooldown(Primary, caller[r], e)
      BY <1>2, <1>10, <2>1, PrimaryFailedCases DEF PrimaryFails, TypeOK
    <2>5. \A d \in Callers : Cause(d)'
      BY <1>1, <1>10, <2>1, <2>4, NotedCausePreserved DEF PrimaryFails
    <2>6. QED
      BY <1>2, <2>3, <2>5 DEF IInv
  <1>11. ASSUME NEW r \in Requests, NEW e \in Errors, FallbackFails(r, e) PROVE IInv'
    <2>1. caller[r] \in Callers
      BY <1>2 DEF TypeOK
    <2>2. \A p \in Providers, c \in Callers :
            cooldown'[p][c] \in {cooldown[p][c], CooldownSeconds[p][c]}
      BY <1>2, <1>11, <2>1, RecordCooldownEffect DEF FallbackFails
    <2>3. \A s \in Requests : RequestInv(s)'
      BY <1>1, <1>11, <2>2, FinishPreserves DEF FallbackFails
    <2>4. CooldownBounded'
      BY <1>1, <2>2, CooldownBoundedPreserved
    <2>5. \A d \in Callers : Cause(d)'
      BY <1>1, <1>11, <2>1, NotedCausePreserved DEF FallbackFails
    <2>6. QED
      BY <1>2, <2>3, <2>4, <2>5 DEF IInv
  <1>12. CASE HealthCheck
    BY <1>1, <1>2, <1>12 DEF HealthCheck, timers, IInv, CooldownBounded, Cause, CoolingDown,
                            RequestInv, ClockOf, Predates
  <1>13. CASE Tick
    BY <1>1, <1>13, TickPreserves
  <1>14. ASSUME NEW r \in Requests, TimeIsUp(r) PROVE IInv'
    BY <1>1, <1>2, <1>14 DEF TimeIsUp, IInv, CooldownBounded, Cause, CoolingDown,
                             RequestInv, ClockOf, Predates
  <1>15. CASE HoldLoop \/ ReleaseLoop
    BY <1>1, <1>2, <1>15 DEF HoldLoop, ReleaseLoop, timers, IInv, CooldownBounded, Cause,
                             CoolingDown, RequestInv, ClockOf, Predates
  <1>16. QED
    BY <1>1, <1>5, <1>6, <1>7, <1>8, <1>9, <1>10, <1>11, <1>12, <1>13, <1>14, <1>15
    DEF Next, Step

THEOREM Invariance == Spec => []IInv
  BY InvInit, InvNext, PTL DEF Spec

-----------------------------------------------------------------------------
(* The theorems                                                            *)

\* A call that is pending on a cooling pair began before the cooldown
\* (_raise_if_cooling_down, checked before each of the two awaits).
THEOREM NoCallOnCoolingPair == Spec => []PendingCallsPredateCooldown
  BY Invariance, InvSafety, PTL

\* Every cooldown has a failure of that provider with that caller as its cause,
\* and the fallback's is counted from it (_record_cooldown).
THEOREM CooldownsHaveCauses == Spec => []CooldownHasCause
  BY Invariance, InvSafety, PTL

LEMMA CooldownStep ==
  ASSUME IInv, [Next]_vars, NEW p \in Providers, NEW c \in Callers
  PROVE  cooldown'[p][c] >= cooldown[p][c] - 1
  <1>1. /\ TypeOK /\ cooldown[p][c] \in Nat /\ CooldownSeconds[p][c] \in Nat
        /\ cooldown[p][c] <= CooldownSeconds[p][c]
    BY ConstantsAssumption DEF IInv, TypeOK, CooldownBounded
  <1>2. /\ "Unavailable" \in Errors /\ "NotConfigured" \in Errors
        /\ \A r \in Requests : caller[r] \in Callers
    BY <1>1 DEF Errors, Transient, TypeOK
  <1>3. fallbackState \in {"unset", "ready", "disabled"}
    BY <1>1 DEF TypeOK
  <1>4. ASSUME NEW q \in Providers, NEW d \in Callers, NEW e, RecordCooldown(q, d, e)
        PROVE  cooldown'[p][c] >= cooldown[p][c] - 1
    BY <1>1, <1>4, RecordCooldownEffect
  <1>5. CASE UNCHANGED cooldown
    BY <1>1, <1>5
  <1>6. CASE Tick
    BY <1>1, <1>6 DEF Tick
  <1>7. ASSUME NEW r \in Requests, NEW d \in Callers,
               StartRefused(r, d) \/ StartWithoutPrimary(r, d)
        PROVE  cooldown'[p][c] >= cooldown[p][c] - 1
    BY <1>2, <1>3, <1>4, <1>7, PrimaryFailedCases DEF StartRefused, StartWithoutPrimary
  <1>8. ASSUME NEW r \in Requests, NEW e \in Errors, PrimaryFails(r, e)
        PROVE  cooldown'[p][c] >= cooldown[p][c] - 1
    BY <1>2, <1>3, <1>4, <1>8, PrimaryFailedCases DEF PrimaryFails
  <1>9. ASSUME NEW r \in Requests, NEW e \in Errors, FallbackFails(r, e)
        PROVE  cooldown'[p][c] >= cooldown[p][c] - 1
    BY <1>2, <1>4, <1>9 DEF FallbackFails
  <1>10. QED
    BY <1>5, <1>6, <1>7, <1>8, <1>9
    DEF Next, Step, vars, StartPrimary, PrimaryAnswers, FallbackAnswers, TimeIsUp, HealthCheck,
        HoldLoop, ReleaseLoop

\* No success and no other failure cuts a cooldown short (_record_cooldown
\* only ever sets it to its full duration).
THEOREM CooldownMonotone == Spec => CooldownNeverCutShort
  <1>1. IInv /\ [Next]_vars =>
          [\A p \in Providers, c \in Callers : cooldown'[p][c] >= cooldown[p][c] - 1]_vars
    BY CooldownStep
  <1>2. QED
    BY <1>1, Invariance, PTL DEF Spec, CooldownNeverCutShort

LEMMA DisabledStep ==
  ASSUME IInv, [Next]_vars, fallbackState = "disabled"
  PROVE  /\ fallbackState' = "disabled"
         /\ \A r \in Requests : phase'[r] = "fallback" => phase[r] = "fallback"
  <1>1. /\ TypeOK /\ phase \in [Requests -> {"idle", "primary", "fallback"}]
        /\ "Unavailable" \in Errors /\ "NotConfigured" \in Errors
        /\ \A r \in Requests : caller[r] \in Callers
    BY DEF IInv, TypeOK, Errors, Transient
  <1>2. ASSUME NEW r \in Requests, Finish(r)
        PROVE  \A s \in Requests : phase'[s] = "fallback" => phase[s] = "fallback"
    BY <1>1, <1>2 DEF Finish
  <1>3. ASSUME NEW r \in Requests, NEW c \in Callers, NEW e \in Errors,
               PrimaryFailed(r, c, e)
        PROVE  /\ fallbackState' = "disabled"
               /\ \A s \in Requests : phase'[s] = "fallback" => phase[s] = "fallback"
    BY <1>2, <1>3, PrimaryFailedCases
  <1>4. CASE UNCHANGED <<fallbackState, phase>>
    BY <1>4
  <1>5. ASSUME NEW r \in Requests, NEW c \in Callers,
               \/ StartPrimary(r, c)
               \/ StartRefused(r, c)
               \/ StartWithoutPrimary(r, c)
        PROVE  /\ fallbackState' = "disabled"
               /\ \A s \in Requests : phase'[s] = "fallback" => phase[s] = "fallback"
    BY <1>1, <1>3, <1>5 DEF StartPrimary, StartRefused, StartWithoutPrimary
  <1>6. ASSUME NEW r \in Requests, NEW e \in Errors, PrimaryFails(r, e)
        PROVE  /\ fallbackState' = "disabled"
               /\ \A s \in Requests : phase'[s] = "fallback" => phase[s] = "fallback"
    BY <1>1, <1>3, <1>6 DEF PrimaryFails
  <1>7. ASSUME NEW r \in Requests,
               \/ PrimaryAnswers(r) \/ FallbackAnswers(r)
               \/ \E e \in Errors : FallbackFails(r, e)
        PROVE  /\ fallbackState' = "disabled"
               /\ \A s \in Requests : phase'[s] = "fallback" => phase[s] = "fallback"
    BY <1>2, <1>7 DEF PrimaryAnswers, FallbackAnswers, FallbackFails
  <1>8. QED
    BY <1>4, <1>5, <1>6, <1>7 DEF Next, Step, vars, TimeIsUp, HealthCheck, HoldLoop, ReleaseLoop, Tick

\* A fallback found without a key is never used again by anyone (the fallback
\* property sets fallback_provider_name to None).
THEOREM DisabledStaysDisabled == Spec => DisabledForGood
  <1>1. IInv /\ [Next]_vars =>
          [fallbackState = "disabled" =>
             /\ fallbackState' = "disabled"
             /\ \A r \in Requests : phase'[r] = "fallback" => phase[r] = "fallback"]_vars
    BY DisabledStep
  <1>2. QED
    BY <1>1, Invariance, PTL DEF Spec, DisabledForGood
=============================================================================
