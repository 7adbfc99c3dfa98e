-------------------------- MODULE ProviderCall_proofs --------------------------
(***************************************************************************)
(* Proofs that the safety properties of ProviderCall hold for any number   *)
(* of attempts.                                                            *)
(***************************************************************************)
EXTENDS ProviderCall, TLAPS

\* Nothing has happened before the call, and while it waits for an answer or a
\* pause its client is open, its time is not up and it has no outcome yet.
Progress ==
  /\ phase = "called" => sent = 0 /\ client = "none" /\ waited = 0
  /\ phase \in {"called", "sending", "pausing"} => ~cancelled /\ error = "none"
  /\ phase \in {"sending", "pausing"} => sent > 0 /\ client = "open"
  /\ phase = "closing" => Closes /\ client = "closing"
  /\ phase \in {"closing", "returned"} => sent > 0
  /\ Ended /\ Closes => client # "open"
  /\ client = "failed" => phase \in {"returned", "raised"}

\* A cancelled call keeps that outcome, unless its client cannot be closed.
Cancellation ==
  /\ cancelled => error = IF ClosingFailed THEN "Unavailable" ELSE "Cancelled"
  /\ error = "Cancelled" => cancelled
  /\ phase = "returned" => error = "none"

\* The count of the decorator.
Effort ==
  /\ sent <= Attempts
  /\ sent > 0 => waited <= 30 * (sent - 1)
  /\ sent <= 1 => waited = 0
  /\ phase = "pausing" =>
       sent < Attempts /\ seen.what \in {"quota", "server"}

\* What was not sent was not refused by the service.
Unsent == sent = 0 => seen = NoFault /\ error \notin {"RateLimited", "PolicyDenied"}

\* An error stands for the fault that was seen last.
Cause ==
  phase \in {"closing", "raised"} /\ ~cancelled /\ ~(phase = "raised" /\ ClosingFailed) /\ sent > 0 =>
    \/ phase = "closing" /\ error = "none"
    \/ /\ seen \in SightsOf(provider)
       /\ error = ErrorOf(seen)

IInv == TypeOK /\ Progress /\ Cancellation /\ Effort /\ Unsent /\ Cause

-----------------------------------------------------------------------------
\* At least one request may be sent.
LEMMA AttemptsType == provider \in Providers => Attempts \in Nat /\ Attempts >= 1
BY ConstantsAssumption DEF Attempts, Providers

\* A pause lasts between two and thirty seconds.
LEMMA PauseBounds == ASSUME NEW n \in Nat, n > 0 PROVE Pause(n) \in 0..30
<1>1. CASE n <= 5
  <2>1. n = 1 \/ n = 2 \/ n = 3 \/ n = 4 \/ n = 5
    BY <1>1
  <2> QED BY <2>1 DEF Pause
<1>2. CASE n > 5
  BY <1>2 DEF Pause
<1> QED BY <1>1, <1>2

\* What is raised for a fault is one of the classes of base.py.
LEMMA ErrorType == ASSUME provider \in Providers, NEW s \in Sights PROVE ErrorOf(s) \in Errors
BY DEF ErrorOf, Providers, VertexError, OpenAIError, OpenRouterError, Errors

LEMMA InitIInv == Init => IInv
<1> SUFFICES ASSUME Init PROVE IInv
  OBVIOUS
<1>1. Attempts \in Nat /\ Attempts >= 1
  BY AttemptsType DEF Init
<1>2. TypeOK
  BY DEF Init, TypeOK
<1>3. Progress
  BY DEF Init, Progress, Ended
<1>4. Cancellation
  BY DEF Init, Cancellation
<1>5. Effort
  BY <1>1 DEF Init, Effort
<1>6. Unsent /\ Cause
  BY DEF Init, Unsent, Cause
<1> QED
  BY <1>2, <1>3, <1>4, <1>5, <1>6 DEF IInv

\* What winding up does to the state.
LEMMA WindUpKeeps ==
  ASSUME IInv, phase \in {"sending", "pausing"}, NEW e \in Errors \cup {"none", "Cancelled"},
         WindUp(e)
  PROVE  /\ error' = e
         /\ \/ Closes /\ phase' = "closing" /\ client' = "closing"
            \/ ~Closes /\ phase' = "returned" /\ e = "none" /\ client' = "open"
            \/ ~Closes /\ phase' = "raised" /\ e # "none" /\ client' = "open"
BY DEF IInv, Progress, WindUp

LEMMA NextIInv == IInv /\ [Next]_vars => IInv'
<1> SUFFICES ASSUME IInv, [Next]_vars PROVE IInv'
  OBVIOUS
<1> USE DEF IInv
<1>a. Attempts \in Nat /\ Attempts >= 1
  BY AttemptsType DEF TypeOK
<1>b. UNCHANGED call => Attempts' = Attempts /\ (Closes' <=> Closes)
  BY DEF call, Attempts, Closes
<1>c. Unsent'
  <2> SUFFICES ASSUME sent' = 0
               PROVE  seen' = NoFault /\ error' \notin {"RateLimited", "PolicyDenied"}
    BY DEF Unsent
  <2>1. Refuse \/ UNCHANGED <<sent, seen, error>>
    BY DEF Next, vars, Begin, Answer, FaultRepeated, FaultRaised, SendAgain, Cancel,
           CancelClosing, Close, CloseFails, TypeOK, Progress
  <2>2. CASE Refuse
    BY <2>2 DEF Refuse, Progress, TypeOK, Providers, Unsent
  <2>3. CASE UNCHANGED <<sent, seen, error>>
    BY <2>3 DEF Unsent
  <2> QED BY <2>1, <2>2, <2>3
<1>1. CASE Begin
  <2>1. TypeOK'
    BY <1>1 DEF Begin, TypeOK, call
  <2>2. Progress'
    BY <1>1, <1>b DEF Begin, TypeOK, Progress, Ended, call
  <2>3. Cancellation'
    BY <1>1 DEF Begin, ClosingFailed, Progress, Cancellation, call
  <2>4. Effort'
    BY <1>1, <1>a, <1>b DEF Begin, Progress, Effort, call
  <2>5. Cause'
    BY <1>1 DEF Begin, Cause
  <2> QED BY <1>c, <2>1, <2>2, <2>3, <2>4, <2>5
<1>2. CASE Refuse
  <2>1. TypeOK' /\ error' \in Errors
    BY <1>2 DEF Refuse, TypeOK, call, Providers, Errors
  <2>2. Progress'
    BY <1>2, <1>b DEF Refuse, TypeOK, Progress, Ended, call
  <2>3. Cancellation'
    BY <1>2, <2>1 DEF Refuse, ClosingFailed, Progress, Cancellation, call, Errors
  <2>4. Effort'
    BY <1>2, <1>a, <1>b DEF Refuse, Progress, Effort, call
  <2>5. Cause'
    BY <1>2 DEF Refuse, Progress, Cause
  <2> QED BY <1>c, <2>1, <2>2, <2>3, <2>4, <2>5
<1>3. CASE Answer
  <2>1. /\ error' = "none"
        /\ \/ Closes /\ phase' = "closing" /\ client' = "closing"
           \/ ~Closes /\ phase' = "returned" /\ client' = "open"
    BY <1>3, WindUpKeeps DEF Answer
  <2>2. TypeOK'
    BY <1>3, <2>1 DEF Answer, TypeOK, call
  <2>3. Progress'
    BY <1>3, <2>1, <1>b DEF Answer, TypeOK, Progress, Ended
  <2>4. Cancellation'
    BY <1>3, <2>1 DEF Answer, ClosingFailed, Progress, Cancellation, call
  <2>5. Effort'
    BY <1>3, <2>1, <1>a, <1>b DEF Answer, Progress, Effort
  <2>6. Cause'
    BY <1>3, <2>1 DEF Answer, Cause
  <2> QED BY <1>c, <2>2, <2>3, <2>4, <2>5, <2>6
<1>4. ASSUME NEW s \in SightsOf(provider), FaultRepeated(s) PROVE IInv'
  <2>1. s \in Sights /\ s.what \in {"quota", "server"}
    BY <1>4 DEF FaultRepeated, Repeats, SightsOf
  <2>2. TypeOK'
    BY <1>4, <2>1 DEF FaultRepeated, TypeOK, call
  <2>3. Progress'
    BY <1>4, <1>b DEF FaultRepeated, TypeOK, Progress, Ended
  <2>4. Cancellation'
    BY <1>4 DEF FaultRepeated, ClosingFailed, Progress, Cancellation, call
  <2>5. Effort'
    BY <1>4, <2>1, <1>a, <1>b DEF FaultRepeated, Repeats, Progress, Effort
  <2>6. Cause'
    BY <1>4 DEF FaultRepeated, Cause
  <2> QED BY <1>c, <2>2, <2>3, <2>4, <2>5, <2>6
<1>5. ASSUME NEW s \in SightsOf(provider), FaultRaised(s) PROVE IInv'
  <2>1. s \in Sights /\ ErrorOf(s) \in Errors
    BY ErrorType DEF SightsOf, TypeOK
  <2>2. /\ error' = ErrorOf(s)
        /\ \/ Closes /\ phase' = "closing" /\ client' = "closing"
           \/ ~Closes /\ phase' = "raised" /\ client' = "open"
    BY <1>5, <2>1, WindUpKeeps DEF FaultRaised, Errors
  <2>3. TypeOK'
    BY <1>5, <2>1, <2>2 DEF FaultRaised, TypeOK, call
  <2>4. Progress'
    BY <1>5, <2>2, <1>b DEF FaultRaised, TypeOK, Progress, Ended
  <2>5. Cancellation'
    BY <1>5, <2>1, <2>2 DEF FaultRaised, ClosingFailed, Progress, Cancellation, call, Errors
  <2>6. Effort'
    BY <1>5, <2>2, <1>a, <1>b DEF FaultRaised, Progress, Effort
  <2>7. ErrorOf(s)' = ErrorOf(s) /\ provider' = provider
    BY <1>5 DEF FaultRaised, call, ErrorOf, VertexError, OpenAIError, OpenRouterError
  <2>8. seen' = s /\ error' = ErrorOf(seen)'
    BY <1>5, <2>2, <2>7 DEF FaultRaised, ErrorOf
  <2>9. Cause'
    BY <1>5, <2>7, <2>8 DEF Cause
  <2> QED BY <1>c, <2>3, <2>4, <2>5, <2>6, <2>9
<1>6. CASE SendAgain
  <2>1. Pause(sent) \in 0..30
    BY <1>6, PauseBounds DEF SendAgain, TypeOK, Progress
  <2>2. TypeOK'
    BY <1>6, <2>1 DEF SendAgain, TypeOK, call
  <2>3. Progress'
    BY <1>6, <1>b DEF SendAgain, TypeOK, Progress, Ended
  <2>4. Cancellation'
    BY <1>6 DEF SendAgain, ClosingFailed, Progress, Cancellation, call
  <2>5. Effort'
    BY <1>6, <2>1, <1>a, <1>b DEF SendAgain, TypeOK, Progress, Effort
  <2>6. Cause'
    BY <1>6 DEF SendAgain, Cause
  <2> QED BY <1>c, <2>2, <2>3, <2>4, <2>5, <2>6
<1>7. CASE Cancel
  <2>1. /\ error' = "Cancelled"
        /\ \/ Closes /\ phase' = "closing" /\ client' = "closing"
           \/ ~Closes /\ phase' = "raised" /\ client' = "open"
    BY <1>7, WindUpKeeps DEF Cancel
  <2>2. TypeOK'
    BY <1>7, <2>1 DEF Cancel, TypeOK, call
  <2>3. Progress'
    BY <1>7, <2>1, <1>b DEF Cancel, TypeOK, Progress, Ended
  <2>4. Cancellation'
    BY <1>7, <2>1 DEF Cancel, ClosingFailed, Progress, Cancellation, call
  <2>5. Effort'
    BY <1>7, <2>1, <1>a, <1>b DEF Cancel, Progress, Effort
  <2>6. Cause'
    BY <1>7 DEF Cancel, Cause
  <2> QED BY <1>c, <2>2, <2>3, <2>4, <2>5, <2>6
<1>8. CASE CancelClosing
  <2>1. TypeOK'
    BY <1>8 DEF CancelClosing, TypeOK, call
  <2>2. Progress'
    BY <1>8, <1>b DEF CancelClosing, TypeOK, Progress, Ended
  <2>3. Cancellation'
    BY <1>8 DEF CancelClosing, ClosingFailed, Progress, Cancellation, call
  <2>4. Effort'
    BY <1>8, <1>a, <1>b DEF CancelClosing, Progress, Effort
  <2>5. Cause'
    BY <1>8 DEF CancelClosing, Cause
  <2> QED BY <1>c, <2>1, <2>2, <2>3, <2>4, <2>5
<1>9. CASE Close
  <2>1. TypeOK'
    BY <1>9 DEF Close, TypeOK, call
  <2>2. Progress'
    BY <1>9, <1>b DEF Close, TypeOK, Progress, Ended
  <2>3. Cancellation'
    BY <1>9 DEF Close, ClosingFailed, Progress, Cancellation, call
  <2>4. Effort'
    BY <1>9, <1>a, <1>b DEF Close, Progress, Effort
  <2>5. Cause'
    BY <1>9 DEF Close, Progress, Cause, ClosingFailed, call, ErrorOf, VertexError,
                OpenAIError, OpenRouterError
  <2> QED BY <1>c, <2>1, <2>2, <2>3, <2>4, <2>5
<1>10. CASE CloseFails
  <2>1. TypeOK' /\ error' \in {error, "Unavailable"}
    BY <1>10 DEF CloseFails, TypeOK, call, Errors
  <2>2. Progress'
    BY <1>10, <1>b DEF CloseFails, TypeOK, Progress, Ended
  <2>3. provider # "vertex" => provider = "openrouter"
    BY <1>10 DEF CloseFails, TypeOK, Providers, Progress, Closes
  <2>4. Cancellation'
    BY <1>10, <2>1, <2>3 DEF CloseFails, ClosingFailed, Progress, Cancellation, call
  <2>5. Effort'
    BY <1>10, <1>a, <1>b DEF CloseFails, Progress, Effort
  <2>6. Cause'
    BY <1>10, <2>3 DEF CloseFails, Progress, Cause, ClosingFailed, call, ErrorOf,
                VertexError, OpenAIError, OpenRouterError
  <2> QED BY <1>c, <2>1, <2>2, <2>4, <2>5, <2>6
<1>11. CASE UNCHANGED vars
  <2>1. TypeOK' /\ Progress' /\ Cancellation'
    BY <1>11 DEF vars, ClosingFailed, call, TypeOK, Progress, Cancellation, Ended, Closes
  <2>2. Effort'
    BY <1>11, <1>b DEF vars, Effort
  <2>3. Cause'
    BY <1>11 DEF vars, call, Cause, ClosingFailed, ErrorOf, VertexError, OpenAIError,
                OpenRouterError
  <2> QED BY <1>c, <2>1, <2>2, <2>3
<1> QED
  BY <1>1, <1>2, <1>3, <1>4, <1>5, <1>6, <1>7, <1>8, <1>9, <1>10, <1>11 DEF Next

\* The invariant the properties below follow from.
THEOREM Invariance == Spec => []IInv
<1> QED BY InitIInv, NextIInv, PTL DEF Spec

\* The state of a call keeps its types, whatever the provider does.
THEOREM TypeCorrect == Spec => []TypeOK
<1>1. IInv => TypeOK
  BY DEF IInv
<1> QED BY <1>1, Invariance, PTL

\* No way out of a call leaves its client open.
THEOREM ClientAlwaysClosed == Spec => []ClientIsClosed
<1>1. IInv => ClientIsClosed
  BY DEF IInv, Progress, ClientIsClosed
<1> QED BY <1>1, Invariance, PTL

\* wait_for always sees the cancellation it has sent.
THEOREM CancellationNeverSwallowed == Spec => []CancellationIsNotSwallowed
<1>1. IInv => CancellationIsNotSwallowed
  BY DEF IInv, Cancellation, CancellationIsNotSwallowed, Ended
<1> QED BY <1>1, Invariance, PTL

\* The class raised is the one of the fault: RateLimited for the quota errors
\* alone, PolicyDenied for the policy alone, StructuredOutput for what would fail
\* again, as far as the providers tell (their except branches).
THEOREM FaultsAlwaysToldApart == Spec => []QuotaAndRejectionKeepApart
<1>1. IInv => QuotaAndRejectionKeepApart
  <2> DEFINE ToldApart == /\ seen.what = "quota" <=> error = "RateLimited"
                          /\ seen.what = "policy" <=> error = "PolicyDenied"
                          /\ \/ seen.what = "malformed"
                             \/ seen.what = "refused" /\ provider = "vertex"
                             => error = "StructuredOutput"
  <2> SUFFICES ASSUME IInv, phase = "raised", ~cancelled, ~ClosingFailed, ~seen.wordy
               PROVE  ToldApart
    BY DEF QuotaAndRejectionKeepApart
  <2>1. CASE sent = 0
    BY <2>1 DEF IInv, Unsent, NoFault
  <2>2. CASE sent > 0
    <3>1. seen \in SightsOf(provider) /\ error = ErrorOf(seen) /\ provider \in Providers
      BY <2>2 DEF IInv, Cause, TypeOK
    <3>2. CASE provider = "vertex"
      BY <3>1, <3>2 DEF ErrorOf, VertexError
    <3>3. CASE provider = "openai"
      BY <3>1, <3>3 DEF ErrorOf, OpenAIError, SightsOf
    <3>4. CASE provider = "openrouter"
      BY <3>1, <3>4 DEF ErrorOf, OpenRouterError, SightsOf
    <3> QED BY <3>1, <3>2, <3>3, <3>4 DEF Providers
  <2> QED BY <2>1, <2>2 DEF IInv, TypeOK
<1> QED BY <1>1, Invariance, PTL

\* Closing Vertex AI's client never changes the outcome of the call.
THEOREM AnswerAlwaysSurvives == Spec => []AnswerSurvivesClosing
<1>1. IInv => AnswerSurvivesClosing
  <2> SUFFICES ASSUME IInv, provider = "vertex", phase = "raised", sent > 0, ~cancelled
               PROVE  seen # NoFault /\ error = ErrorOf(seen)
    BY DEF AnswerSurvivesClosing
  <2>1. seen \in SightsOf(provider) /\ error = ErrorOf(seen)
    BY DEF IInv, Cause, ClosingFailed
  <2>2. seen.what \in Faults
    BY <2>1 DEF SightsOf, Sights
  <2>3. seen # NoFault
    BY <2>2 DEF NoFault, Faults
  <2> QED BY <2>1, <2>3
<1> QED BY <1>1, Invariance, PTL

\* The effort of a call is within its caller's limit.
THEOREM EffortAlwaysBounded == Spec => []EffortIsBounded
<1>1. IInv => EffortIsBounded
  BY ConstantsAssumption DEF IInv, TypeOK, Effort, EffortIsBounded, Attempts
<1> QED BY <1>1, Invariance, PTL

\* Nothing is sent after a cancellation, while closing, or after a lasting error.
THEOREM NothingIsSentInVain == Spec => NothingSentInVain
<1>1. ASSUME IInv, [Next]_vars
      PROVE  sent' > sent /\ sent > 0 =>
               ~cancelled' /\ client = "open" /\ seen.what \in {"quota", "server"}
  <2> SUFFICES ASSUME sent' > sent, sent > 0
               PROVE  ~cancelled' /\ client = "open" /\ seen.what \in {"quota", "server"}
    OBVIOUS
  <2>1. SendAgain \/ Begin \/ sent' = sent
    BY <1>1 DEF Next, vars, Refuse, Answer, FaultRepeated, FaultRaised, Cancel, CancelClosing,
                Close, CloseFails
  <2>2. ~(sent' = sent)
    BY <1>1 DEF IInv, TypeOK
  <2>3. ~Begin
    BY <1>1 DEF Begin, IInv, Progress
  <2>4. SendAgain
    BY <2>1, <2>2, <2>3
  <2> QED BY <1>1, <2>4 DEF SendAgain, IInv, Progress, Effort
<1>2. IInv /\ [Next]_vars =>
        [sent' > sent /\ sent > 0 =>
           ~cancelled' /\ client = "open" /\ seen.what \in {"quota", "server"}]_vars
  BY <1>1
<1> QED BY <1>2, Invariance, PTL DEF Spec, NothingSentInVain
=============================================================================
