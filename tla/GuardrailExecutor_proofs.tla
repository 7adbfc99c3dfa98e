----------------------- MODULE GuardrailExecutor_proofs -----------------------
(***************************************************************************)
(* Proofs about GuardrailExecutor, for any guardrails, severities, answers *)
(* and number of threads: the types, and that both modes implement         *)
(* GuardrailVerdict.                                                       *)
(***************************************************************************)
EXTENDS GuardrailExecutor, FiniteSetTheorems, TLAPS

\* The guardrails whose answer the accumulators of the current call hold.
Heard == IF mode = "parallel" THEN {g \in Guardrails : job[g] = "collected"}
                              ELSE {Order[i] : i \in 1..(next - 1)}

\* The accumulators are a function of who was heard, not of when.
HeardSoFar ==
  mode # "idle" =>
    /\ shouldBlock = (Heard \cap Promise!Blockers # {})
    /\ Range(blocking) = Heard \cap Promise!Blockers
    /\ AllPassed(results) = (Heard \subseteq Promise!Content)

\* A parallel call is thorough, and its jobs are new until they are submitted.
CallIsValid ==
  /\ mode = "parallel" => /\ thorough
                          /\ \A i \in next..Len(Order) : job[Order[i]] = "new"
  /\ mode # "idle" => verdict = NoVerdict

IInv == TypeOK /\ HeardSoFar /\ CallIsValid

-----------------------------------------------------------------------------
(* Sequences                                                               *)

\* The values of a concatenation are those of its parts.
LEMMA RangeOfConcat ==
  ASSUME NEW S, NEW s \in Seq(S), NEW t \in Seq(S)
  PROVE  Range(s \o t) = Range(s) \cup Range(t)
<1>1. ASSUME NEW x \in Range(s) PROVE x \in Range(s \o t)
  <2>1. PICK i \in 1..Len(s) : s[i] = x
    BY DEF Range
  <2>2. i \in DOMAIN (s \o t) /\ (s \o t)[i] = x
    BY <2>1
  <2> QED
    BY <2>2 DEF Range
<1>2. ASSUME NEW x \in Range(t) PROVE x \in Range(s \o t)
  <2>1. PICK i \in 1..Len(t) : t[i] = x
    BY DEF Range
  <2>2. Len(s) + i \in DOMAIN (s \o t) /\ (s \o t)[Len(s) + i] = x
    BY <2>1
  <2> QED
    BY <2>2 DEF Range
<1>3. ASSUME NEW x \in Range(s \o t) PROVE x \in Range(s) \cup Range(t)
  <2>1. PICK i \in 1..(Len(s) + Len(t)) : (s \o t)[i] = x
    BY <1>3 DEF Range
  <2>2. CASE i \in 1..Len(s)
    BY <2>1, <2>2 DEF Range
  <2>3. CASE i \in (Len(s) + 1)..(Len(s) + Len(t))
    <3>1. i - Len(s) \in DOMAIN t /\ t[i - Len(s)] = x
      BY <2>1, <2>3
    <3> QED
      BY <3>1 DEF Range
  <2> QED
    BY <2>2, <2>3
<1> QED
  BY <1>1, <1>2, <1>3

\* Appending adds one value.
LEMMA RangeOfAppend ==
  ASSUME NEW S, NEW s \in Seq(S), NEW x \in S
  PROVE  Range(Append(s, x)) = Range(s) \cup {x}
<1>1. Append(s, x) = s \o <<x>>
  OBVIOUS
<1>2. Range(<<x>>) = {x} /\ <<x>> \in Seq(S)
  BY DEF Range
<1>3. Range(s \o <<x>>) = Range(s) \cup Range(<<x>>)
  BY <1>2, RangeOfConcat
<1> QED
  BY <1>1, <1>2, <1>3

\* All of a concatenation passed iff all of both parts did.
LEMMA AllPassedOfConcat ==
  ASSUME NEW s \in Seq(Results), NEW t \in Seq(Results)
  PROVE  AllPassed(s \o t) = (AllPassed(s) /\ AllPassed(t))
<1>1. \A u \in Seq(Results) : AllPassed(u) <=> \A res \in Range(u) : Passed(res)
  BY DEF AllPassed, Range
<1>2. s \o t \in Seq(Results)
  OBVIOUS
<1>3. Range(s \o t) = Range(s) \cup Range(t)
  BY RangeOfConcat
<1>4. AllPassed(s \o t) <=> AllPassed(s) /\ AllPassed(t)
  BY <1>1, <1>2, <1>3
<1>5. AllPassed(s \o t) \in BOOLEAN /\ AllPassed(s) \in BOOLEAN
  BY DEF AllPassed
<1> QED
  BY <1>4, <1>5

\* A guardrail's answer is a list of results.
LEMMA ResultsOfType ==
  ASSUME NEW g \in Guardrails, NEW a \in Answers
  PROVE  ResultsOf(g, a) \in Seq(Results)
<1>1. CASE a.raised
  BY <1>1, SeverityAssumption DEF ResultsOf, Results, Checks, Severities, BlockingSeverities
<1>2. CASE ~a.raised
  <2>1. a.checks \in Seq(Checks) /\ DOMAIN a.checks = 1..Len(a.checks)
    BY DEF Answers
  <2>2. \A i \in DOMAIN a.checks :
          [name |-> g, severity |-> Severity[g], check |-> a.checks[i]] \in Results
    BY <2>1, SeverityAssumption DEF Results
  <2> QED
    BY <1>2, <2>1, <2>2 DEF ResultsOf
<1> QED
  BY <1>1, <1>2 DEF Answers

\* A name once for every position of a finite set: a list with that name in it
\* exactly when the set is not empty.
LEMMA TimesFacts ==
  ASSUME NEW g \in Guardrails, NEW rs \in Seq(Results), NEW S \in SUBSET DOMAIN rs
  PROVE  /\ Times(S, g) \in Seq(Guardrails)
         /\ Range(Times(S, g)) = IF S = {} THEN {} ELSE {g}
<1>1. IsFiniteSet(1..Len(rs)) /\ DOMAIN rs = 1..Len(rs)
  BY FS_Interval
<1>2. IsFiniteSet(S)
  BY <1>1, FS_Subset
<1>3. Cardinality(S) \in Nat /\ (Cardinality(S) = 0 <=> S = {})
  BY <1>2, FS_CardinalityType, FS_EmptySet
<1>4. Times(S, g) \in Seq(Guardrails) /\ DOMAIN Times(S, g) = 1..Cardinality(S)
  BY <1>3 DEF Times
<1>5. CASE S = {}
  BY <1>3, <1>4, <1>5 DEF Range
<1>6. CASE S # {}
  <2>1. 1 \in DOMAIN Times(S, g) /\ \A i \in DOMAIN Times(S, g) : Times(S, g)[i] = g
    BY <1>3, <1>4, <1>6 DEF Times
  <2> QED
    BY <1>6, <2>1, <1>4 DEF Range
<1> QED
  BY <1>4, <1>5, <1>6

-----------------------------------------------------------------------------
(* What one answer adds                                                    *)

\* An answer blocks, or passes, in the executor exactly when the promise counts
\* its guardrail among those that block, or that are content.
LEMMA AnswerFacts ==
  ASSUME TypeOK, NEW g \in Guardrails
  PROVE  /\ ResultsOf(g, answer[g]) \in Seq(Results)
         /\ AnyBlocks(ResultsOf(g, answer[g])) <=> g \in Promise!Blockers
         /\ AllPassed(ResultsOf(g, answer[g])) <=> g \in Promise!Content
         /\ g \in Promise!Blockers => g \notin Promise!Content
<1>1. ResultsOf(g, answer[g]) \in Seq(Results)
  BY ResultsOfType DEF TypeOK
<1>2. /\ AnyBlocks(ResultsOf(g, answer[g])) <=> g \in Promise!Blockers
      /\ AllPassed(ResultsOf(g, answer[g])) <=> g \in Promise!Content
  BY DEF Promise!Blockers, Promise!Content, Promise!AnyBlocks, Promise!AllPassed,
         Promise!ResultsOf, Promise!Objections, Promise!Blocks, Promise!Passed,
         Promise!BlockingSeverities, AnyBlocks, AllPassed, ResultsOf, Objections,
         Blocks, Passed, BlockingSeverities
<1>3. AnyBlocks(ResultsOf(g, answer[g])) => ~AllPassed(ResultsOf(g, answer[g]))
  BY DEF AnyBlocks, AllPassed, Objections, Blocks
<1> QED
  BY <1>1, <1>2, <1>3

\* Hearing one more guardrail keeps the accumulators a function of who was
\* heard.  Both loops come down to this.
LEMMA HearOneMore ==
  ASSUME TypeOK, HeardSoFar, mode # "idle", NEW g \in Guardrails,
         UNCHANGED <<mode, answer>>,
         Heard' = Heard \cup {g},
         results' = results \o ResultsOf(g, answer[g]),
         shouldBlock' = (shouldBlock \/ AnyBlocks(ResultsOf(g, answer[g]))),
         Range(blocking') = Range(blocking) \cup
                              (IF AnyBlocks(ResultsOf(g, answer[g])) THEN {g} ELSE {})
  PROVE  HeardSoFar'
<1> DEFINE new == ResultsOf(g, answer[g])
<1>1. /\ new \in Seq(Results)
      /\ AnyBlocks(new) <=> g \in Promise!Blockers
      /\ AllPassed(new) <=> g \in Promise!Content
  BY AnswerFacts
<1>2. Promise!Blockers' = Promise!Blockers /\ Promise!Content' = Promise!Content
  BY DEF Promise!Blockers, Promise!Content
<1>3. shouldBlock' = (Heard' \cap Promise!Blockers' # {})
  BY <1>1, <1>2 DEF HeardSoFar, TypeOK
<1>4. Range(blocking') = Heard' \cap Promise!Blockers'
  BY <1>1, <1>2 DEF HeardSoFar
<1>5. AllPassed(results') = (Heard' \subseteq Promise!Content')
  <2>1. AllPassed(results') = (AllPassed(results) /\ AllPassed(new))
    BY <1>1, AllPassedOfConcat DEF TypeOK
  <2> QED
    BY <1>1, <1>2, <2>1 DEF HeardSoFar
<1> QED
  BY <1>3, <1>4, <1>5 DEF HeardSoFar

-----------------------------------------------------------------------------
(* Every action keeps the invariant                                        *)

\* What a step to or from an action of both modes needs of the constants.
LEMMA OrderFacts ==
  /\ Len(Order) \in Nat /\ DOMAIN Order = 1..Len(Order)
  /\ \A i \in DOMAIN Order : Order[i] \in Guardrails
  /\ \A g \in Guardrails : \E i \in DOMAIN Order : Order[i] = g
BY OrderAssumption

LEMMA InitInv == Init => IInv
<1> SUFFICES ASSUME Init PROVE IInv
  OBVIOUS
<1>1. NoAnswer \in Answers
  BY DEF NoAnswer, Answers
<1>2. NoVerdict \in Verdicts
  BY DEF NoVerdict, Verdicts
<1>3. <<>> \in Seq(Results) /\ <<>> \in Seq(Guardrails)
  OBVIOUS
<1>4. mode \in Modes \cup {"idle"} /\ thorough \in BOOLEAN /\ shouldBlock \in BOOLEAN
  BY DEF Init
<1>5. answer \in [Guardrails -> Answers] /\ job \in [Guardrails -> JobStates]
  BY <1>1 DEF Init, JobStates
<1>6. next \in 1..(Len(Order) + 1)
  BY OrderFacts DEF Init
<1>7. TypeOK
  BY <1>2, <1>3, <1>4, <1>5, <1>6 DEF Init, TypeOK
<1> QED
  BY <1>7 DEF Init, IInv, HeardSoFar, CallIsValid

LEMMA CallInv ==
  ASSUME IInv, NEW m \in Modes, NEW t \in BOOLEAN, Call(m, t)
  PROVE  IInv'
<1>1. answer' \in [Guardrails -> Answers]
  BY AnswersAssumption DEF Call
<1>2. NoVerdict \in Verdicts
  BY DEF NoVerdict, Verdicts
<1>3. TypeOK'
  <2>1. <<>> \in Seq(Results) /\ <<>> \in Seq(Guardrails)
    OBVIOUS
  <2>2. job' \in [Guardrails -> JobStates]
    BY DEF Call, JobStates
  <2>3. next' \in 1..(Len(Order) + 1)
    BY OrderFacts DEF Call
  <2> QED
    BY <1>1, <1>2, <2>1, <2>2, <2>3 DEF Call, TypeOK
<1>4. Heard' = {}
  BY DEF Call, Heard
<1>5. AllPassed(results') /\ Range(blocking') = {}
  BY DEF Call, AllPassed, Range
<1>6. HeardSoFar'
  BY <1>3, <1>4, <1>5 DEF HeardSoFar, Call
<1>7. CallIsValid'
  BY OrderFacts DEF CallIsValid, Call
<1> QED
  BY <1>3, <1>6, <1>7 DEF IInv

\* The steps of the pool itself: nobody is heard.
LEMMA PoolInv ==
  ASSUME IInv, mode = "parallel", Heard' = Heard,
         job' \in [Guardrails -> JobStates], next' \in 1..(Len(Order) + 1),
         \A i \in next'..Len(Order) : job'[Order[i]] = "new",
         UNCHANGED <<mode, thorough, answer, accumulators, verdict>>
  PROVE  IInv'
<1>1. TypeOK'
  BY DEF IInv, TypeOK, accumulators
<1>2. Promise!Blockers' = Promise!Blockers /\ Promise!Content' = Promise!Content
  BY DEF Promise!Blockers, Promise!Content
<1>3. HeardSoFar'
  BY <1>2 DEF IInv, HeardSoFar, accumulators
<1>4. CallIsValid'
  BY DEF IInv, CallIsValid
<1> QED
  BY <1>1, <1>3, <1>4 DEF IInv

LEMMA SubmitInv == ASSUME IInv, Submit PROVE IInv'
<1> USE OrderFacts
<1>1. next \in 1..Len(Order) /\ Order[next] \in Guardrails /\ job[Order[next]] = "new"
  <2>1. next \in 1..(Len(Order) + 1) /\ next <= Len(Order) /\ mode = "parallel"
    BY DEF IInv, TypeOK, Submit
  <2>2. \A i \in next..Len(Order) : job[Order[i]] = "new"
    BY <2>1 DEF IInv, CallIsValid
  <2> QED
    BY <2>1, <2>2
<1>2. job' \in [Guardrails -> JobStates] /\ next' \in 1..(Len(Order) + 1)
  BY <1>1, OrderFacts DEF IInv, TypeOK, Submit, JobStates
<1>3. Heard' = Heard
  BY <1>1 DEF IInv, TypeOK, Submit, Heard
<1>4. \A i \in next'..Len(Order) : job'[Order[i]] = "new"
  <2>1. \A i \in next..Len(Order) : job[Order[i]] = "new"
    BY DEF IInv, CallIsValid, Submit
  <2>2. next' = next + 1 /\ job' = [job EXCEPT ![Order[next]] = "queued"]
    BY DEF Submit
  <2>3. ASSUME NEW i \in (next + 1)..Len(Order) PROVE Order[i] # Order[next]
    BY <1>1, OrderAssumption
  <2>4. job \in [Guardrails -> JobStates]
    BY DEF IInv, TypeOK
  <2> QED
    BY <1>1, <2>1, <2>2, <2>3, <2>4
<1> QED
  BY <1>2, <1>3, <1>4, PoolInv DEF Submit

LEMMA TakeInv == ASSUME IInv, NEW g \in Guardrails, Take(g) PROVE IInv'
<1>1. job \in [Guardrails -> JobStates] /\ next \in 1..(Len(Order) + 1)
  BY DEF IInv, TypeOK
<1>2. job' \in [Guardrails -> JobStates] /\ Heard' = Heard
  BY <1>1 DEF Take, Heard, JobStates
<1>3. \A i \in next'..Len(Order) : job'[Order[i]] = "new"
  BY <1>1, OrderFacts DEF IInv, CallIsValid, Take
<1> QED
  BY <1>1, <1>2, <1>3, PoolInv DEF Take

LEMMA CompleteInv == ASSUME IInv, NEW g \in Guardrails, Complete(g) PROVE IInv'
<1>1. job \in [Guardrails -> JobStates] /\ next \in 1..(Len(Order) + 1)
  BY DEF IInv, TypeOK
<1>2. job' \in [Guardrails -> JobStates] /\ Heard' = Heard
  BY <1>1 DEF Complete, Heard, JobStates
<1>3. \A i \in next'..Len(Order) : job'[Order[i]] = "new"
  BY <1>1, OrderFacts DEF IInv, CallIsValid, Complete
<1> QED
  BY <1>1, <1>2, <1>3, PoolInv DEF Complete

LEMMA CollectInv == ASSUME IInv, NEW g \in Guardrails, Collect(g) PROVE IInv'
<1> DEFINE new == ResultsOf(g, answer[g])
<1>1. TypeOK /\ HeardSoFar /\ CallIsValid
  BY DEF IInv
<1>2. new \in Seq(Results)
  BY <1>1, AnswerFacts
<1>3. Range(blocking') = Range(blocking) \cup (IF AnyBlocks(new) THEN {g} ELSE {})
  BY <1>1, RangeOfAppend DEF Collect, TypeOK
<1>4. shouldBlock' = (shouldBlock \/ AnyBlocks(new))
  BY <1>1 DEF Collect, TypeOK, AnyBlocks
<1>5. Heard' = Heard \cup {g}
  BY <1>1 DEF Collect, Heard, TypeOK
<1>6. HeardSoFar'
  BY <1>1, <1>3, <1>4, <1>5, HearOneMore DEF Collect
<1>7. TypeOK'
  <2>1. results' \in Seq(Results)
    BY <1>1, <1>2 DEF Collect, TypeOK
  <2>2. blocking' \in Seq(Guardrails) /\ shouldBlock' \in BOOLEAN
    <3>1. blocking \in Seq(Guardrails) /\ Append(blocking, g) \in Seq(Guardrails)
      BY <1>1 DEF TypeOK
    <3>2. blocking' = Append(blocking, g) \/ blocking' = blocking
      BY DEF Collect
    <3>3. AnyBlocks(new) \in BOOLEAN
      BY DEF AnyBlocks
    <3> QED
      BY <1>1, <1>4, <3>1, <3>2, <3>3 DEF TypeOK
  <2>3. ForReview(new) \in SUBSET DOMAIN new
    BY DEF ForReview
  <2>4. Times(ForReview(new), g) \in Seq(Guardrails)
    BY <1>2, <2>3, TimesFacts
  <2>5. findings' \in Seq(Guardrails)
    BY <1>1, <2>4 DEF Collect, TypeOK
  <2>6. job' \in [Guardrails -> JobStates]
    BY <1>1 DEF Collect, TypeOK, JobStates
  <2> QED
    BY <1>1, <2>1, <2>2, <2>5, <2>6 DEF Collect, TypeOK
<1>8. CallIsValid'
  BY <1>1, OrderFacts DEF Collect, CallIsValid, TypeOK
<1> QED
  BY <1>6, <1>7, <1>8 DEF IInv

\* A verdict is well formed; afterwards no call is in progress.
LEMMA ReturnInv == ASSUME IInv, Return PROVE IInv'
<1>1. verdict' \in Verdicts
  <2>1. AllPassed(results) \in BOOLEAN /\ (shouldBlock /\ Len(blocking) <= 2) \in BOOLEAN
    BY DEF AllPassed
  <2> QED
    BY <2>1 DEF IInv, TypeOK, Return, Verdicts
<1>2. TypeOK'
  BY <1>1 DEF IInv, TypeOK, Return, accumulators
<1>3. HeardSoFar' /\ CallIsValid'
  BY DEF HeardSoFar, CallIsValid, Return
<1> QED
  BY <1>2, <1>3 DEF IInv

\* The guardrail that the sequential loop is at.
LEMMA NextGuardrail ==
  ASSUME IInv, next <= Len(Order)
  PROVE  /\ Order[next] \in Guardrails
         /\ next + 1 \in 1..(Len(Order) + 1)
         /\ mode = "sequential" =>
              {Order[i] : i \in 1..next} = Heard \cup {Order[next]}
<1>1. next \in 1..Len(Order)
  BY OrderFacts DEF IInv, TypeOK
<1>2. 1..next = 1..(next - 1) \cup {next}
  BY <1>1, OrderFacts
<1> QED
  BY <1>1, <1>2, OrderFacts DEF Heard

LEMMA RunNextInv == ASSUME IInv, RunNext PROVE IInv'
<1> DEFINE g == Order[next]
           new == ResultsOf(g, answer[g])
<1>1. /\ TypeOK /\ HeardSoFar /\ CallIsValid
      /\ g \in Guardrails /\ next + 1 \in 1..(Len(Order) + 1)
      /\ {Order[i] : i \in 1..next} = Heard \cup {g}
  BY NextGuardrail DEF IInv, RunNext
<1>2. new \in Seq(Results)
  BY <1>1, AnswerFacts
<1>3. /\ Times(Objections(new), g) \in Seq(Guardrails)
      /\ Range(Times(Objections(new), g)) = IF AnyBlocks(new) THEN {g} ELSE {}
  <2>1. Objections(new) \in SUBSET DOMAIN new
    BY DEF Objections
  <2> QED
    BY <1>1, <1>2, <2>1, TimesFacts DEF AnyBlocks
<1>4. Range(blocking') = Range(blocking) \cup (IF AnyBlocks(new) THEN {g} ELSE {})
  BY <1>1, <1>3, RangeOfConcat DEF RunNext, TypeOK
<1>5. Heard' = Heard \cup {g}
  <2>1. (next + 1) - 1 = next
    BY <1>1 DEF TypeOK
  <2> QED
    BY <1>1, <2>1 DEF RunNext, Heard
<1>6. HeardSoFar'
  BY <1>1, <1>4, <1>5, HearOneMore DEF RunNext
<1>7. TypeOK'
  <2>1. results' \in Seq(Results)
    BY <1>1, <1>2 DEF RunNext, TypeOK
  <2>2. blocking' \in Seq(Guardrails) /\ shouldBlock' \in BOOLEAN
    BY <1>1, <1>3 DEF RunNext, TypeOK, AnyBlocks
  <2>3. ForReview(new) \in SUBSET DOMAIN new
    BY DEF ForReview
  <2>4. Times(ForReview(new), g) \in Seq(Guardrails)
    BY <1>1, <1>2, <2>3, TimesFacts
  <2>5. findings' \in Seq(Guardrails)
    BY <1>1, <2>4 DEF RunNext, TypeOK
  <2> QED
    BY <1>1, <2>1, <2>2, <2>5 DEF RunNext, TypeOK
<1>8. CallIsValid'
  BY <1>1 DEF RunNext, CallIsValid
<1> QED
  BY <1>6, <1>7, <1>8 DEF IInv

LEMMA RunNextAndStopInv == ASSUME IInv, RunNextAndStop PROVE IInv'
<1> DEFINE g == Order[next]
           new == ResultsOf(g, answer[g])
<1>1. TypeOK /\ g \in Guardrails /\ next + 1 \in 1..(Len(Order) + 1)
  BY NextGuardrail DEF IInv, RunNextAndStop
<1>2. new \in Seq(Results)
  BY <1>1, AnswerFacts
<1>3. results' \in Seq(Results) /\ blocking' \in Seq(Guardrails)
  BY <1>1, <1>2 DEF RunNextAndStop, TypeOK
<1>4. verdict' \in Verdicts
  BY <1>1, <1>3 DEF RunNextAndStop, TypeOK, Verdicts
<1>5. TypeOK'
  BY <1>1, <1>3, <1>4 DEF RunNextAndStop, TypeOK
<1>6. HeardSoFar' /\ CallIsValid'
  BY DEF RunNextAndStop, HeardSoFar, CallIsValid
<1> QED
  BY <1>5, <1>6 DEF IInv

LEMMA StutterInv == ASSUME IInv, UNCHANGED vars PROVE IInv'
<1>1. Promise!Blockers' = Promise!Blockers /\ Promise!Content' = Promise!Content
  BY DEF Promise!Blockers, Promise!Content, vars
<1>2. Heard' = Heard
  BY DEF Heard, vars
<1> QED
  BY <1>1, <1>2 DEF IInv, TypeOK, HeardSoFar, CallIsValid, vars, accumulators

LEMMA NextInv == ASSUME IInv, [Next]_vars PROVE IInv'
<1>1. CASE \E m \in Modes, t \in BOOLEAN : Call(m, t)
  BY <1>1, CallInv
<1>2. CASE Submit
  BY <1>2, SubmitInv
<1>3. CASE \E g \in Guardrails : Take(g) \/ Complete(g) \/ Collect(g)
  BY <1>3, TakeInv, CompleteInv, CollectInv
<1>4. CASE ReturnParallel \/ ReturnSequential
  BY <1>4, ReturnInv DEF ReturnParallel, ReturnSequential
<1>5. CASE RunNext
  BY <1>5, RunNextInv
<1>6. CASE RunNextAndStop
  BY <1>6, RunNextAndStopInv
<1>7. CASE UNCHANGED vars
  BY <1>7, StutterInv
<1> QED
  BY <1>1, <1>2, <1>3, <1>4, <1>5, <1>6, <1>7 DEF Next

-----------------------------------------------------------------------------
(* The theorems                                                            *)

\* The accumulators of a call, and its verdict, are well formed in every state.
THEOREM TypeCorrect == Spec => []TypeOK
<1>1. IInv => TypeOK
  BY DEF IInv
<1> QED
  BY <1>1, InitInv, NextInv, PTL DEF Spec

\* Whatever order the jobs of validate_parallel end in, and wherever the loop of
\* validate_sequential is, the accumulators are those of the guardrails heard.
THEOREM Invariance == Spec => []IInv
BY InitInv, NextInv, PTL DEF Spec

\* A call that has heard everybody returns a verdict that the answers justify.
LEMMA ReturnDecides ==
  ASSUME IInv, mode # "idle", Heard = Guardrails, Return
  PROVE  Promise!Decide
<1> DEFINE v == [all_passed   |-> verdict'.all_passed,
                 should_block |-> verdict'.should_block,
                 blocking     |-> Range(verdict'.blocking)]
<1>1. Promise!Blockers \subseteq Guardrails /\ Promise!Content \subseteq Guardrails
  BY DEF Promise!Blockers, Promise!Content
<1>2. /\ verdict'.all_passed = AllPassed(results)
      /\ verdict'.should_block = shouldBlock
      /\ verdict'.blocking = blocking
  BY DEF Return
<1>3. /\ v.all_passed = (Promise!Content = Guardrails)
      /\ v.should_block = (Promise!Blockers # {})
      /\ v.blocking = Promise!Blockers
  BY <1>1, <1>2 DEF IInv, HeardSoFar
<1>4. v \in Promise!Verdicts /\ Promise!Justified(v)
  BY <1>1, <1>3 DEF Promise!Verdicts, Promise!Justified
<1> QED
  BY <1>4 DEF Return, Promise!Decide

\* So does a fail-fast call that stops early: it has one good reason to block.
LEMMA StopDecides == ASSUME IInv, RunNextAndStop PROVE Promise!Decide
<1> DEFINE g == Order[next]
           new == ResultsOf(g, answer[g])
           v == [all_passed   |-> verdict'.all_passed,
                 should_block |-> verdict'.should_block,
                 blocking     |-> Range(verdict'.blocking)]
<1>1. TypeOK /\ g \in Guardrails
  BY NextGuardrail DEF IInv, RunNextAndStop
<1>2. AnyBlocks(new) /\ ~thorough
  BY DEF RunNextAndStop, StopsAt, AnyBlocks, Objections
<1>3. g \in Promise!Blockers /\ g \notin Promise!Content
  BY <1>1, <1>2, AnswerFacts
<1>4. Promise!Blockers \subseteq Guardrails
  BY DEF Promise!Blockers
<1>5. verdict'.all_passed = FALSE /\ verdict'.should_block = TRUE
  BY DEF RunNextAndStop
<1>6. Range(verdict'.blocking) = Range(blocking) \cup {g}
  BY <1>1, RangeOfAppend DEF RunNextAndStop, TypeOK
<1>7. Range(blocking) \subseteq Promise!Blockers
  BY DEF IInv, HeardSoFar, RunNextAndStop
<1>8. v \in Promise!Verdicts /\ Promise!Justified(v)
  BY <1>1, <1>2, <1>3, <1>4, <1>5, <1>6, <1>7 DEF Promise!Verdicts, Promise!Justified
<1> QED
  BY <1>8 DEF RunNextAndStop, Promise!Decide

LEMMA CallAsks ==
  ASSUME NEW m \in Modes, NEW t \in BOOLEAN, Call(m, t)
  PROVE  Promise!Ask
<1>1. answer' \in [Guardrails -> Promise!Answers] /\ \A g \in Guardrails : answer'[g] \in AnswersOf[g]
  BY AnswersAssumption DEF Call, Promise!Answers, Promise!Checks, Answers, Checks
<1>2. m # "idle"
  BY DEF Modes
<1>3. Range(<<>>) = {}
  BY DEF Range
<1> QED
  BY <1>1, <1>2, <1>3 DEF Call, NoVerdict, Promise!Ask, Promise!NoVerdict

LEMMA StepRefines == ASSUME IInv, [Next]_vars PROVE [Promise!Next]_(Promise!vars)
<1>1. CASE \E m \in Modes, t \in BOOLEAN : Call(m, t)
  BY <1>1, CallAsks DEF Promise!Next
<1>2. CASE ReturnParallel
  <2>1. Heard = Guardrails /\ mode # "idle"
    BY <1>2 DEF ReturnParallel, Heard
  <2> QED
    BY <1>2, <2>1, ReturnDecides DEF ReturnParallel, Promise!Next
<1>3. CASE ReturnSequential
  <2>1. next - 1 = Len(Order)
    BY <1>3, OrderFacts DEF ReturnSequential, IInv, TypeOK
  <2>2. Heard = Guardrails /\ mode # "idle"
    BY <1>3, <2>1, OrderFacts DEF ReturnSequential, Heard
  <2> QED
    BY <1>3, <2>2, ReturnDecides DEF ReturnSequential, Promise!Next
<1>4. CASE RunNextAndStop
  BY <1>4, StopDecides DEF Promise!Next
<1>5. CASE \/ Submit \/ RunNext \/ UNCHANGED vars
           \/ \E g \in Guardrails : Take(g) \/ Complete(g) \/ Collect(g)
  BY <1>5 DEF Submit, RunNext, Take, Complete, Collect, vars, Promise!vars
<1> QED
  BY <1>1, <1>2, <1>3, <1>4, <1>5 DEF Next

LEMMA InitRefines == Init => Promise!Init
<1>1. NoAnswer \in Promise!Answers
  BY DEF NoAnswer, Promise!Answers, Promise!Checks
<1>2. Range(<<>>) = {}
  BY DEF Range
<1> SUFFICES ASSUME Init PROVE Promise!Init
  OBVIOUS
<1>3. (mode # "idle") = FALSE /\ thorough \in BOOLEAN
  BY DEF Init
<1>4. answer \in [Guardrails -> Promise!Answers]
  BY <1>1 DEF Init
<1>5. [all_passed |-> verdict.all_passed, should_block |-> verdict.should_block,
       blocking |-> Range(verdict.blocking)] = Promise!NoVerdict
  BY <1>2 DEF Init, NoVerdict, Promise!NoVerdict
<1> QED
  BY <1>3, <1>4, <1>5 DEF Promise!Init

\* Every behaviour of the executor, in either mode, with any number of threads
\* and in any order of completion, is one the promise allows: should_block and
\* all_passed are functions of the guardrails' answers alone.
THEOREM KeepsPromise == Spec => ImplementsPromise
BY InitRefines, StepRefines, Invariance, PTL DEF Spec, ImplementsPromise, Promise!Spec

-----------------------------------------------------------------------------
(* Why a draft is blocked                                                  *)

\* The verdict of the last call blocks when some guardrail of it objects.
BlockIsJustified ==
  mode = "idle" /\ verdict # NoVerdict => verdict.should_block = (Promise!Blockers # {})

\* A guardrail objects when it raised, or when it is severe and a check failed.
LEMMA BlockersHaveCause ==
  ASSUME TypeOK, NEW g \in Guardrails
  PROVE  g \in Promise!Blockers <=>
           \/ answer[g].raised
           \/ /\ Severity[g] \in {"CRITICAL", "HIGH"}
              /\ Range(answer[g].checks) \ {"pass"} # {}
<1> DEFINE rs == ResultsOf(g, answer[g])
<1>1. g \in Promise!Blockers <=> \E i \in DOMAIN rs : Blocks(rs[i])
  BY AnswerFacts DEF AnyBlocks, Objections
<1>2. answer[g].raised \in BOOLEAN
  BY DEF TypeOK, Answers
<1>3. CASE answer[g].raised
  <2>1. 1 \in DOMAIN rs /\ rs[1] = [name |-> g, severity |-> "HIGH", check |-> "fail"]
    BY <1>3 DEF ResultsOf
  <2>2. Blocks(rs[1])
    BY <2>1 DEF Blocks, Passed, BlockingSeverities
  <2> QED  BY <1>1, <1>3, <2>1, <2>2
<1>4. CASE ~answer[g].raised
  <2>1. /\ DOMAIN rs = DOMAIN answer[g].checks
        /\ \A i \in DOMAIN rs :
             rs[i] = [name |-> g, severity |-> Severity[g], check |-> answer[g].checks[i]]
    BY <1>4 DEF ResultsOf
  <2>2. \A i \in DOMAIN rs :
          Blocks(rs[i]) <=> answer[g].checks[i] # "pass" /\ Severity[g] \in {"CRITICAL", "HIGH"}
    <3> SUFFICES ASSUME NEW i \in DOMAIN rs
                 PROVE  Blocks(rs[i]) <=> /\ answer[g].checks[i] # "pass"
                                          /\ Severity[g] \in {"CRITICAL", "HIGH"}
      OBVIOUS
    <3> HIDE DEF rs
    <3>1. rs[i] = [name |-> g, severity |-> Severity[g], check |-> answer[g].checks[i]]
      BY <2>1
    <3>2. rs[i].check = answer[g].checks[i] /\ rs[i].severity = Severity[g]
      BY <3>1
    <3> QED  BY <3>2 DEF Blocks, Passed, BlockingSeverities
  <2>3. Range(answer[g].checks) \ {"pass"} # {}
          <=> \E i \in DOMAIN answer[g].checks : answer[g].checks[i] # "pass"
    <3>1. \A c : c \in Range(answer[g].checks)
                   <=> \E i \in DOMAIN answer[g].checks : c = answer[g].checks[i]
      BY DEF Range
    <3>2. Range(answer[g].checks) \ {"pass"} # {}
            <=> \E c : c \in Range(answer[g].checks) /\ c # "pass"
      OBVIOUS
    <3> QED  BY <3>1, <3>2
  <2>4. (\E i \in DOMAIN rs : Blocks(rs[i]))
          <=> /\ Severity[g] \in {"CRITICAL", "HIGH"}
              /\ \E i \in DOMAIN answer[g].checks : answer[g].checks[i] # "pass"
    <3> HIDE DEF rs
    <3> QED  BY <2>1, <2>2
  <2> QED  BY <1>1, <1>4, <2>3, <2>4
<1> QED  BY <1>2, <1>3, <1>4

LEMMA StepJustifies ==
  ASSUME IInv, BlockIsJustified, [Next]_vars
  PROVE  BlockIsJustified'
<1>1. answer' = answer => Promise!Blockers' = Promise!Blockers
  BY DEF Promise!Blockers
<1>2. CASE mode # "idle" /\ Heard = Guardrails /\ Return
  <2>1. shouldBlock = (Guardrails \cap Promise!Blockers # {})
    BY <1>2 DEF IInv, HeardSoFar
  <2>2. Guardrails \cap Promise!Blockers = Promise!Blockers
    BY DEF Promise!Blockers
  <2>3. verdict'.should_block = shouldBlock /\ answer' = answer
    BY <1>2 DEF Return
  <2> QED  BY <1>1, <2>1, <2>2, <2>3 DEF BlockIsJustified
<1>3. CASE ReturnParallel
  BY <1>2, <1>3 DEF ReturnParallel, Heard
<1>4. CASE ReturnSequential
  <2>1. next - 1 = Len(Order)
    BY <1>4, OrderFacts DEF ReturnSequential, IInv, TypeOK
  <2>2. Heard = Guardrails
    BY <1>4, <2>1, OrderFacts DEF ReturnSequential, Heard
  <2> QED  BY <1>2, <1>4, <2>2 DEF ReturnSequential
<1>5. CASE RunNextAndStop
  <2>1. Order[next] \in Guardrails /\ TypeOK
    BY <1>5, NextGuardrail DEF IInv, RunNextAndStop
  <2>2. Order[next] \in Promise!Blockers
    BY <1>5, <2>1, AnswerFacts DEF RunNextAndStop, StopsAt, AnyBlocks, Objections
  <2>3. verdict'.should_block = TRUE /\ answer' = answer
    BY <1>5 DEF RunNextAndStop
  <2> QED  BY <1>1, <2>2, <2>3 DEF BlockIsJustified
<1>6. CASE \E m \in Modes, t \in BOOLEAN : Call(m, t)
  BY <1>6 DEF Call, BlockIsJustified
<1>7. CASE \/ Submit \/ RunNext \/ UNCHANGED vars
           \/ \E g \in Guardrails : Take(g) \/ Complete(g) \/ Collect(g)
  BY <1>1, <1>7 DEF Submit, RunNext, Take, Complete, Collect, vars, BlockIsJustified
<1> QED
  BY <1>3, <1>4, <1>5, <1>6, <1>7 DEF Next

\* A draft is blocked because a severe guardrail is not satisfied or any one
\* raised, and for no other reason (validate_parallel, validate_sequential).
THEOREM AlwaysBlockedForCause == Spec => []BlockedForCause
<1>1. Init => BlockIsJustified
  BY DEF Init, BlockIsJustified
<1>2. IInv /\ BlockIsJustified /\ [Next]_vars => BlockIsJustified'
  BY StepJustifies
<1>3. IInv /\ BlockIsJustified => BlockedForCause
  <2> SUFFICES ASSUME IInv, BlockIsJustified, mode = "idle", verdict # NoVerdict
               PROVE  verdict.should_block <=>
                        \E g \in Guardrails :
                          \/ answer[g].raised
                          \/ /\ Severity[g] \in {"CRITICAL", "HIGH"}
                             /\ Range(answer[g].checks) \ {"pass"} # {}
    BY DEF BlockedForCause
  <2>1. Promise!Blockers # {} <=> \E g \in Guardrails : g \in Promise!Blockers
    BY DEF Promise!Blockers
  <2> QED  BY <2>1, BlockersHaveCause DEF BlockIsJustified, IInv
<1> QED  BY <1>1, <1>2, <1>3, Invariance, PTL DEF Spec
=============================================================================
