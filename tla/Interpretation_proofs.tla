------------------------ MODULE Interpretation_proofs ------------------------
(***************************************************************************)
(* Theorems about Interpretation, for every set of requests and of answers *)
(* of the models.  The invariant says what is behind a response: which     *)
(* answer it was made of, and after which attempts.  What the services     *)
(* promise then follows from what a valid answer is, service by service,   *)
(* in lemmas that speak of a request q and an answer e only.               *)
(***************************************************************************)
EXTENDS Interpretation, FiniteSetTheorems, WellFoundedInduction, TLAPS

\* Before the last attempt, all were refused, and each prompt corrects the
\* attempt just before it.
IsUnderWay ==
  /\ attempt \in 1..Limit(request)
  /\ refused = 1..(attempt - 1)
  /\ subject = attempt - 1

Attempts ==
  /\ phase = "called" => attempt = 0 /\ refused = {} /\ subject = 0
  /\ phase = "asking" => IsUnderWay /\ ~IsDeclined(request)
  /\ phase = "raised" =>
       \/ attempt = 0 /\ refused = {} /\ subject = 0
       \/ IsUnderWay
       \/ attempt = Limit(request) /\ refused = 1..attempt /\ subject = attempt - 1

\* A response that was not asked for, one made of an answer, and two without.
IsDeclinedResponse ==
  /\ response.status = "declined"
  /\ IsDeclined(request) /\ attempt = 0
  /\ response.content = Declined(request)
  /\ response.billed = {} /\ response.prompt = 0
  /\ refused = {} /\ subject = 0

IsAnswer ==
  /\ response.status = "answered"
  /\ IsUnderWay /\ ~IsDeclined(request)
  /\ answer \in Answers[request.service]
  /\ IsValid(request, answer)
  /\ response.content = Content(request, answer)
  /\ response.billed = Billed /\ response.prompt = Audited

IsUnavailable ==
  /\ response.status = "unavailable"
  /\ request.service = "sent_scope"
  /\ IsUnderWay
  /\ response.content = Sent!Unavailable
  /\ response.billed = {} /\ response.prompt = subject

IsInvalid ==
  /\ response.status = "invalid"
  /\ request.service = "mail"
  /\ attempt = 1 /\ refused = {1} /\ subject = 0
  /\ response.billed = {1} /\ response.prompt = 0

Responses ==
  /\ phase \in {"called", "asking", "raised"} => response = NoResponse
  /\ phase = "returned" => IsDeclinedResponse \/ IsAnswer \/ IsUnavailable \/ IsInvalid

Inv ==
  /\ request \in Requests
  /\ phase \in {"called", "asking", "returned", "raised"}
  /\ Attempts
  /\ Responses

-----------------------------------------------------------------------------
(* The invariant.                                                          *)

LEMMA LimitType == ASSUME NEW q PROVE Limit(q) \in 1..MaxAttempts
  BY AttemptsAssumption DEF Limit

LEMMA InitInv == Init => Inv
  BY DEF Init, Inv, Attempts, Responses

LEMMA AcceptInv ==
  ASSUME Inv, NEW e \in Answers[request.service], Accept(e)
  PROVE  Inv'
<1>1. /\ request' = request /\ attempt' = attempt /\ subject' = subject /\ refused' = refused
      /\ answer' = e /\ phase' = "returned"
      /\ response' = [status |-> "answered", content |-> Content(request, e),
                      billed |-> Billed, prompt |-> Audited]
      /\ IsValid(request, e)
  BY DEF Accept
<1>2. IsUnderWay /\ ~IsDeclined(request) /\ request \in Requests
  BY DEF Accept, Inv, Attempts
<1>3. IsUnderWay' /\ IsDeclined(request)' = IsDeclined(request) /\ Billed' = Billed
      /\ Audited' = Audited
  BY <1>1, <1>2 DEF IsUnderWay, Billed, Audited
<1>4. IsAnswer'
  BY <1>1, <1>2, <1>3 DEF IsAnswer
<1> QED BY <1>1, <1>2, <1>4 DEF Inv, Attempts, Responses

LEMMA StepInv == Inv /\ [Next]_vars => Inv'
<1> SUFFICES ASSUME Inv, [Next]_vars PROVE Inv'
  OBVIOUS
<1> USE DEF Inv, Attempts, Responses
<1>1. CASE Decline
  BY <1>1 DEF Decline, NoResponse, IsDeclinedResponse
<1>2. CASE FailEarly
  BY <1>2 DEF FailEarly
<1>3. CASE Begin
  BY <1>3, LimitType DEF Begin, IsUnderWay
<1>4. CASE ProviderFails
  BY <1>4 DEF ProviderFails, IsUnderWay
<1>5. CASE ReturnUnavailable
  BY <1>5 DEF ReturnUnavailable, IsUnavailable, IsUnderWay
<1>6. ASSUME NEW e \in Answers[request.service], Accept(e) PROVE Inv'
  BY <1>6, AcceptInv
<1>7. ASSUME NEW e \in Answers[request.service], Refuse(e) PROVE Inv'
  BY <1>7, LimitType DEF Refuse, IsUnderWay
<1>8. ASSUME NEW e \in Answers[request.service], GiveUp(e) PROVE Inv'
  BY <1>8, LimitType DEF GiveUp, IsUnderWay
<1>9. ASSUME NEW e \in Answers[request.service], ReturnInvalid(e) PROVE Inv'
  BY <1>9, LimitType DEF ReturnInvalid, IsUnderWay, IsInvalid, Limit, Billed
<1>10. CASE UNCHANGED vars
  BY <1>10 DEF vars, IsUnderWay, IsDeclinedResponse, IsAnswer, IsUnavailable, IsInvalid, Billed,
            Audited
<1> QED BY <1>1, <1>2, <1>3, <1>4, <1>5, <1>6, <1>7, <1>8, <1>9, <1>10 DEF Next

LEMMA SpecInv == Spec => []Inv
  BY InitInv, StepInv, PTL DEF Spec

LEMMA ResponseInv ==
  ASSUME Inv, phase = "returned"
  PROVE  IsDeclinedResponse \/ IsAnswer \/ IsUnavailable \/ IsInvalid
  BY DEF Inv, Responses

\* An answered request of a service, its answer and the response made of it.
LEMMA AnswerOf ==
  ASSUME Inv, NEW s, IsAnswered(s)
  PROVE  /\ request \in Requests /\ IsRequest(request) /\ request.service = s
         /\ answer \in Answers[s]
         /\ IsValid(request, answer)
         /\ response.content = Content(request, answer)
<1>1. IsAnswer
  BY ResponseInv DEF IsAnswered, IsDeclinedResponse, IsUnavailable, IsInvalid
<1> QED BY <1>1, RequestsAssumption DEF IsAnswered, IsAnswer, Inv

\* The state of a request keeps its types.
THEOREM TypeCorrect == Spec => []TypeOK
<1>1. Inv => TypeOK
  <2> SUFFICES ASSUME Inv PROVE TypeOK
    OBVIOUS
  <2>1. /\ attempt \in 0..MaxAttempts /\ subject \in 0..MaxAttempts
        /\ refused \subseteq 1..MaxAttempts
    <3>1. MaxAttempts \in Nat \ {0} /\ Limit(request) \in 1..MaxAttempts
      BY LimitType, AttemptsAssumption
    <3> QED BY <3>1
        DEF Inv, Attempts, Responses, IsUnderWay, IsDeclinedResponse, IsAnswer, IsUnavailable,
            IsInvalid
  <2>2. /\ response.status \in {"none", "declined", "answered", "invalid", "unavailable"}
        /\ response.billed \subseteq 1..MaxAttempts
        /\ response.prompt \in 0..MaxAttempts
    <3>1. CASE phase # "returned"
      <4>1. response = NoResponse
        BY <3>1 DEF Inv, Responses
      <4>2. 0 \in 0..MaxAttempts
        BY AttemptsAssumption
      <4> QED BY <4>1, <4>2 DEF NoResponse
    <3>2. CASE IsDeclinedResponse
      BY <3>2, AttemptsAssumption DEF IsDeclinedResponse
    <3>3. CASE IsAnswer
      <4>1. attempt \in 1..MaxAttempts
        <5>1. MaxAttempts \in Nat \ {0} /\ Limit(request) \in 1..MaxAttempts
          BY LimitType, AttemptsAssumption
        <5> QED BY <3>3, <5>1 DEF IsAnswer, IsUnderWay
      <4>2. Billed \subseteq 1..MaxAttempts
        BY <4>1, AttemptsAssumption DEF Billed
      <4>3. Audited \in 0..MaxAttempts
        BY <2>1, AttemptsAssumption DEF Audited
      <4> QED BY <3>3, <4>2, <4>3 DEF IsAnswer
    <3>4. CASE IsUnavailable
      BY <2>1, <3>4 DEF IsUnavailable
    <3>5. CASE IsInvalid
      BY <2>1, <3>5, AttemptsAssumption DEF IsInvalid
    <3> QED BY <3>1, <3>2, <3>3, <3>4, <3>5, ResponseInv
  <2> QED BY <2>1, <2>2 DEF TypeOK, Inv
<1> QED BY <1>1, SpecInv, PTL

\* No service asks more often than it may, or corrects another attempt than the
\* last; none but the weekly report reports another prompt than that attempt had,
\* and none fewer tokens.
THEOREM AttemptsAreAlwaysAccounted == Spec => []AttemptsAreAccounted
<1>1. ASSUME Inv PROVE AttemptsAreAccounted
  <2>1. /\ attempt <= Limit(request)
        /\ phase = "asking" \/ response.status \in {"answered", "unavailable"} =>
             refused = 1..(attempt - 1) /\ subject = attempt - 1
        /\ phase = "raised" =>
             \/ refused = 1..(attempt - 1)
             \/ attempt = Limit(request) /\ refused = 1..attempt
    <3>1. Limit(request) \in Nat /\ Limit(request) >= 1
      BY LimitType, AttemptsAssumption
    <3>2. attempt <= Limit(request)
      BY <1>1, <3>1
      DEF Inv, Attempts, Responses, IsUnderWay, IsDeclinedResponse, IsAnswer, IsUnavailable,
          IsInvalid
    <3>3. phase = "asking" \/ response.status \in {"answered", "unavailable"} => IsUnderWay
      BY <1>1
      DEF Inv, Attempts, Responses, IsDeclinedResponse, IsAnswer, IsUnavailable, IsInvalid,
          NoResponse
    <3>4. phase = "raised" =>
            \/ refused = 1..(attempt - 1)
            \/ attempt = Limit(request) /\ refused = 1..attempt
      <4>1. 1..(0 - 1) = {}
        OBVIOUS
      <4>2. attempt = 0 /\ refused = {} => refused = 1..(attempt - 1)
        BY <4>1
      <4> QED BY <1>1, <4>2 DEF Inv, Attempts, IsUnderWay
    <3> QED BY <3>2, <3>3, <3>4 DEF IsUnderWay
  <2>2. CASE response.status \notin {"answered", "invalid"}
    BY <2>1, <2>2 DEF AttemptsAreAccounted
  <2>3. CASE IsAnswer
    <3>1. response.prompt = IF request.service = "weekly" THEN 0 ELSE attempt - 1
      BY <2>3 DEF IsAnswer, IsUnderWay, Audited
    <3>2. /\ attempt \in response.billed
          /\ request.service = "manual_note" => response.billed = 1..attempt
      BY <2>3, LimitType, AttemptsAssumption DEF IsAnswer, IsUnderWay, Billed
    <3> QED BY <2>1, <3>1, <3>2 DEF AttemptsAreAccounted
  <2>4. CASE IsInvalid
    BY <2>1, <2>4 DEF IsInvalid, AttemptsAreAccounted
  <2> QED BY <1>1, <2>2, <2>3, <2>4
      DEF Inv, Responses, IsDeclinedResponse, IsUnavailable, NoResponse
<1> QED BY <1>1, SpecInv, PTL

-----------------------------------------------------------------------------
(* The least and the last of something exist.                              *)

LEMMA LeastExists ==
  ASSUME NEW S \in SUBSET Nat, S # {}
  PROVE  \E n \in S : \A m \in S : n <= m
<1>1. PICK n \in S : \A m \in S : ~(<<m, n>> \in OpToRel(<, Nat))
  BY WFMin, NatLessThanWellFounded, Zenon
<1>2. ASSUME NEW m \in S PROVE n <= m
  <2>1. ~(m < n)
    BY <1>1 DEF OpToRel
  <2> QED BY <2>1
<1> QED BY <1>2

LEMMA LastExists ==
  ASSUME NEW k \in Nat, NEW S \in SUBSET (1..k), S # {}
  PROVE  \E n \in S : \A m \in S : m <= n
<1> DEFINE T == {k - m : m \in S}
<1>1. T \in SUBSET Nat /\ T # {}
  <2>1. \A m \in S : m \in Nat /\ k - m \in Nat
    OBVIOUS
  <2>2. T \in SUBSET Nat
    BY <2>1
  <2>3. PICK m \in S : TRUE
    OBVIOUS
  <2>4. k - m \in T
    BY <2>3
  <2> QED BY <2>2, <2>4
<1>2. PICK t \in T : \A u \in T : t <= u
  BY <1>1, LeastExists
<1>3. PICK n \in S : t = k - n
  BY <1>2
<1>4. ASSUME NEW m \in S PROVE m <= n
  BY <1>2, <1>3
<1> QED BY <1>4

-----------------------------------------------------------------------------
(* Manual notes.                                                           *)

LEMMA NoteServed ==
  ASSUME Inv, IsAnswered("manual_note")
  PROVE  /\ Note!IsNote(request) /\ answer \in Note!Extractions
         /\ Note!IsValid(request, answer)
         /\ response.content = Note!Response(answer)
  BY AnswerOf, AnswersAssumption DEF IsRequest, AnswersAreTyped, IsValid, Content

\* Cleaning an assertion touches nothing but the date.
LEMMA CleanedOnly ==
  ASSUME NEW a \in Note!Assertions, NEW c, c = Note!Cleaned(a)
  PROVE  /\ c.type = a.type /\ c.transition = a.transition /\ c.refs = a.refs
         /\ c.amount = a.amount /\ c.full = a.full /\ c.resolves = a.resolves
         /\ c.date = IF a.date = "unfounded" /\ Note!DateIsOptional(a) THEN "none"
                     ELSE a.date
  BY DEF Note!Cleaned, Note!Assertions

\* What a response asserts are the assertions of a valid answer, cleaned.
LEMMA AssertedOf ==
  ASSUME NEW n, NEW e \in Note!Extractions, Note!IsValid(n, e), NEW r, r = Note!Response(e)
  PROVE  /\ DOMAIN r.assertions = DOMAIN e.assertions
         /\ \A i \in DOMAIN e.assertions :
              /\ e.assertions[i] \in Note!Assertions
              /\ Note!IsValidAssertion(n, e.assertions[i])
              /\ r.assertions[i] = Note!Cleaned(e.assertions[i])
<1>1. e.assertions \in Seq(Note!Assertions)
  BY DEF Note!Extractions
<1> QED BY <1>1 DEF Note!Response, Note!IsValid

LEMMA NoteFigures ==
  ASSUME NEW n, NEW e \in Note!Extractions, Note!IsValid(n, e)
  PROVE  Note!IsFounded(Note!Response(e))
<1> DEFINE r == Note!Response(e)
           Founded(c) ==
             /\ c.date # "unfounded" /\ c.amount # "unfounded"
             /\ c.type = "commitment" /\ c.transition \in {"made", "revised", "active"} =>
                  c.date = "exact" /\ (c.amount = "exact" \/ c.full)
             /\ c.amount = "exact" => \A i, j \in c.refs : i = j
<1>1. ASSUME NEW a \in Note!Assertions, Note!IsValidAssertion(n, a), NEW c, c = Note!Cleaned(a)
      PROVE  Founded(c)
  <2>1. a.date \in Note!Support /\ a.amount \in Note!Support
    BY DEF Note!Assertions
  <2>2. Note!IsGrounded(a) /\ Note!IsInScope(n, a) /\ Note!IsComplete(a)
    BY <1>1 DEF Note!IsValidAssertion
  <2>3. c.amount = "exact" => \A i, j \in c.refs : i = j
    BY <1>1, <2>2, CleanedOnly DEF Note!IsInScope
  <2>4. c.date # "unfounded" /\ c.amount # "unfounded"
    BY <1>1, <2>2, CleanedOnly DEF Note!IsGrounded
  <2>5. ASSUME c.type = "commitment", c.transition \in {"made", "revised", "active"}
        PROVE  c.date = "exact" /\ (c.amount = "exact" \/ c.full)
    <3>1. a.date = c.date /\ a.amount = c.amount /\ a.full = c.full
          /\ a.type = c.type /\ a.transition = c.transition
      BY <1>1, <2>5, CleanedOnly DEF Note!DateIsOptional
    <3> QED BY <2>1, <2>2, <2>4, <2>5, <3>1 DEF Note!IsComplete, Note!Support
  <2> QED BY <2>3, <2>4, <2>5
<1> HIDE DEF Founded
<1>2. \A i \in DOMAIN r.assertions : Founded(r.assertions[i])
  BY <1>1, AssertedOf
<1>3. \A c \in Note!Asserted(r) : Founded(c)
  BY <1>2 DEF Note!Asserted
<1> QED BY <1>3 DEF Note!IsFounded, Founded

\* Two assertions of a valid answer differ in type, transition or references.
LEMMA NoteMoves ==
  ASSUME NEW n, Note!IsNote(n), NEW e \in Note!Extractions, Note!IsValid(n, e),
         e.status = "accepted"
  PROVE  Note!MovesOnlySelected(n, Note!Response(e))
<1> DEFINE r == Note!Response(e)
           as == e.assertions
<1>1. as \in Seq(Note!Assertions) /\ as # <<>>
  BY DEF Note!Extractions, Note!IsValid
<1>2. /\ DOMAIN r.assertions = DOMAIN as
      /\ \A i \in DOMAIN as :
           /\ as[i] \in Note!Assertions /\ Note!IsValidAssertion(n, as[i])
           /\ r.assertions[i].type = as[i].type
           /\ r.assertions[i].transition = as[i].transition
           /\ r.assertions[i].refs = as[i].refs
           /\ r.assertions[i].resolves = as[i].resolves
  BY AssertedOf, CleanedOnly
<1> HIDE DEF r
<1>3. Note!Covered(r.assertions) = Note!Covered(as)
  BY <1>2 DEF Note!Covered
<1>4. Note!Covered(as) \subseteq DOMAIN n.facts
  BY <1>2 DEF Note!Covered, Note!IsValidAssertion, Note!IsInScope
<1>5. ASSUME n.purpose \in Note!Types
      PROVE  /\ Note!Covered(as) = DOMAIN n.facts
             /\ \A i \in DOMAIN as : as[i].type = n.purpose
  <2>1. n.purpose \in {"query", "commitment", "remittance"}
    BY <1>5 DEF Note!IsNote, Note!Types, Note!Purposes
  <2>2. Note!Covered(as) = DOMAIN n.facts
    BY <1>1, <2>1 DEF Note!IsValid, Note!CoversSelection
  <2>3. Note!Families(n.purpose) = {n.purpose}
    BY <2>1 DEF Note!Families
  <2> QED BY <1>2, <2>2, <2>3 DEF Note!IsValidAssertion, Note!IsInFamily
<1>6. n.purpose = "chase" => \A i \in DOMAIN as : Note!IsResolution(r.assertions[i])
  BY <1>2 DEF Note!IsValidAssertion, Note!SuitsAChase, Note!IsResolution
<1>7. ASSUME NEW h \in Histories, NEW i \in DOMAIN as, as[i].resolves = h
      PROVE  Note!IsResolution(as[i]) /\ as[i].refs = {n.queries[h].number}
  <2>1. Note!ResolvesItsQuery(n, as[i])
    BY <1>2 DEF Note!IsValidAssertion
  <2>2. Note!IsResolution(as[i])
    BY <1>7, <2>1, NoneAssumption DEF Note!ResolvesItsQuery
  <2>3. PICK x \in DOMAIN n.facts : Note!Resolves(n, as[i], x)
    BY <2>1, <2>2 DEF Note!ResolvesItsQuery
  <2> QED BY <1>7, <2>2, <2>3 DEF Note!Resolves
<1>8. ASSUME NEW h \in Histories, NEW i \in DOMAIN as, NEW j \in DOMAIN as,
             as[i].resolves = h, as[j].resolves = h
      PROVE  i = j
  <2>1. Note!SameControl(as[i], as[j]) /\ Note!SameControl(as[j], as[i])
    BY <1>7, <1>8 DEF Note!SameControl, Note!IsResolution
  <2>2. ~(i < j) /\ ~(j < i)
    BY <2>1 DEF Note!IsValid, Note!IsRedundant
  <2> QED BY <1>1, <2>2
<1>9. ASSUME NEW i \in DOMAIN as, as[i].type = "remittance",
             as[i].transition \in {"not_received", "rejected", "cancelled"}
      PROVE  {n.facts[x] : x \in as[i].refs} \subseteq n.claims
  BY <1>2, <1>9 DEF Note!IsValidAssertion, Note!ClearsAClaim
<1> HIDE DEF as
<1>10. \A h \in Histories :
         LET releases == {i \in DOMAIN r.assertions : r.assertions[i].resolves = h}
         IN  \A i, j \in releases :
               /\ i = j
               /\ Note!IsResolution(r.assertions[i])
               /\ r.assertions[i].refs = {n.queries[h].number}
  <2> SUFFICES ASSUME NEW h \in Histories,
                      NEW i \in {x \in DOMAIN r.assertions : r.assertions[x].resolves = h},
                      NEW j \in {x \in DOMAIN r.assertions : r.assertions[x].resolves = h}
               PROVE  /\ i = j
                      /\ Note!IsResolution(r.assertions[i])
                      /\ r.assertions[i].refs = {n.queries[h].number}
    OBVIOUS
  <2>1. i \in DOMAIN as /\ j \in DOMAIN as /\ as[i].resolves = h /\ as[j].resolves = h
    BY <1>2
  <2>2. Note!IsResolution(as[i]) /\ as[i].refs = {n.queries[h].number}
    BY <1>7, <2>1
  <2> QED BY <1>2, <1>8, <2>1, <2>2 DEF Note!IsResolution
<1>11. \A a \in Note!Asserted(r) : \E i \in DOMAIN as : a = r.assertions[i]
  BY <1>2 DEF Note!Asserted
<1>12. \A a \in Note!Asserted(r) :
         a.type = "remittance" /\ a.transition \in {"not_received", "rejected", "cancelled"} =>
           {n.facts[x] : x \in a.refs} \subseteq n.claims
  <2> SUFFICES ASSUME NEW a \in Note!Asserted(r), a.type = "remittance",
                      a.transition \in {"not_received", "rejected", "cancelled"}
               PROVE  {n.facts[x] : x \in a.refs} \subseteq n.claims
    OBVIOUS
  <2>1. PICK i \in DOMAIN as : a = r.assertions[i]
    BY <1>11
  <2>2. as[i].refs = a.refs /\ as[i].type = a.type /\ as[i].transition = a.transition
    BY <1>2, <2>1
  <2>3. \A x \in as[i].refs : n.facts[x] \in n.claims
    BY <1>9, <2>2
  <2> QED BY <2>2, <2>3
<1>13. n.purpose \in Note!Types => \A a \in Note!Asserted(r) : a.type = n.purpose
  BY <1>2, <1>5, <1>11
<1>14. n.purpose = "chase" => \A a \in Note!Asserted(r) : Note!IsResolution(a)
  BY <1>6, <1>11
<1>15. Note!MovesOnlySelected(n, r)
  BY <1>3, <1>4, <1>5, <1>10, <1>12, <1>13, <1>14 DEF Note!MovesOnlySelected
<1> QED BY <1>15 DEF r

\* Whatever a model makes of a note, no control moves that was not selected.
THEOREM OnlySelectedControlsEverMove == Spec => []OnlySelectedControlsMove
<1>1. Inv => OnlySelectedControlsMove
  <2> SUFFICES ASSUME Inv, IsAnswered("manual_note"), response.content.status = "accepted"
               PROVE  Note!MovesOnlySelected(request, response.content)
    BY DEF OnlySelectedControlsMove
  <2>1. /\ Note!IsNote(request) /\ answer \in Note!Extractions /\ Note!IsValid(request, answer)
        /\ response.content = Note!Response(answer)
    BY NoteServed
  <2>2. answer.status = "accepted"
    BY <2>1 DEF Note!Response
  <2> QED BY <2>1, <2>2, NoteMoves
<1> QED BY <1>1, SpecInv, PTL

-----------------------------------------------------------------------------
(* Collection events.                                                      *)

LEMMA EventServed ==
  ASSUME Inv, IsAnswered("event")
  PROVE  /\ answer \in Event!EventAnswers
         /\ Event!IsValid(request, answer)
         /\ response.content = Event!Grounded(answer)
  BY AnswerOf, AnswersAssumption DEF AnswersAreTyped, IsValid, Content

\* A figure that is kept and was not refuted is spelled out.
LEMMA KeptFigure ==
  ASSUME NEW body, NEW f, ~Event!IsRefuted(body, f), Event!Kept(f).value # None
  PROVE  Event!IsSpelledOutIn(body, Event!Kept(f))
  BY DEF Event!IsRefuted, Event!Kept, Event!NoFigure, Event!Proves, Event!Located,
         Event!Explicit, Event!IsSpelledOutIn

\* What becomes of a detail.
LEMMA DetailOf ==
  ASSUME NEW d \in Event!Details, NEW g, g = Event!GroundedDetail(d)
  PROVE  /\ g.intent = d.intent
         /\ \A f \in Event!GroundedOf(g) :
              f.value # None => \E x \in Event!GroundedOf(d) : f = Event!Kept(x)
         /\ g.full => g.intent = Event!Promise /\ g.promise.value = None
<1>1. CASE d.silent
  <2>1. g = d /\ ~d.full
    BY <1>1 DEF Event!GroundedDetail, Event!Details
  <2>2. Event!GroundedOf(d) = {Event!NoFigure}
    BY <1>1 DEF Event!Details, Event!GroundedOf
  <2> QED BY <2>1, <2>2 DEF Event!NoFigure
<1>2. CASE ~d.silent
  <2>1. /\ g.promise = Event!Kept(d.promise) /\ g.claim = Event!Kept(d.claim)
        /\ g.date = Event!Kept(d.date) /\ g.intent = d.intent
        /\ g.full = (d.intent = Event!Promise /\ d.promise.value = None)
    BY <1>2 DEF Event!GroundedDetail, Event!Details
  <2>2. d.promise.value = None => Event!Kept(d.promise) = d.promise
    BY DEF Event!Kept
  <2> QED BY <2>1, <2>2 DEF Event!GroundedOf
<1> QED BY <1>1, <1>2

\* The fields of the response.
LEMMA GroundedFields ==
  ASSUME NEW e \in Event!EventAnswers, NEW r, r = Event!Grounded(e)
  PROVE  /\ Event!ToSet(r.amounts) = {Event!Kept(f) : f \in Event!ToSet(e.amounts)}
         /\ Event!ToSet(r.dates) = {Event!Kept(f) : f \in Event!ToSet(e.dates)}
         /\ Event!ToSet(r.details) = {Event!GroundedDetail(d) : d \in Event!ToSet(e.details)}
         /\ r.invoices = e.invoices
         /\ Event!ToSet(e.details) \subseteq Event!Details
<1>1. /\ r.amounts = [i \in DOMAIN e.amounts |-> Event!Kept(e.amounts[i])]
      /\ r.dates = [i \in DOMAIN e.dates |-> Event!Kept(e.dates[i])]
      /\ r.details = [i \in DOMAIN e.details |-> Event!GroundedDetail(e.details[i])]
      /\ r.invoices = e.invoices
  BY DEF Event!Grounded, Event!EventAnswers
<1>2. e.details \in Seq(Event!Details)
  BY DEF Event!EventAnswers
<1>3. Event!ToSet(r.amounts) = {Event!Kept(f) : f \in Event!ToSet(e.amounts)}
  BY <1>1 DEF Event!ToSet
<1>4. Event!ToSet(r.dates) = {Event!Kept(f) : f \in Event!ToSet(e.dates)}
  BY <1>1 DEF Event!ToSet
<1>5. Event!ToSet(r.details) = {Event!GroundedDetail(d) : d \in Event!ToSet(e.details)}
  BY <1>1 DEF Event!ToSet
<1>6. Event!ToSet(e.details) \subseteq Event!Details
  BY <1>2 DEF Event!ToSet
<1> QED BY <1>1, <1>3, <1>4, <1>5, <1>6

LEMMA EventFigures ==
  ASSUME NEW q, NEW e \in Event!EventAnswers, Event!IsValid(q, e)
  PROVE  Event!IsFounded(q, Event!Grounded(e))
<1> DEFINE r == Event!Grounded(e)
<1>1. Event!IsGrounded(q.body, e)
  BY DEF Event!IsValid
<1>2. ASSUME NEW f \in Event!FiguresOf(r)
      PROVE  Event!IsSpelledOutIn(q.body, f)
  <2>1. f.value # None
    BY DEF Event!FiguresOf
  <2>2. CASE f \in Event!ToSet(r.amounts) \cup Event!ToSet(r.dates)
    <3>1. PICK x \in Event!ToSet(e.amounts) \cup Event!ToSet(e.dates) : f = Event!Kept(x)
      BY <2>2, GroundedFields
    <3>2. ~Event!IsRefuted(q.body, x)
      BY <1>1 DEF Event!IsGrounded
    <3> QED BY <2>1, <3>1, <3>2, KeptFigure
  <2>3. CASE \E g \in Event!ToSet(r.details) : f \in Event!GroundedOf(g)
    <3>1. PICK g \in Event!ToSet(r.details) : f \in Event!GroundedOf(g)
      BY <2>3
    <3>2. PICK d \in Event!ToSet(e.details) : g = Event!GroundedDetail(d)
      BY GroundedFields
    <3>3. d \in Event!Details
      BY GroundedFields
    <3>4. PICK x \in Event!GroundedOf(d) : f = Event!Kept(x)
      BY <2>1, <3>1, <3>2, <3>3, DetailOf
    <3>5. ~Event!IsRefuted(q.body, x)
      BY <1>1 DEF Event!IsGrounded
    <3> QED BY <2>1, <3>4, <3>5, KeptFigure
  <2> QED BY <2>2, <2>3 DEF Event!FiguresOf
<1>3. ASSUME q.mode = "manual_outbound"
      PROVE  Event!FiguresOf(r) = {} /\ r.invoices = {}
  <2>1. e.details = <<>> /\ e.amounts = <<>> /\ e.dates = <<>> /\ e.invoices = {}
    BY <1>3 DEF Event!IsValid, Event!IsOutbound
  <2>2. /\ Event!ToSet(r.details) = {} /\ Event!ToSet(r.amounts) = {}
        /\ Event!ToSet(r.dates) = {} /\ r.invoices = {}
    <3>1. Event!ToSet(<<>>) = {}
      BY DEF Event!ToSet
    <3> QED BY <2>1, <3>1, GroundedFields
  <2> QED BY <2>2 DEF Event!FiguresOf
<1>4. ASSUME NEW g \in Event!ToSet(r.details), g.full
      PROVE  g.intent = Event!Promise /\ g.promise.value = None
  <2>1. PICK d \in Event!ToSet(e.details) : g = Event!GroundedDetail(d)
    BY GroundedFields
  <2>2. d \in Event!Details
    BY GroundedFields
  <2> QED BY <1>4, <2>1, <2>2, DetailOf
<1> QED BY <1>2, <1>3, <1>4 DEF Event!IsFounded

-----------------------------------------------------------------------------
(* Mail evidence.                                                          *)

LEMMA MailServed ==
  ASSUME Inv, IsAnswered("mail")
  PROVE  Mail!IsValid(request, answer) /\ response.content = Mail!Response(request, answer)
  BY AnswerOf DEF IsValid, Content

\* The text of a source is one that was given, and readable.
LEMMA TextIsReadable ==
  ASSUME NEW q, NEW id \in Mail!Sources(q)
  PROVE  Mail!Text(q, id) \in Mail!ReadableTexts(q)
<1>1. CASE \E p \in q.prior : p.id = id
  BY <1>1 DEF Mail!Text, Mail!ReadableTexts
<1>2. CASE ~\E p \in q.prior : p.id = id
  <2>1. \E s \in q.segments : s.id = id /\ Mail!IsReadable(s)
    BY <1>2 DEF Mail!Sources
  <2>2. /\ (CHOOSE s \in q.segments : s.id = id /\ Mail!IsReadable(s)) \in q.segments
        /\ Mail!IsReadable(CHOOSE s \in q.segments : s.id = id /\ Mail!IsReadable(s))
    BY <2>1
  <2> QED BY <1>2, <2>2 DEF Mail!Text, Mail!ReadableTexts
<1> QED BY <1>1, <1>2

\* A value that spans support whose places are known is spelled out there.
LEMMA StatedIsSpelledOut ==
  ASSUME NEW q, NEW event, NEW value, NEW support,
         Mail!IsStated(event, value, support),
         \A s \in event.spans : Mail!IsLocated(q, s)
  PROVE  Mail!IsSpelledOut(q, value)
<1>1. PICK s \in event.spans : s.quote \in Quotes /\ Mail!Explicit(value, s.quote)
  BY DEF Mail!IsStated, Mail!Supporting
<1>2. s.source \in Mail!Sources(q) /\ Mail!Located(Mail!Text(q, s.source), s.quote)
  BY DEF Mail!IsLocated
<1>3. Mail!Text(q, s.source) \in Mail!ReadableTexts(q)
  BY <1>2, TextIsReadable
<1>4. Mail!IsSpelledOutIn(Mail!Text(q, s.source), [value |-> value, quote |-> s.quote])
  BY <1>1, <1>2 DEF Mail!Located, Mail!Explicit, Mail!IsSpelledOutIn
<1> QED BY <1>1, <1>3, <1>4 DEF Mail!IsSpelledOut

LEMMA MailFigures ==
  ASSUME NEW q, NEW e, Mail!IsValid(q, e)
  PROVE  Mail!IsFounded(q, Mail!Response(q, e))
<1> SUFFICES ASSUME NEW given \in Mail!ToSet(e.events), NEW event,
                    event = Mail!Event(q, given)
             PROVE  /\ \A v \in {event.amount, event.date, event.reference} \ {None} :
                         Mail!IsSpelledOut(q, v)
                    /\ q.version = 3 =>
                         /\ event.refs \subseteq q.candidates
                         /\ \A ref \in event.refs : Mail!IsSpelledOut(q, ref)
  <2>1. Mail!ToSet(Mail!Response(q, e).events) = {Mail!Event(q, x) : x \in Mail!ToSet(e.events)}
    BY DEF Mail!Response, Mail!ToSet
  <2> QED BY <2>1 DEF Mail!IsFounded
<1>1. \A s \in given.spans : Mail!IsLocated(q, s)
  BY DEF Mail!IsValid
<1>2. Mail!FieldsAreStated(event)
  BY DEF Mail!IsValid
<1>3. event.spans = given.spans
  BY DEF Mail!Event, Mail!Stripped
<1>4. \A v \in {event.amount, event.date, event.reference} \ {None} : Mail!IsSpelledOut(q, v)
  BY <1>1, <1>2, <1>3, StatedIsSpelledOut DEF Mail!FieldsAreStated
<1>5. ASSUME q.version = 3
      PROVE  /\ event.refs \subseteq q.candidates
             /\ \A ref \in event.refs : Mail!IsSpelledOut(q, ref)
  <2>1. event.refs = {r \in given.refs :
                        r \in q.candidates /\ Mail!IsStated(given, r, "invoice_scope")}
    BY <1>5 DEF Mail!Event, Mail!Stripped
  <2> QED BY <1>1, <2>1, StatedIsSpelledOut
<1> QED BY <1>4, <1>5

-----------------------------------------------------------------------------
(* The weekly report.                                                      *)

LEMMA WeeklyServed ==
  ASSUME Inv, IsAnswered("weekly")
  PROVE  /\ Weekly!IsUpdateRequest(request)
         /\ Weekly!IsValid(request, answer)
         /\ response.content = Weekly!Response(request, answer)
  BY AnswerOf DEF IsRequest, IsValid, Content

\* The id of an event leads to an event that has it.
LEMMA EventOfId ==
  ASSUME NEW q, Weekly!IsUpdateRequest(q), NEW place \in DOMAIN q.events
  PROVE  LET event == Weekly!EventWithId(q, q.events[place].id)
         IN  event \in Weekly!ToSet(q.events) /\ event.id = q.events[place].id
<1> DEFINE id == q.events[place].id
           S == {i \in DOMAIN q.events : q.events[i].id = id}
<1>1. S \in SUBSET (1..Len(q.events)) /\ S # {} /\ Len(q.events) \in Nat
  BY DEF Weekly!IsUpdateRequest
<1>2. PICK i \in S : \A j \in S : j <= i
  BY <1>1, LastExists
<1>3. \E n \in DOMAIN q.events :
        q.events[n].id = id /\ \A j \in DOMAIN q.events : q.events[j].id = id => j <= n
  BY <1>2
<1> QED BY <1>3 DEF Weekly!EventWithId, Weekly!ToSet

LEMMA WeeklyFigures ==
  ASSUME NEW q, Weekly!IsUpdateRequest(q), NEW e, Weekly!IsValid(q, e)
  PROVE  Weekly!IsFounded(q, Weekly!Response(q, e))
<1> DEFINE i == CHOOSE x \in Weekly!Accepted(q, e) : TRUE
           u == e.updates[i]
           event == Weekly!CitedEvent(q, u)
           r == Weekly!Response(q, e)
<1>1. i \in Weekly!Accepted(q, e)
  BY DEF Weekly!IsValid
<1>2. i \in DOMAIN e.updates /\ Weekly!IsAcceptable(event, u) /\ u.place \in DOMAIN q.events
  BY <1>1 DEF Weekly!Accepted, Weekly!IsValid
<1>3. event \in Weekly!ToSet(q.events) /\ event.id = q.events[u.place].id
  BY <1>2, EventOfId DEF Weekly!CitedEvent
<1>4. /\ r.id = q.events[u.place].id
      /\ r.opening = Weekly!Opening(u.text).verb
      /\ r.clauses = Weekly!ClausesOf(u.text)
  BY DEF Weekly!Response
<1> HIDE DEF i, u, event, r
<1>5. /\ r.opening \in Weekly!OpeningsOf(event)
      /\ Weekly!NumbersOf(r.clauses) \subseteq event.numbers
  BY <1>2, <1>4 DEF Weekly!IsAcceptable
<1>6. r.opening = "commit" => "commitment_to_pay" \in event.kinds
  BY <1>5 DEF Weekly!OpeningsOf
<1>7. \A c \in r.clauses : c.sibling # "variant"
  BY <1>4 DEF Weekly!ClausesOf, Weekly!Retained
<1>8. Weekly!IsFounded(q, r)
  BY <1>3, <1>4, <1>5, <1>6, <1>7 DEF Weekly!IsFounded
<1> QED BY <1>8 DEF r

\* No figure leaves a service that the words it quotes do not spell out.
THEOREM FiguresAreAlwaysFounded == Spec => []FiguresAreFounded
<1>1. Inv => FiguresAreFounded
  <2> SUFFICES ASSUME Inv PROVE FiguresAreFounded
    OBVIOUS
  <2>1. IsAnswered("manual_note") => Note!IsFounded(response.content)
    BY NoteServed, NoteFigures
  <2>2. IsAnswered("event") => Event!IsFounded(request, response.content)
    BY EventServed, EventFigures
  <2>3. IsAnswered("mail") => Mail!IsFounded(request, response.content)
    BY MailServed, MailFigures
  <2>4. IsAnswered("weekly") => Weekly!IsFounded(request, response.content)
    BY WeeklyServed, WeeklyFigures
  <2> QED BY <2>1, <2>2, <2>3, <2>4 DEF FiguresAreFounded
<1> QED BY <1>1, SpecInv, PTL

-----------------------------------------------------------------------------
(* Document requests.                                                      *)

\* No call is made just where a message is not admitted.
LEMMA Admission ==
  ASSUME NEW q, Document!IsMessage(q)
  PROVE  Document!AdmissionReason(q) = "none" <=>
           /\ q.class = "debtor_authored" /\ q.verified /\ q.eligible
           /\ ~q.automated /\ ~q.deleted
  BY DEF Document!AdmissionReason, Document!IsMessage

\* The references of an item that is resolved.
LEMMA ResolvedRefs ==
  ASSUME NEW q, NEW given \in Document!DocumentItems, NEW item, item = Document!Resolved(q, given)
  PROVE  \/ Document!Refs(item) \subseteq q.named
         \/ q.deictic /\ {Document!Refs(item)} = Document!CompleteSets(q)
<1>1. CASE Document!Source(q, given) = "unresolved"
  <2>1. item.invoices = {} /\ item.orders = {}
    BY <1>1 DEF Document!Resolved, Document!DocumentItems
  <2> QED BY <2>1 DEF Document!Refs
<1>2. CASE Document!Source(q, given) # "unresolved"
  BY <1>2 DEF Document!Resolved, Document!Source
<1> QED BY <1>1, <1>2

\* What a valid answer reaches.
LEMMA DocumentScope ==
  ASSUME NEW q, NEW e \in Document!DocumentAnswers, Document!IsValid(q, e),
         NEW r, r = Document!Response(q, e)
  PROVE  /\ \A item \in {r.items[i] : i \in DOMAIN r.items} :
              \/ Document!Refs(item) \subseteq q.named
              \/ q.deictic /\ {Document!Refs(item)} = Document!CompleteSets(q)
         /\ r.invoices \cup r.orders # {} => r.state = "active_request"
         /\ r.scope = "exact" => \A i \in DOMAIN r.items : r.items[i].invoices # {}
         /\ r.scope = "account_wide" =>
              /\ r.state = "active_request" /\ r.invoices \cup r.orders = {}
              /\ \A i \in DOMAIN r.items : r.items[i].type = "statement"
<1> DEFINE items == Document!Items(q, e)
           given == Document!ActiveItems(e)
<1>1. \A i \in DOMAIN given : given[i] \in Document!DocumentItems
  BY DEF Document!ActiveItems, Document!DocumentAnswers
<1>2. DOMAIN items = DOMAIN given /\ \A i \in DOMAIN given : items[i] = Document!Resolved(q, given[i])
  BY DEF Document!Items
<1>3. \A i \in DOMAIN items :
        \/ Document!Refs(items[i]) \subseteq q.named
        \/ q.deictic /\ {Document!Refs(items[i])} = Document!CompleteSets(q)
  BY <1>1, <1>2, ResolvedRefs
<1> HIDE DEF items, given
<1>4. CASE Document!StateOf(e) = "no_request"
  <2>1. r = Document!Nothing
    BY <1>4 DEF Document!Response
  <2> QED BY <2>1 DEF Document!Nothing
<1>5. CASE Document!StateOf(e) = "uncertain"
  <2>1. /\ r.items = items /\ r.invoices = {} /\ r.orders = {} /\ r.scope = "none"
    BY <1>5 DEF Document!Response, Document!Nothing, items
  <2> QED BY <1>3, <2>1
<1>6. CASE Document!StateOf(e) \notin {"no_request", "uncertain"}
  <2>1. /\ r.items = items /\ r.state = "active_request" /\ r.scope = Document!Scope(items)
        /\ r.invoices = Document!InvoicesOf(items) /\ r.orders = Document!OrdersOf(items)
    BY <1>6 DEF Document!Response, items
  <2>2. Document!Scope(items) = "exact" => \A item \in Document!ToSet(items) : item.invoices # {}
    BY DEF Document!Scope
  <2>3. \A i \in DOMAIN items : items[i] \in Document!ToSet(items)
    BY DEF Document!ToSet
  <2>4. Document!Scope(items) = "account_wide" =>
          /\ Document!InvoicesOf(items) = {} /\ Document!OrdersOf(items) = {}
          /\ \A item \in Document!ToSet(items) : item.type = "statement"
    BY DEF Document!Scope
  <2> QED BY <1>3, <2>1, <2>2, <2>3, <2>4
<1> QED BY <1>4, <1>5, <1>6

\* No reference is reached that the message does not name or point back to, and
\* a request for the whole account reaches none.
THEOREM RequestedScopeIsAlwaysNamed == Spec => []RequestedScopeIsNamed
<1>1. Inv => RequestedScopeIsNamed
  <2> SUFFICES ASSUME Inv, request.service = "document", phase = "returned"
               PROVE  RequestedScopeIsNamed
    BY DEF RequestedScopeIsNamed
  <2>1. Document!IsMessage(request)
    BY RequestsAssumption DEF Inv, IsRequest
  <2>2. CASE IsDeclinedResponse
    <3>1. attempt = 0 /\ response.content = Document!Nothing
          /\ Document!AdmissionReason(request) # "none"
      BY <2>2 DEF IsDeclinedResponse, IsDeclined, Declined
    <3> QED BY <2>1, <3>1, Admission DEF RequestedScopeIsNamed, Document!Nothing
  <2>3. CASE IsAnswer
    <3>1. /\ attempt # 0 /\ Document!AdmissionReason(request) = "none"
          /\ answer \in Document!DocumentAnswers
          /\ Document!IsValid(request, answer)
          /\ response.content = Document!Response(request, answer)
      BY <2>3, AnswersAssumption, LimitType
      DEF IsAnswer, IsUnderWay, IsDeclined, AnswersAreTyped, IsValid, Content
    <3> QED BY <2>1, <3>1, Admission, DocumentScope DEF RequestedScopeIsNamed
  <2> QED BY <2>2, <2>3, ResponseInv DEF IsUnavailable, IsInvalid
<1> QED BY <1>1, SpecInv, PTL

-----------------------------------------------------------------------------
(* Routes.                                                                 *)

LEMMA RoutesServed ==
  ASSUME Inv, IsAnswered("route")
  PROVE  /\ IsFiniteSet(request.invoices) /\ NoChain \notin request.chains
         /\ Len(answer.routes) \in Nat /\ DOMAIN answer.routes = 1..Len(answer.routes)
         /\ Chain!AreRoutesValid(request, answer)
         /\ response.content.routes = answer.routes
<1>1. /\ IsRequest(request) /\ request.service = "route" /\ answer \in Answers["route"]
      /\ IsValid(request, answer) /\ response.content = Content(request, answer)
  BY AnswerOf
<1> QED BY <1>1, AnswersAssumption DEF IsRequest, AnswersAreTyped, IsValid, Content

\* As many routes as invoices: the routes and the invoices are in bijection.
LEMMA RoutesAreCounted ==
  ASSUME NEW q, NEW routes, Len(routes) \in Nat, DOMAIN routes = 1..Len(routes),
         \A i, j \in DOMAIN routes : routes[i].invoice = routes[j].invoice => i = j,
         Chain!InvoiceKeys(routes) = q.invoices
  PROVE  Cardinality(q.invoices) = Len(routes)
<1> DEFINE n == Len(routes)
           f == [i \in 1..n |-> routes[i].invoice]
<1>1. q.invoices = {routes[i].invoice : i \in 1..n}
  BY DEF Chain!InvoiceKeys
<1>2. f \in Bijection(1..n, q.invoices)
  <2>1. f \in [1..n -> q.invoices]
    BY <1>1
  <2>2. \A a, b \in 1..n : f[a] = f[b] => a = b
    OBVIOUS
  <2>3. \A t \in q.invoices : \E s \in 1..n : f[s] = t
    BY <1>1
  <2> QED BY <2>1, <2>2, <2>3 DEF Bijection, Injection, Surjection, IsInjective
<1>3. ExistsBijection(1..n, q.invoices)
  BY <1>2 DEF ExistsBijection
<1> QED BY <1>3, FS_CountingElements

LEMMA RoutesAreSafe ==
  ASSUME NEW q, NoChain \notin q.chains, NEW e,
         Len(e.routes) \in Nat, DOMAIN e.routes = 1..Len(e.routes),
         Chain!AreRoutesValid(q, e), NEW r, r.routes = e.routes
  PROVE  Chain!IsRoutingSafe(q, r)
<1>1. Len(r.routes) = Cardinality(q.invoices)
  BY RoutesAreCounted DEF Chain!AreRoutesValid
<1>2. ASSUME NEW i \in q.invoices
      PROVE  \E route \in Chain!ToSet(r.routes) :
               /\ route.invoice = i
               /\ route.chain \in q.chains <=> route.action = "continue_existing_chain"
  <2>1. PICK k \in DOMAIN e.routes : e.routes[k].invoice = i
    BY DEF Chain!AreRoutesValid, Chain!InvoiceKeys
  <2>2. e.routes[k] \in Chain!ToSet(e.routes)
    BY DEF Chain!ToSet
  <2>3. e.routes[k].chain \in q.chains <=> e.routes[k].action = "continue_existing_chain"
    BY <2>2 DEF Chain!AreRoutesValid
  <2> QED BY <2>1, <2>2, <2>3
<1>3. Chain!Cardinality(q.invoices) = Cardinality(q.invoices)
  BY DEF Chain!Cardinality, Cardinality
<1> QED BY <1>1, <1>2, <1>3 DEF Chain!IsRoutingSafe

\* Every chased invoice is routed once, to a chain that was offered or to a person.
THEOREM EveryInvoiceIsAlwaysRouted == Spec => []EveryInvoiceIsRouted
<1>1. Inv => EveryInvoiceIsRouted
  BY RoutesServed, RoutesAreSafe DEF EveryInvoiceIsRouted
<1> QED BY <1>1, SpecInv, PTL

-----------------------------------------------------------------------------
(* Reports on sent drafts.                                                 *)

LEMMA ReportServed ==
  ASSUME Inv, request.service = "sent_scope", phase = "returned"
  PROVE  /\ Sent!IsAnalysis(request)
         /\ \/ response.content = Sent!Unasked
            \/ response.content = Sent!Unavailable
            \/ /\ IsAnswered("sent_scope") /\ answer.decisions \in Seq(Sent!Decisions)
               /\ response.content = Sent!ReportOf(request, answer.decisions)
<1>1. Sent!IsAnalysis(request)
  BY RequestsAssumption DEF Inv, IsRequest
<1>2. CASE IsDeclinedResponse
  BY <1>1, <1>2 DEF IsDeclinedResponse, Declined
<1>3. CASE IsAnswer
  <2>1. answer \in Sent!DecisionLists /\ response.content = Sent!Response(request, answer)
    BY <1>3, AnswersAssumption DEF IsAnswer, AnswersAreTyped, Content
  <2> QED BY <1>1, <1>3, <2>1 DEF IsAnswer, IsAnswered, Sent!Response, Sent!DecisionLists
<1>4. CASE IsUnavailable
  BY <1>1, <1>4 DEF IsUnavailable
<1> QED BY <1>2, <1>3, <1>4, ResponseInv DEF IsInvalid

\* A decision that names an invoice has a first one, which is the one taken.
LEMMA FirstDecision ==
  ASSUME NEW a \in Seq(Sent!Decisions), NEW r, Sent!Named(a, r)
  PROVE  \E i \in DOMAIN a : Sent!IsDecisionOn(a, i, r) /\ Sent!DecisionOn(a, r) = a[i]
<1> DEFINE S == {i \in DOMAIN a : Sent!Decides(a, i, r)}
<1>1. S \in SUBSET Nat /\ S # {}
  BY DEF Sent!Named
<1>2. PICK i \in S : \A j \in S : i <= j
  BY <1>1, LeastExists
<1>3. ASSUME NEW j \in DOMAIN a, j < i PROVE ~Sent!Decides(a, j, r)
  BY <1>2, <1>3
<1>4. \E n \in DOMAIN a : Sent!IsDecisionOn(a, n, r)
  BY <1>2, <1>3 DEF Sent!IsDecisionOn
<1> QED BY <1>4 DEF Sent!DecisionOn

\* The obligation reported for a candidate is that of a candidate so numbered.
LEMMA ObligationIsACandidates ==
  ASSUME NEW q, Sent!IsAnalysis(q), NEW r \in Sent!CandidateRefs(q)
  PROVE  \E c \in DOMAIN q.candidates :
           Sent!Spelled(q, c, r) /\ Sent!ObligationOf(q, r) = q.candidates[c].obligation
<1> DEFINE cs == q.candidates
           S == {i \in DOMAIN cs : Sent!Spelled(q, i, r)}
<1>1. cs \in Seq(Sent!Candidates)
  BY DEF Sent!IsAnalysis
<1>2. S \in SUBSET (1..Len(cs)) /\ S # {} /\ Len(cs) \in Nat
  BY <1>1 DEF Sent!CandidateRefs, Sent!Spelled
<1> HIDE DEF S
<1>3. PICK i \in S : \A j \in S : j <= i
  BY <1>2, LastExists
<1>4. ASSUME NEW j \in DOMAIN cs, j > i PROVE ~Sent!Spelled(q, j, r)
  BY <1>1, <1>2, <1>3, <1>4 DEF S
<1>5. \E n \in DOMAIN cs :
        Sent!Spelled(q, n, r) /\ \A j \in DOMAIN cs : j > n => ~Sent!Spelled(q, j, r)
  BY <1>3, <1>4 DEF S
<1> QED BY <1>5 DEF Sent!ObligationOf

LEMMA VerdictConfidence ==
  ASSUME NEW q, NEW a \in Seq(Sent!Decisions), NEW r
  PROVE  Sent!Verdict(q, a, r).confidence \in 0..100
<1>1. CASE Sent!Named(a, r)
  <2>1. Sent!DecisionOn(a, r) \in Sent!Decisions
    BY <1>1, FirstDecision
  <2> QED BY <1>1, <2>1 DEF Sent!Verdict, Sent!Decisions
<1>2. CASE ~Sent!Named(a, r)
  BY <1>2 DEF Sent!Verdict
<1> QED BY <1>1, <1>2

LEMMA WeakestIsLeast ==
  ASSUME NEW q, NEW a \in Seq(Sent!Decisions), NEW v, v = Sent!Verdicts(q, a)
  PROVE  \A r \in Sent!Present(v) : Sent!Weakest(v) <= v[r].confidence
<1> DEFINE S == {v[r].confidence : r \in Sent!Present(v)}
<1>1. \A r \in Sent!Present(v) : v[r].confidence \in 0..100
  BY VerdictConfidence DEF Sent!Present, Sent!Verdicts
<1>2. CASE Sent!Present(v) = {}
  BY <1>2
<1>3. CASE Sent!Present(v) # {}
  <2>1. S \in SUBSET Nat /\ S # {}
    <3>1. \A r \in Sent!Present(v) : v[r].confidence \in Nat
      <4>1. \A n \in 0..100 : n \in Nat
        OBVIOUS
      <4> QED BY <1>1, <4>1
    <3>2. PICK r \in Sent!Present(v) : TRUE
      BY <1>3
    <3>3. v[r].confidence \in S
      OBVIOUS
    <3> QED BY <3>1, <3>3
  <2>2. PICK n \in S : \A m \in S : n <= m
    BY <2>1, LeastExists
  <2>3. \E x \in S : \A r \in Sent!Present(v) : x <= v[r].confidence
    BY <2>2
  <2>4. Sent!Weakest(v) = CHOOSE x \in S : \A r \in Sent!Present(v) : x <= v[r].confidence
    BY <1>3 DEF Sent!Weakest
  <2> QED BY <2>3, <2>4
<1> QED BY <1>2, <1>3

\* What the correction by the draft ensures of a verdict.
LEMMA VerdictAgrees ==
  ASSUME NEW q, NEW a, NEW r
  PROVE  LET status == Sent!Verdict(q, a, r).status
         IN  /\ status \in {"retained", "removed"} => r \in Sent!GeneratedRefs(q)
             /\ status = "added" => r \notin Sent!GeneratedRefs(q)
  BY DEF Sent!Verdict, Sent!Corrected

\* A generated invoice that was asked about is in a list of the report, or was
\* not decided on, or was called not present.
LEMMA ReportAccountsForDraft ==
  ASSUME NEW q, NEW a \in Seq(Sent!Decisions), NEW r, r = Sent!ReportOf(q, a)
  PROVE  Sent!AccountsForDraft(q, a, r)
<1> DEFINE v == Sent!Verdicts(q, a)
<1>1. /\ r.retained = Sent!With(v, "retained")
      /\ r.removed = Sent!With(v, "removed")
      /\ r.ambiguous = Sent!With(v, "ambiguous")
      /\ r.review = (Sent!ReviewCodes(a, v) # {})
  BY DEF Sent!ReportOf
<1>2. ASSUME NEW ref \in Sent!GeneratedRefs(q) \cap Sent!CandidateRefs(q)
      PROVE  \/ ref \in r.retained \cup r.removed \cup r.ambiguous
             \/ r.review
             \/ \E i \in DOMAIN a :
                  /\ Sent!Decides(a, i, ref)
                  /\ a[i].status = "not_present"
                  /\ \A j \in DOMAIN a : j < i => ~Sent!Decides(a, j, ref)
  <2>1. ref \in DOMAIN v /\ v[ref] = Sent!Verdict(q, a, ref)
    BY DEF Sent!Verdicts
  <2> HIDE DEF v
  <2>2. CASE ~Sent!Named(a, ref)
    <3>1. "decisions_repaired" \in Sent!ReviewCodes(a, v)
      BY <2>1, <2>2 DEF Sent!ReviewCodes
    <3> QED BY <1>1, <3>1
  <2>3. CASE Sent!Named(a, ref)
    <3>1. PICK i \in DOMAIN a :
            Sent!IsDecisionOn(a, i, ref) /\ Sent!DecisionOn(a, ref) = a[i]
      BY <2>3, FirstDecision
    <3>2. a[i].status \in Sent!Statuses
      <4>1. a[i] \in Sent!Decisions
        BY <3>1
      <4> QED BY <4>1 DEF Sent!Decisions
    <3>3. v[ref].status = IF a[i].status = "added" THEN "retained" ELSE a[i].status
      BY <2>1, <2>3, <3>1 DEF Sent!Verdict, Sent!Corrected
    <3>4. CASE a[i].status = "not_present"
      BY <3>1, <3>4 DEF Sent!IsDecisionOn
    <3>5. CASE a[i].status # "not_present"
      <4>1. v[ref].status \in {"retained", "removed", "ambiguous"}
        BY <3>2, <3>3, <3>5 DEF Sent!Statuses
      <4> QED BY <1>1, <2>1, <4>1 DEF Sent!With
    <3> QED BY <3>4, <3>5
  <2> QED BY <2>2, <2>3
<1> QED BY <1>2 DEF Sent!AccountsForDraft

\* No list of a report contradicts the draft; and without a review, an invoice of
\* the draft is in one of them unless the model called it not present.
THEOREM ReportAlwaysAgrees == Spec => []ReportAgreesWithDraft
<1>1. ASSUME Inv, request.service = "sent_scope", phase = "returned"
      PROVE  Sent!AgreesWithDraft(request, response.content)
  <2>1. CASE response.content \in {Sent!Unasked, Sent!Unavailable}
    BY <2>1 DEF Sent!Unasked, Sent!Unavailable, Sent!ReportWithout, Sent!AgreesWithDraft
  <2>2. CASE response.content = Sent!ReportOf(request, answer.decisions)
    <3> DEFINE r == response.content
               v == Sent!Verdicts(request, answer.decisions)
    <3>1. \A ref \in DOMAIN v :
            /\ v[ref].status \in {"retained", "removed"} => ref \in Sent!GeneratedRefs(request)
            /\ v[ref].status = "added" => ref \notin Sent!GeneratedRefs(request)
      BY VerdictAgrees DEF Sent!Verdicts
    <3> HIDE DEF v
    <3>2. /\ r.retained = Sent!With(v, "retained")
          /\ r.added = Sent!With(v, "added")
          /\ r.removed = Sent!With(v, "removed")
          /\ r.ambiguous = Sent!With(v, "ambiguous")
          /\ r.sent = r.retained \cup r.added
      BY <2>2 DEF Sent!ReportOf, v
    <3> QED BY <3>1, <3>2 DEF Sent!AgreesWithDraft, Sent!With
  <2> QED BY <1>1, <2>1, <2>2, ReportServed
<1>2. ASSUME Inv, IsAnswered("sent_scope")
      PROVE  Sent!AccountsForDraft(request, answer.decisions, response.content)
  <2>1. /\ answer \in Sent!DecisionLists
        /\ response.content = Sent!ReportOf(request, answer.decisions)
    BY <1>2, AnswerOf, AnswersAssumption DEF AnswersAreTyped, Content, Sent!Response
  <2> QED BY <2>1, ReportAccountsForDraft DEF Sent!DecisionLists
<1>3. Inv => ReportAgreesWithDraft
  BY <1>1, <1>2 DEF ReportAgreesWithDraft
<1> QED BY <1>3, SpecInv, PTL

\* What is reported as sent was decided so, first, about a candidate.
THEOREM NothingIsInvented == Spec => []NothingInvented
<1>1. Inv => NothingInvented
  <2> SUFFICES ASSUME Inv, IsAnswered("sent_scope")
               PROVE  Sent!IsDecided(request, answer.decisions, response.content)
    BY DEF NothingInvented
  <2> DEFINE q == request
             a == answer.decisions
             r == response.content
  <2>1. Sent!IsAnalysis(q) /\ a \in Seq(Sent!Decisions) /\ r = Sent!ReportOf(q, a)
    <3>1. /\ IsRequest(q) /\ answer \in Sent!DecisionLists /\ q.service = "sent_scope"
          /\ r = Content(q, answer)
      BY AnswerOf, AnswersAssumption DEF AnswersAreTyped
    <3> QED BY <3>1 DEF IsRequest, Content, Sent!Response, Sent!DecisionLists
  <2> HIDE DEF q, a, r
  <2>2. ASSUME NEW ref \in r.sent
        PROVE  /\ \E i \in DOMAIN a :
                    /\ Sent!Decides(a, i, ref)
                    /\ a[i].status \in {"retained", "added"}
                    /\ \A j \in DOMAIN a : j < i => ~Sent!Decides(a, j, ref)
               /\ \E c \in DOMAIN q.candidates :
                    /\ Sent!Spelled(q, c, ref)
                    /\ r.decisions[ref].obligation = q.candidates[c].obligation
    <3>1. /\ ref \in Sent!CandidateRefs(q)
          /\ Sent!Verdict(q, a, ref).status \in {"retained", "added"}
          /\ r.decisions[ref] = Sent!Verdict(q, a, ref)
      BY <2>1 DEF Sent!ReportOf, Sent!With, Sent!Verdicts
    <3>2. Sent!Named(a, ref)
      BY <3>1 DEF Sent!Verdict
    <3>3. PICK i \in DOMAIN a :
            Sent!IsDecisionOn(a, i, ref) /\ Sent!DecisionOn(a, ref) = a[i]
      BY <2>1, <3>2, FirstDecision
    <3>4. Sent!Verdict(q, a, ref).status = Sent!Corrected(q, a[i].status, ref)
      BY <3>2, <3>3 DEF Sent!Verdict
    <3>5. a[i].status \in {"retained", "added"}
      BY <3>1, <3>4 DEF Sent!Corrected
    <3>6. r.decisions[ref].obligation = Sent!ObligationOf(q, ref)
      BY <3>1, <3>2 DEF Sent!Verdict
    <3> QED BY <2>1, <3>1, <3>3, <3>5, <3>6, ObligationIsACandidates DEF Sent!IsDecisionOn
  <2>3. Sent!IsDecided(q, a, r)
    BY <2>2 DEF Sent!IsDecided
  <2> QED BY <2>3 DEF q, a, r
<1> QED BY <1>1, SpecInv, PTL

\* A report without review had a sure decision on every candidate.
THEOREM SuccessIsAlwaysEarned == Spec => []SuccessIsEarned
<1>1. Inv => SuccessIsEarned
  <2> SUFFICES ASSUME Inv, request.service = "sent_scope", phase = "returned",
                      response.content.status = "succeeded"
               PROVE  Sent!IsEarned(request, answer.decisions, response.content)
    BY DEF SuccessIsEarned
  <2> DEFINE q == request
             a == answer.decisions
             r == response.content
             v == Sent!Verdicts(q, a)
  <2>1. a \in Seq(Sent!Decisions) /\ r = Sent!ReportOf(q, a)
    BY ReportServed DEF Sent!Unasked, Sent!Unavailable, Sent!ReportWithout
  <2>2. DOMAIN v = Sent!CandidateRefs(q) /\ \A ref \in DOMAIN v : v[ref].confidence \in 0..100
    BY <2>1, VerdictConfidence DEF Sent!Verdicts
  <2>3. \A ref \in Sent!Present(v) : Sent!Weakest(v) <= v[ref].confidence
    BY <2>1, WeakestIsLeast
  <2> HIDE DEF q, a, v
  <2>4. /\ r.status = IF Sent!ReviewCodes(a, v) = {} THEN "succeeded" ELSE "review_required"
        /\ r.review = (Sent!ReviewCodes(a, v) # {})
        /\ r.sent \cup r.removed \subseteq Sent!Present(v)
        /\ r.ambiguous = Sent!With(v, "ambiguous")
        /\ r.confidence = Sent!Weakest(v)
        /\ r.decisions = v
    BY <2>1 DEF Sent!ReportOf, v, Sent!Present, Sent!With
  <2>5. Sent!ReviewCodes(a, v) = {}
    BY <2>4
  <2>6. /\ Sent!With(v, "ambiguous") = {}
        /\ \A ref \in Sent!Present(v) : ~(v[ref].confidence < 75)
        /\ \A ref \in Sent!CandidateRefs(q) : Sent!Named(a, ref)
    BY <2>2, <2>5 DEF Sent!ReviewCodes
  <2>7. ASSUME NEW ref \in r.sent \cup r.removed
        PROVE  r.confidence <= r.decisions[ref].confidence /\ r.decisions[ref].confidence >= 75
    <3>1. ref \in Sent!Present(v) /\ v[ref].confidence \in 0..100
      BY <2>2, <2>4 DEF Sent!Present
    <3> QED BY <2>3, <2>4, <2>6, <3>1
  <2>8. Sent!IsEarned(q, a, r)
    BY <2>4, <2>5, <2>6, <2>7 DEF Sent!IsEarned
  <2> QED BY <2>8 DEF q, a
<1> QED BY <1>1, SpecInv, PTL

-----------------------------------------------------------------------------
(* Commitments of a debtor's reply.                                        *)

LEMMA ReplyServed ==
  ASSUME Inv, IsAnswered("reply")
  PROVE  /\ Reply!IsMessage(request) /\ answer \in Reply!ReplyAnswers
         /\ response.content = Reply!Response(request, answer)
  BY AnswerOf, AnswersAssumption DEF IsRequest, AnswersAreTyped, Content

\* Days that are not endless towards the past have an earliest one.
LEMMA EarliestExists ==
  ASSUME NEW days \in SUBSET Int, days # {}, NEW from \in Int, \A d \in days : from <= d
  PROVE  Reply!Earliest(days) \in days /\ \A d \in days : Reply!Earliest(days) <= d
<1> DEFINE S == {d - from : d \in days}
<1>1. S \in SUBSET Nat /\ S # {}
  <2>1. \A d \in days : d - from \in Nat
    OBVIOUS
  <2>2. PICK d \in days : TRUE
    OBVIOUS
  <2>3. d - from \in S
    OBVIOUS
  <2> QED BY <2>1, <2>3
<1>2. PICK n \in S : \A m \in S : n <= m
  BY <1>1, LeastExists
<1>3. PICK d \in days : n = d - from
  BY <1>2
<1>4. ASSUME NEW c \in days PROVE d <= c
  <2>1. n <= c - from
    BY <1>2
  <2>2. d \in Int /\ c \in Int
    OBVIOUS
  <2> QED BY <1>3, <2>1, <2>2
<1> QED BY <1>4 DEF Reply!Earliest

\* A drafted chase is never before today.
LEMMA ChaseDatesAreAhead ==
  ASSUME NEW q, Reply!IsMessage(q)
  PROVE  Reply!ChaseDates(q) \in SUBSET Int /\ \A d \in Reply!ChaseDates(q) : d >= q.today
<1>1. q.today \in Int /\ q.today + Horizon \in Int
  BY CalendarAssumption DEF Reply!IsMessage
<1>2. \A c \in (q.today + 1)..(q.today + Horizon) : c - 1 \in Int /\ c - 1 >= q.today
  BY <1>1
<1> QED BY <1>2 DEF Reply!ChaseDates

\* The earliest day of a period, or else after it, is the first from its start.
LEMMA EarliestInIsNext ==
  ASSUME NEW days \in SUBSET Int, NEW from \in Int, \A d \in days : d >= from,
         NEW start \in Int, NEW end \in Int, start <= end + 1,
         NEW run, run = Reply!EarliestIn(days, <<start, end>>)
  PROVE  /\ run = NoDay => \A c \in days : ~(c >= start)
         /\ run # NoDay => run \in days /\ run >= start /\ \A c \in days : ~(start <= c /\ c < run)
<1> DEFINE within == {d \in days : start <= d /\ d <= end}
           after == {d \in days : end < d}
<1>1. run = IF within # {} THEN Reply!Earliest(within)
            ELSE IF after # {} THEN Reply!Earliest(after) ELSE NoDay
  BY DEF Reply!EarliestIn
<1>2. CASE within # {}
  <2>1. run \in within /\ \A d \in within : run <= d
    <3>1. within \in SUBSET Int /\ \A d \in within : from <= d
      BY \A d \in days : from <= d
    <3> HIDE DEF within
    <3> QED BY <1>1, <1>2, <3>1, EarliestExists
  <2> QED BY <2>1, NoDayAssumption
<1>3. CASE within = {} /\ after # {}
  <2>1. run \in after /\ \A d \in after : run <= d
    <3>1. after \in SUBSET Int /\ \A d \in after : from <= d
      OBVIOUS
    <3>2. run = Reply!Earliest(after) /\ after # {}
      BY <1>1, <1>3
    <3> HIDE DEF after
    <3>3. Reply!Earliest(after) \in after /\ \A d \in after : Reply!Earliest(after) <= d
      BY <3>1, <3>2, EarliestExists
    <3> QED BY <3>2, <3>3
  <2> QED BY <1>3, <2>1, NoDayAssumption
<1>4. CASE within = {} /\ after = {}
  BY <1>1, <1>4
<1> QED BY <1>2, <1>3, <1>4

\* "Next week" begins on the one Monday of the next seven days.
LEMMA NextWeekBegins ==
  ASSUME NEW today \in Int
  PROVE  /\ today + 7 - (today % 7) \in (today + 1)..(today + 7)
         /\ \A d \in (today + 1)..(today + 7) : d % 7 = 0 <=> d = today + 7 - (today % 7)
  OBVIOUS

\* The week, the month or the day a payment run is meant to be in begins with
\* the first day meant, and there is a later day in the calendar.
LEMMA WeekBegins ==
  ASSUME NEW q, Reply!IsMessage(q), q.period = "week"
  PROVE  /\ Reply!FirstDayMeant(q) \in Int
         /\ Reply!NextWeek(q.today) = <<Reply!FirstDayMeant(q), Reply!FirstDayMeant(q) + 6>>
<1> DEFINE monday == q.today + 7 - (q.today % 7)
<1>1. q.today \in Int
  BY DEF Reply!IsMessage
<1>2. monday \in (q.today + 1)..(q.today + 7)
      /\ \A d \in (q.today + 1)..(q.today + 7) : d % 7 = 0 <=> d = monday
  BY <1>1, NextWeekBegins
<1>3. Reply!FirstDayMeant(q) = CHOOSE d \in (q.today + 1)..(q.today + 7) : d % 7 = 0
  BY DEF Reply!FirstDayMeant
<1>4. Reply!NextWeek(q.today) = <<monday, monday + 6>>
  BY DEF Reply!NextWeek
<1> HIDE DEF monday
<1>5. Reply!FirstDayMeant(q) = monday
  BY <1>2, <1>3
<1> QED BY <1>1, <1>2, <1>4, <1>5

LEMMA MonthBegins ==
  ASSUME NEW q, Reply!IsMessage(q), q.period = "month"
  PROVE  /\ Reply!FirstDayMeant(q) \in Int
         /\ \E end \in Int : /\ Reply!NextMonth(q.today) = <<Reply!FirstDayMeant(q), end>>
                             /\ Reply!FirstDayMeant(q) <= end
<1> DEFINE later == {d \in MonthStarts : d > q.today}
           start == Reply!Earliest(later)
           next == {d \in MonthStarts : d > start}
<1>1. q.today \in Int /\ MonthStarts \in SUBSET Int
  BY CalendarAssumption DEF Reply!IsMessage
<1>2. PICK c \in MonthStarts, d \in MonthStarts : q.today < c /\ c < d
  BY DEF Reply!IsMessage
<1>3. start \in later /\ \A x \in later : start <= x
  <2>1. later \in SUBSET Int /\ later # {} /\ \A x \in later : q.today <= x
    <3>1. c \in later
      BY <1>1, <1>2
    <3>2. \A x \in later : x \in Int /\ q.today <= x
      BY <1>1
    <3> QED BY <3>1, <3>2
  <2> HIDE DEF later
  <2> QED BY <1>1, <2>1, EarliestExists
<1>4. start \in Int /\ start \in MonthStarts /\ start > q.today
  BY <1>1, <1>3
<1> HIDE DEF start
<1>5. Reply!Earliest(next) \in next /\ \A x \in next : Reply!Earliest(next) <= x
  <2>1. d \in next
    BY <1>1, <1>2, <1>3, <1>4
  <2>2. next \in SUBSET Int /\ \A x \in next : start <= x
    <3>1. \A x \in next : x \in Int /\ start <= x
      BY <1>1, <1>4
    <3> QED BY <3>1
  <2> HIDE DEF next
  <2> QED BY <1>4, <2>1, <2>2, EarliestExists
<1>6. Reply!Earliest(next) - 1 \in Int /\ start <= Reply!Earliest(next) - 1
  <2>1. Reply!Earliest(next) \in Int /\ start < Reply!Earliest(next)
    BY <1>1, <1>5
  <2> QED BY <1>4, <2>1
<1>7. Reply!NextMonth(q.today) = <<start, Reply!Earliest(next) - 1>>
  BY DEF Reply!NextMonth, start
<1>8. Reply!FirstDayMeant(q) = start
  <2>1. Reply!FirstDayMeant(q) = CHOOSE x \in MonthStarts :
           x > q.today /\ ~\E y \in MonthStarts : q.today < y /\ y < x
    BY DEF Reply!FirstDayMeant
  <2>2. ~\E y \in MonthStarts : q.today < y /\ y < start
    BY <1>1, <1>3, <1>4
  <2>3. ASSUME NEW x \in MonthStarts, x > q.today,
               ~\E y \in MonthStarts : q.today < y /\ y < x
        PROVE  x = start
    BY <1>1, <1>3, <1>4, <2>3
  <2> QED BY <1>4, <2>1, <2>2, <2>3
<1> QED BY <1>4, <1>6, <1>7, <1>8

\* "The next payment run" is the first chase date on or after the first day
\* meant, if there is one.
LEMMA NextRunIsNext ==
  ASSUME NEW q, Reply!IsMessage(q), q.run, NEW run, run = Reply!NextPaymentRun(q)
  PROVE  /\ run = NoDay => \A c \in Reply!ChaseDates(q) : ~(c >= Reply!FirstDayMeant(q))
         /\ run # NoDay =>
              /\ run \in Reply!ChaseDates(q)
              /\ run >= Reply!FirstDayMeant(q)
              /\ \A c \in Reply!ChaseDates(q) : ~(Reply!FirstDayMeant(q) <= c /\ c < run)
<1> DEFINE dates == Reply!ChaseDates(q)
           first == Reply!FirstDayMeant(q)
<1>1. q.today \in Int
  BY DEF Reply!IsMessage
<1>2. dates \in SUBSET Int /\ \A d \in dates : d >= q.today
  BY ChaseDatesAreAhead
<1>3. {d \in dates : d >= q.today} = dates
  BY <1>2
<1>4. run = IF dates = {} THEN NoDay
            ELSE IF q.period = "week" THEN Reply!EarliestIn(dates, Reply!NextWeek(q.today))
            ELSE IF q.period = "month" THEN Reply!EarliestIn(dates, Reply!NextMonth(q.today))
            ELSE Reply!Earliest(dates)
  BY <1>3 DEF Reply!NextPaymentRun
<1> HIDE DEF dates, first
<1> SUFFICES /\ run = NoDay => \A c \in dates : ~(c >= first)
             /\ run # NoDay =>
                  run \in dates /\ run >= first /\ \A c \in dates : ~(first <= c /\ c < run)
  BY DEF dates, first
<1>5. CASE dates = {}
  BY <1>4, <1>5
<1>6. CASE dates # {} /\ q.period = "week"
  <2> DEFINE end == first + 6
  <2>1. first \in Int /\ Reply!NextWeek(q.today) = <<first, end>>
    BY <1>6, WeekBegins DEF first
  <2>2. run = Reply!EarliestIn(dates, <<first, end>>)
    BY <1>4, <1>6, <2>1
  <2>3. end \in Int /\ first <= end + 1
    BY <2>1
  <2> HIDE DEF end
  <2> QED BY <1>1, <1>2, <2>1, <2>2, <2>3, EarliestInIsNext
<1>7. CASE dates # {} /\ q.period = "month"
  <2>1. first \in Int
    BY <1>7, MonthBegins DEF first
  <2>2. PICK end \in Int : Reply!NextMonth(q.today) = <<first, end>> /\ first <= end
    BY <1>7, MonthBegins DEF first
  <2>3. run = Reply!EarliestIn(dates, <<first, end>>)
    BY <1>4, <1>7, <2>2
  <2>4. first <= end + 1
    BY <2>1, <2>2
  <2> QED BY <1>1, <1>2, <2>1, <2>3, <2>4, EarliestInIsNext
<1>8. CASE dates # {} /\ q.period \notin {"week", "month"}
  <2>1. first = q.today
    BY <1>8 DEF first, Reply!FirstDayMeant
  <2>2. run = Reply!Earliest(dates)
    BY <1>4, <1>8
  <2>3. \A d \in dates : q.today <= d
    BY <1>1, <1>2
  <2>4. run \in dates /\ \A d \in dates : run <= d
    BY <1>1, <1>2, <1>8, <2>2, <2>3, EarliestExists
  <2>5. run # NoDay
    BY <1>2, <2>4, NoDayAssumption
  <2> QED BY <1>1, <1>2, <2>1, <2>3, <2>4, <2>5
<1> QED BY <1>5, <1>6, <1>7, <1>8

\* What becomes of a commitment whose words name no day.
LEMMA ScheduledDay ==
  ASSUME NEW q, Reply!IsMessage(q), NEW d \in Reply!ReplyDetails, NEW s, s = Reply!Scheduled(q, d)
  PROVE  /\ s.day # NoDay =>
              s.day \in Reply!ChaseDates(q) /\ s.day >= q.today /\ s.quoted
         /\ q.run /\ (\E c \in Reply!ChaseDates(q) : c >= Reply!FirstDayMeant(q)) =>
              /\ s.day # NoDay
              /\ s.day >= Reply!FirstDayMeant(q)
              /\ \A c \in Reply!ChaseDates(q) : ~(Reply!FirstDayMeant(q) <= c /\ c < s.day)
<1> DEFINE run == Reply!NextPaymentRun(q)
<1>1. run # NoDay => q.run
  BY DEF Reply!NextPaymentRun
<1>2. q.run => /\ run = NoDay => \A c \in Reply!ChaseDates(q) : ~(c >= Reply!FirstDayMeant(q))
               /\ run # NoDay =>
                    /\ run \in Reply!ChaseDates(q)
                    /\ run >= Reply!FirstDayMeant(q)
                    /\ \A c \in Reply!ChaseDates(q) : ~(Reply!FirstDayMeant(q) <= c /\ c < run)
  BY NextRunIsNext
<1>3. \A c \in Reply!ChaseDates(q) : c >= q.today
  BY ChaseDatesAreAhead
<1> HIDE DEF run
<1>4. CASE run # NoDay
  <2>1. s.day = run /\ s.quoted = TRUE
    BY <1>4 DEF Reply!Scheduled, Reply!ReplyDetails, run
  <2> QED BY <1>1, <1>2, <1>3, <1>4, <2>1
<1>5. CASE run = NoDay
  <2>1. s.day = NoDay \/ (s.day \in Reply!ChaseDates(q) /\ s.quoted = TRUE)
    BY <1>5 DEF Reply!Scheduled, Reply!Undated, Reply!ReplyDetails, run
  <2> QED BY <1>2, <1>3, <1>5, <2>1
<1> QED BY <1>4, <1>5

LEMMA ScheduledType ==
  ASSUME NEW q, Reply!IsMessage(q), NEW d \in Reply!ReplyDetails
  PROVE  Reply!Scheduled(q, d) \in Reply!ReplyDetails
<1>1. \A day \in Int : [d EXCEPT !.day = day, !.quoted = TRUE] \in Reply!ReplyDetails
  BY DEF Reply!ReplyDetails
<1>2. Reply!Undated(d) \in Reply!ReplyDetails
  BY DEF Reply!ReplyDetails, Reply!Undated
<1>3. Reply!NextPaymentRun(q) # NoDay => Reply!NextPaymentRun(q) \in Int
  <2>1. Reply!NextPaymentRun(q) # NoDay => q.run
    BY DEF Reply!NextPaymentRun
  <2> QED BY <2>1, NextRunIsNext, ChaseDatesAreAhead
<1>4. Reply!Asserted(q, d) \in Reply!ChaseDates(q) => Reply!Asserted(q, d) \in Int
  BY ChaseDatesAreAhead
<1> QED BY <1>1, <1>2, <1>3, <1>4 DEF Reply!Scheduled

\* A commitment of a response, to no day, is one of the answer that was scheduled.
LEMMA ExtractedDetail ==
  ASSUME NEW q, Reply!IsMessage(q), NEW d \in Reply!ReplyDetails, NEW x,
         x = Reply!Extracted(q, d),
         Reply!Commits(x), ~x.silent, Reply!NeedsSchedule(q)
  PROVE  x.day = Reply!Scheduled(q, d).day /\ x.quoted = Reply!Scheduled(q, d).quoted
<1> DEFINE s == Reply!Scheduled(q, d)
           full == d.intent = Reply!Promise /\ d.amount = "none"
<1>1. ~d.silent
  BY DEF Reply!Extracted
<1>2. CASE Reply!Commits(d)
  <2>1. x = [s EXCEPT !.full = full]
    BY <1>1, <1>2 DEF Reply!Extracted
  <2>2. s \in Reply!ReplyDetails
    BY ScheduledType
  <2> HIDE DEF s, full
  <2>3. x.day = s.day /\ x.quoted = s.quoted
    BY <2>1, <2>2 DEF Reply!ReplyDetails
  <2> QED BY <2>3 DEF s
<1>3. CASE ~Reply!Commits(d)
  <2>1. x = [[d EXCEPT !.day = Reply!Asserted(q, d)] EXCEPT !.full = full]
    BY <1>1, <1>3 DEF Reply!Extracted
  <2>2. x.intent = d.intent /\ x.part = d.part
    BY <2>1 DEF Reply!ReplyDetails
  <2> QED BY <1>3, <2>2 DEF Reply!Commits
<1> QED BY <1>2, <1>3

LEMMA DetailIsScheduled ==
  ASSUME NEW q, Reply!IsMessage(q), NEW d \in Reply!ReplyDetails, NEW x, x = Reply!Extracted(q, d)
  PROVE  Reply!DayIsConfigured(q, x) /\ Reply!RunIsTheNext(q, x)
<1>1. CASE Reply!Commits(x) /\ ~x.silent /\ Reply!NeedsSchedule(q)
  <2>1. x.day = Reply!Scheduled(q, d).day /\ x.quoted = Reply!Scheduled(q, d).quoted
    BY <1>1, ExtractedDetail
  <2> QED BY <2>1, ScheduledDay DEF Reply!DayIsConfigured, Reply!RunIsTheNext
<1>2. CASE ~(Reply!Commits(x) /\ ~x.silent /\ Reply!NeedsSchedule(q))
  BY <1>2 DEF Reply!DayIsConfigured, Reply!RunIsTheNext
<1> QED BY <1>1, <1>2

LEMMA ReplyIsScheduled ==
  ASSUME NEW q, Reply!IsMessage(q), NEW e \in Reply!ReplyAnswers
  PROVE  Reply!AreCommitmentsScheduled(q, Reply!Response(q, e))
<1> DEFINE r == Reply!Response(q, e)
           flat == [e.flat EXCEPT !.intent = e.intent]
<1>1. e.details \in Seq(Reply!ReplyDetails) /\ flat \in Reply!ReplyDetails
  BY DEF Reply!ReplyAnswers, Reply!ReplyDetails
<1>2. \A x \in Reply!ToSet(r.details) : \E d \in Reply!ReplyDetails : x = Reply!Extracted(q, d)
  <2>1. r.details = [i \in DOMAIN e.details |-> Reply!Extracted(q, e.details[i])]
    BY DEF Reply!Response
  <2>2. \A i \in DOMAIN e.details : e.details[i] \in Reply!ReplyDetails
    BY <1>1
  <2> HIDE DEF r
  <2> QED BY <2>1, <2>2 DEF Reply!ToSet
<1>3. r.flat \in Reply!ToSet(r.details) \/ r.flat = Reply!Extracted(q, flat)
  <2>1. r.flat = IF e.flat.silent /\ r.details # <<>> THEN r.details[1]
                 ELSE Reply!Extracted(q, flat)
    BY DEF Reply!Response
  <2>2. r.details \in Seq(Reply!ToSet(r.details))
    BY <1>1 DEF Reply!Response, Reply!ToSet
  <2>3. r.details # <<>> => r.details[1] \in Reply!ToSet(r.details)
    BY <2>2
  <2> QED BY <2>1, <2>3
<1> HIDE DEF r, flat
<1>4. \A x \in Reply!ToSet(r.details) \cup {r.flat} : \E d \in Reply!ReplyDetails : x = Reply!Extracted(q, d)
  BY <1>1, <1>2, <1>3
<1>5. Reply!AreCommitmentsScheduled(q, r)
  BY <1>4, DetailIsScheduled DEF Reply!AreCommitmentsScheduled
<1> QED BY <1>5 DEF r

\* The next payment run is the first one that the debtor's words allow; another
\* commitment to a time that is no day is given a day of the tenant's calendar
\* that is not past, or none.
THEOREM CommitmentsAreAlwaysScheduled == Spec => []CommitmentsAreScheduled
<1>1. Inv => CommitmentsAreScheduled
  BY ReplyServed, ReplyIsScheduled DEF CommitmentsAreScheduled
<1> QED BY <1>1, SpecInv, PTL
=============================================================================
