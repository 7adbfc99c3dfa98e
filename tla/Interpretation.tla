---------------------------- MODULE Interpretation ----------------------------
(***************************************************************************)
(* The interpreters of engine/: a request of one of them comes in; it may  *)
(* be answered without a call; a model is asked; its answer is checked;    *)
(* three of the services ask again, with a correction, the others do not;  *)
(* and a response goes out or an error does.                               *)
(*                                                                         *)
(* What the services check and answer is in a module for each; this module *)
(* is the one loop they have in common and what they do differently in it. *)
(***************************************************************************)
EXTENDS Integers, Sequences, FiniteSets

CONSTANTS
  Numbers, Obligations, Histories,   \* of ManualNote
  Quotes, Values, Says,              \* of MessageEvidence
  NoDay, Horizon, MonthStarts,       \* of CommitmentDates
  NoChain,                           \* of CollectionChain
  Spellings, Norm, Blank,            \* of SentScope
  None,
  Requests,      \* the requests considered, each with its service
  Answers,       \* Answers[s]: the answers a model may give to service s
  MaxAttempts    \* max_attempts, _MAX_GROUNDING_ATTEMPTS

Note == INSTANCE ManualNote
Event == INSTANCE CollectionEvent
Document == INSTANCE DocumentRequest
Weekly == INSTANCE WeeklyUpdate
Mail == INSTANCE MailEvidence
Reply == INSTANCE InboundReply
Chain == INSTANCE CollectionChain
Sent == INSTANCE SentScope

Services ==
  {"manual_note", "event", "document", "weekly", "mail", "reply",
   "facts", "identify", "route", "history", "sent_scope"}

\* The API admits no other requests.
IsRequest(q) ==
  /\ q.service \in Services
  /\ q.service = "manual_note" => Note!IsNote(q)
  /\ q.service = "event" => q.body \in Event!Texts
  /\ q.service = "document" => Document!IsMessage(q)
  /\ q.service = "weekly" => Weekly!IsUpdateRequest(q)
  /\ q.service = "mail" => \A m \in q.segments \cup q.prior : m.text \in Mail!Texts
  /\ q.service = "reply" => Reply!IsMessage(q)
  /\ q.service = "route" => IsFiniteSet(q.invoices) /\ NoChain \notin q.chains
  /\ q.service = "sent_scope" => Sent!IsAnalysis(q)

\* The schemas of the answers, as far as it matters here.
AnswersAreTyped ==
  /\ DOMAIN Answers = Services
  /\ Answers["manual_note"] \subseteq Note!Extractions
  /\ Answers["event"] \subseteq Event!EventAnswers
  /\ Answers["document"] \subseteq Document!DocumentAnswers
  /\ \A e \in Answers["weekly"] : Weekly!IsAnswer(e)
  /\ Answers["reply"] \subseteq Reply!ReplyAnswers
  /\ \A e \in Answers["route"] : Len(e.routes) \in Nat /\ DOMAIN e.routes = 1..Len(e.routes)
  /\ Answers["sent_scope"] \subseteq Sent!DecisionLists

ASSUME AttemptsAssumption == MaxAttempts \in Nat \ {0}
ASSUME NoneAssumption == None \notin Histories
ASSUME NoDayAssumption == NoDay \notin Int
ASSUME CalendarAssumption == Horizon \in Nat /\ MonthStarts \subseteq Int
ASSUME RequestsAssumption == \A q \in Requests : IsRequest(q)
ASSUME AnswersAssumption == AnswersAreTyped

VARIABLES
  request,   \* the request
  phase,     \* where its service is
  attempt,   \* calls of the model that were begun
  subject,   \* the attempt the prompt of this call corrects, 0 for none
  refused,   \* history: the attempts whose answers were refused
  promised,  \* history: the promised amounts that their quotes refuted
  answer,    \* history: the answer that was accepted
  response   \* the response

vars == <<request, phase, attempt, subject, refused, promised, answer, response>>

NoAnswer == <<>>

NoResponse == [status |-> "none", content |-> <<>>, billed |-> {}, prompt |-> 0]

-----------------------------------------------------------------------------
(* The services.                                                           *)

\* Who asks again, and how often.
Limit(q) == IF q.service \in {"manual_note", "event", "weekly"} THEN MaxAttempts ELSE 1

IsDeclined(q) ==
  CASE q.service = "manual_note" -> Note!IsPointless(q)
    [] q.service = "document" -> Document!AdmissionReason(q) # "none"
    [] q.service = "mail" -> Mail!DeclineReason(q) # "none"
    [] q.service = "sent_scope" -> Sent!HasNoCandidates(q)
    [] OTHER -> FALSE

Declined(q) ==
  CASE q.service = "manual_note" -> Note!Abstained
    [] q.service = "document" -> Document!Nothing
    [] q.service = "sent_scope" -> Sent!Unasked
    [] OTHER -> [disposition |-> Mail!DeclineReason(q), events |-> <<>>]

IsMisconfigured(q) == q.service = "reply" /\ Reply!IsMisconfigured(q)

IsValid(q, e) ==
  CASE q.service = "manual_note" -> Note!IsValid(q, e)
    [] q.service = "event" -> Event!IsValid(q, e)
    [] q.service = "document" -> Document!IsValid(q, e)
    [] q.service = "weekly" -> Weekly!IsValid(q, e)
    [] q.service = "mail" -> Mail!IsValid(q, e)
    [] q.service = "reply" -> Reply!IsValid(q, e)
    [] q.service = "facts" -> Chain!AreFactsValid(e)
    [] q.service = "identify" -> Chain!IsIdentification(e)
    [] q.service = "route" -> Chain!AreRoutesValid(q, e)
    [] q.service = "sent_scope" -> Sent!IsValid(e)
    [] OTHER -> Chain!IsHistoryValid(q, e)

Content(q, e) ==
  CASE q.service = "manual_note" -> Note!Response(e)
    [] q.service = "event" -> Event!Grounded(e)
    [] q.service = "document" -> Document!Response(q, e)
    [] q.service = "weekly" -> Weekly!Response(q, e)
    [] q.service = "mail" -> Mail!Response(q, e)
    [] q.service = "reply" -> Reply!Response(q, e)
    [] q.service = "facts" -> Chain!FactsOf(e)
    [] q.service = "identify" -> Chain!Identified(e)
    [] q.service = "route" -> [routes |-> e.routes]
    [] q.service = "sent_scope" -> Sent!Response(q, e)
    [] OTHER -> Chain!HistoryOf(q, e)

\* Only the notes add up what their attempts cost; the others report the last.
Billed == IF request.service = "manual_note" THEN 1..attempt ELSE {attempt}

\* The weekly report hashes its prompt without the correction that was sent.
Audited == IF request.service = "weekly" THEN 0 ELSE subject

-----------------------------------------------------------------------------
Init ==
  /\ request \in Requests
  /\ phase = "called"
  /\ attempt = 0
  /\ subject = 0
  /\ refused = {}
  /\ promised = {}
  /\ answer = NoAnswer
  /\ response = NoResponse

\* Some requests need no call of a model.
Decline ==
  /\ phase = "called"
  /\ IsDeclined(request)
  /\ response' = [NoResponse EXCEPT !.status = "declined", !.content = Declined(request)]
  /\ phase' = "returned"
  /\ UNCHANGED <<request, attempt, subject, refused, promised, answer>>

\* A policy that names no real timezone fails before the call.
FailEarly ==
  /\ phase = "called"
  /\ IsMisconfigured(request)
  /\ phase' = "raised"
  /\ UNCHANGED <<request, attempt, subject, refused, promised, answer, response>>

Begin ==
  /\ phase = "called"
  /\ ~IsDeclined(request) /\ ~IsMisconfigured(request)
  /\ attempt' = 1
  /\ phase' = "asking"
  /\ UNCHANGED <<request, subject, refused, promised, answer, response>>

\* An error of the providers leaves the services as it is.
ProviderFails ==
  /\ phase = "asking"
  /\ phase' = "raised"
  /\ UNCHANGED <<request, attempt, subject, refused, promised, answer, response>>

\* The analysis of a sent draft makes a response of most of these errors.
ReturnUnavailable ==
  /\ phase = "asking"
  /\ request.service = "sent_scope"
  /\ response' = [status |-> "unavailable", content |-> Sent!Unavailable,
                  billed |-> {}, prompt |-> subject]
  /\ phase' = "returned"
  /\ UNCHANGED <<request, attempt, subject, refused, promised, answer>>

Accept(e) ==
  /\ phase = "asking"
  /\ IsValid(request, e)
  /\ response' = [status |-> "answered", content |-> Content(request, e),
                  billed |-> Billed, prompt |-> Audited]
  /\ answer' = e
  /\ phase' = "returned"
  /\ UNCHANGED <<request, attempt, subject, refused, promised>>

RefutedOf(e) == IF request.service = "event" THEN Event!RefutedPromises(request, e) ELSE {}

RefuseOnceMoreMutant(e) ==
  /\ phase = "asking"
  /\ ~IsValid(request, e)
  /\ attempt <= Limit(request)
  /\ refused' = refused \cup {attempt}
  /\ promised' = promised \cup RefutedOf(e)
  /\ subject' = attempt
  /\ attempt' = attempt + 1
  /\ UNCHANGED <<request, phase, answer, response>>

\* The next prompt says what is wrong with this answer.
Refuse(e) ==
  /\ phase = "asking"
  /\ ~IsValid(request, e)
  /\ attempt < Limit(request)
  /\ refused' = refused \cup {attempt}
  /\ promised' = promised \cup RefutedOf(e)
  /\ subject' = attempt
  /\ attempt' = attempt + 1
  /\ UNCHANGED <<request, phase, answer, response>>

GiveUp(e) ==
  /\ phase = "asking"
  /\ ~IsValid(request, e)
  /\ attempt = Limit(request)
  /\ request.service # "mail"
  /\ refused' = refused \cup {attempt}
  /\ phase' = "raised"
  /\ UNCHANGED <<request, attempt, subject, promised, answer, response>>

\* The evidence of a mail is always a response.
ReturnInvalid(e) ==
  /\ phase = "asking"
  /\ ~IsValid(request, e)
  /\ request.service = "mail"
  /\ refused' = refused \cup {attempt}
  /\ response' = [status |-> "invalid", content |-> Mail!Invalid,
                  billed |-> Billed, prompt |-> subject]
  /\ phase' = "returned"
  /\ UNCHANGED <<request, attempt, subject, promised, answer>>

Next ==
  \/ Decline \/ FailEarly \/ Begin \/ ProviderFails \/ ReturnUnavailable
  \/ \E e \in Answers[request.service] :
       Accept(e) \/ Refuse(e) \/ GiveUp(e) \/ ReturnInvalid(e)

Spec == Init /\ [][Next]_vars

-----------------------------------------------------------------------------
(* Properties.                                                             *)

TypeOK ==
  /\ request \in Requests
  /\ phase \in {"called", "asking", "returned", "raised"}
  /\ attempt \in 0..MaxAttempts
  /\ subject \in 0..MaxAttempts
  /\ refused \subseteq 1..MaxAttempts
  /\ response.status \in {"none", "declined", "answered", "invalid", "unavailable"}
  /\ response.billed \subseteq 1..MaxAttempts
  /\ response.prompt \in 0..MaxAttempts

IsAnswered(service) ==
  request.service = service /\ phase = "returned" /\ response.status = "answered"

\* An accepted note moves only controls the operator selected.
OnlySelectedControlsMove ==
  IsAnswered("manual_note") /\ response.content.status = "accepted" =>
    Note!MovesOnlySelected(request, response.content)

\* No figure leaves a service that the words it quotes do not spell out, in one
\* place of a text the service was given.  What a disagreement proposes to pay
\* (the event classifier does not look at it) is not among these figures.
FiguresAreFounded ==
  /\ IsAnswered("manual_note") => Note!IsFounded(response.content)
  /\ IsAnswered("event") => Event!IsFounded(request, response.content)
  /\ IsAnswered("mail") => Mail!IsFounded(request, response.content)
  /\ IsAnswered("weekly") => Weekly!IsFounded(request, response.content)

\* A document request reaches only what the current message names, or the one
\* complete set of references that it points back to; what is left uncertain
\* reaches nothing; and without admission there is neither a call nor a request.
\* A request for the whole account is of statements only and reaches no
\* reference; it may come of a statement whose references were cleared as
\* unresolved, although a comment of _deterministic_projection says that these
\* must not become an implied scope.
RequestedScopeIsNamed ==
  request.service = "document" /\ phase = "returned" =>
    LET r == response.content
        reached == r.invoices \cup r.orders
    IN  /\ \A item \in {r.items[i] : i \in DOMAIN r.items} :
             \/ Document!Refs(item) \subseteq request.named
             \/ request.deictic /\ {Document!Refs(item)} = Document!CompleteSets(request)
        /\ reached # {} => r.state = "active_request"
        /\ r.scope = "exact" => \A i \in DOMAIN r.items : r.items[i].invoices # {}
        /\ r.scope = "account_wide" =>
             /\ r.state = "active_request" /\ reached = {}
             /\ \A i \in DOMAIN r.items : r.items[i].type = "statement"
        /\ attempt = 0 <=> ~(request.class = "debtor_authored" /\ request.verified
                             /\ request.eligible /\ ~request.automated /\ ~request.deleted)
        /\ attempt = 0 => r = Document!Nothing

\* Each chased invoice is routed exactly once, to a chain that was offered or
\* to a person.
EveryInvoiceIsRouted ==
  IsAnswered("route") => Chain!IsRoutingSafe(request, response.content)

\* A commitment to a time that is no day is given a day of the tenant's own
\* calendar, not a past one, or none.  "The next payment run" is the next one
\* the debtor's words allow, whatever the model says, and is never left without
\* a day where the calendar has one; for other such words the model may choose
\* among the days of the calendar.
CommitmentsAreScheduled ==
  IsAnswered("reply") => Reply!AreCommitmentsScheduled(request, response.content)

\* Every attempt but the last was refused, each prompt after the first corrects
\* the attempt just before it, a response reports the prompt that was answered
\* (the weekly report, its first one) and at least the tokens of the last
\* attempt (a note's, those of all), and invalid answers are given up on at the
\* limit of the service only.
AttemptsAreAccounted ==
  /\ attempt <= Limit(request)
  /\ phase = "asking" \/ response.status \in {"answered", "unavailable"} =>
       refused = 1..(attempt - 1) /\ subject = attempt - 1
  /\ response.status \in {"answered", "invalid"} =>
       /\ attempt \in response.billed
       /\ response.prompt = IF request.service = "weekly" THEN 0 ELSE attempt - 1
       /\ request.service = "manual_note" => response.billed = 1..attempt
  /\ phase = "raised" =>
       \/ refused = 1..(attempt - 1)
       \/ attempt = Limit(request) /\ refused = 1..attempt

\* What the report on a sent draft lists never contradicts the generated one,
\* whatever the model answers, or if it does not (_validated_decisions).  And an
\* invoice of the generated draft goes missing from a report without review only
\* where the model itself first calls it "not present": the one contradiction
\* that is left as it is.
ReportAgreesWithDraft ==
  /\ request.service = "sent_scope" /\ phase = "returned" =>
       Sent!AgreesWithDraft(request, response.content)
  /\ IsAnswered("sent_scope") =>
       Sent!AccountsForDraft(request, answer.decisions, response.content)

\* No invoice is reported as sent that the first decision on it does not call
\* so, and none but a candidate, with an obligation of that number.
NothingInvented ==
  IsAnswered("sent_scope") => Sent!IsDecided(request, answer.decisions, response.content)

\* A report that asks for no review has been earned: the model decided on every
\* candidate, was sure of what it calls present or removed, and left nothing
\* ambiguous; its confidence is that of its weakest decision.
SuccessIsEarned ==
  request.service = "sent_scope" /\ phase = "returned" /\ response.content.status = "succeeded" =>
    Sent!IsEarned(request, answer.decisions, response.content)

\* The comment in _apply_grounding: an explicit amount that fails grounding
\* must not become "a silently widened full-balance promise".
PromiseIsNotWidened ==
  IsAnswered("event") /\ Event!WidenedPromises(response.content) # {} => promised = {}
=============================================================================
