---------------------------- MODULE DraftContent ----------------------------
(***************************************************************************)
(* A draft under the whole guardrail suite.  DraftGeneration, the loop of  *)
(* DraftGenerator.generate (src/engine/generator.py), lets any guardrail   *)
(* object to any draft; here a draft has its text and the thirteen         *)
(* guardrails of src/guardrails/pipeline.py object to what they find in    *)
(* it.  Every step is a step of that loop which says more of the draft, or *)
(* leaves the loop alone, so that a behaviour of this module is one of the *)
(* loop.                                                                   *)
(*                                                                         *)
(* The model may write any text, in answer to any prompt and any feedback. *)
(* The generator keeps nothing between requests; one request is served.    *)
(***************************************************************************)
EXTENDS DraftGeneration, ConductRules

CONSTANTS
  Requests,     \* the requests that may come in
  Texts,        \* the drafts the model may write
  Judgements,   \* what the policy judge may say: a policy, "none", or "error"
  Another       \* stands for the guardrails other than factual_grounding

\* What the loop reads of a verdict is whether factual_grounding objects alone.
ASSUME AnotherAssumption == Another \in Guardrails \ {FactualGrounding}
\* GenerateDraftRequest: flags are flags, and the tone is one of CANONICAL_TONES.
ASSUME RequestsAssumption ==
  \A r \in Requests :
    {r.skip, r.closure, r.chaseForbidden} \subseteq BOOLEAN /\ r.tone # "none"

VARIABLES
  mail,       \* the GenerateDraftRequest
  admission,  \* what the API made of it: "none" yet, "admitted" or "refused"
  text,       \* the text of the draft that was returned
  judgement   \* the policy judge's word on it

content == <<mail, admission, text, judgement>>

\* The guardrails that block a draft, and those that only find fault with it.
Blockers(d, r, policy) ==
  {g \in {"placeholder_validation", "factual_grounding", "numerical_consistency", "lane_scope",
          "tone_clamping", "identity_scope", "overdue_terminology", "promise_reply",
          "policy_grounding"} :
     CASE g = "placeholder_validation" -> ~Placeholders(d, r)
       [] g = "factual_grounding" -> UngroundedFacts(d, r) # {}
       [] g = "numerical_consistency" -> ~NumericalConsistency(d, r)
       [] g = "lane_scope" -> ~LaneScope(d, r)
       [] g = "tone_clamping" -> ~ToneClamping(d, r)
       [] g = "identity_scope" -> ~IdentityScope(d, r)
       [] g = "overdue_terminology" -> ~OverdueTerminology(d, r)
       [] g = "promise_reply" -> ~PromiseReply(d, r)
       [] g = "policy_grounding" -> ~PolicyGrounding(d, r, policy)}

Warnings(d, r, coherence) ==
  {g \in {"semantic_coherence", "temporal_consistency", "forbidden_content",
          "contextual_coherence"} :
     CASE g = "semantic_coherence" -> ~SemanticCoherence(r, coherence)
       [] g = "temporal_consistency" -> ~TemporalConsistency(d, r)
       [] g = "forbidden_content" -> ~ForbiddenContent(d, r)
       [] g = "contextual_coherence" -> ~ContextualCoherence(d, r)}

NoText ==
  [opening |-> "none", signedBy |-> "none", subject |-> {}, placeholders |-> {},
   addresses |-> {}, replyTo |-> "none", sentences |-> {}]

Plain(words) ==
  [words |-> words, mentions |-> {}, figures |-> {}, dates |-> {}, dueDates |-> {},
   quoted |-> FALSE]

\* "Please could you provide an update on the overdue invoices listed below and
\* confirm the expected payment date?  {INVOICE_TABLE}  If you need any
\* information from us to help process payment ...  Thank you.  Kind regards"
FixedText ==
  [NoText EXCEPT !.opening = "Hello", !.placeholders = {"{INVOICE_TABLE}"},
                  !.sentences = {Plain({"when payment"}), Plain({"help"}), Plain({"thank"})}]

\* A text that says as little as the guardrails allow: it thanks, offers help, speaks
\* of a dispute and of a promise, and repeats the dates that the debtor has named.
Courteous(r) ==
  [NoText EXCEPT !.opening = "Hello",
                  !.placeholders = IF r.skip \/ r.closure THEN {} ELSE {"{INVOICE_TABLE}"},
                  !.sentences = {Plain({"thank"}), Plain({"help"}), Plain({"dispute"}),
                                 [Plain({"promise"}) EXCEPT !.dates = PromiseDates(r)]}]

\* The model may write any text; that one is named, because a theorem asks for it.
ASSUME TextsAssumption == \A r \in Requests : Courteous(r) \in Texts

\* The loop's view of a request, and of a verdict.
KindOf(r) ==
  [current |-> CurrentContract(r), skip |-> r.skip, closure |-> r.closure,
   trigger |-> r.trigger # "none", forbidden |-> r.chaseForbidden,
   candidates |-> Candidates(r) # {}]

VerdictOn(n, d, r, policy, cost) ==
  [of |-> n,
   blocking |-> {IF g = "factual_grounding" THEN FactualGrounding ELSE Another :
                   g \in Blockers(d, r, policy)},
   unanswerable |->
     UngroundedFacts(d, r) \cap {"source-disputed", "unverified procurement", "paid/closed"} # {},
   cost |-> cost]

HasTable(d) == "{INVOICE_TABLE}" \in d.placeholders

ContentInit ==
  /\ Init
  /\ mail \in Requests
  /\ request = KindOf(mail)
  /\ admission = "none"
  /\ text = NoText
  /\ judgement = "none"

----------------------------------------------------------------------------

\* GenerateDraftRequest.validate_current_datalake_context raises: a 422.
Refuse ==
  /\ admission = "none"
  /\ ~IsValid(mail)
  /\ admission' = "refused"
  /\ UNCHANGED <<vars, mail, text, judgement>>

Admit ==
  /\ admission = "none"
  /\ IsValid(mail)
  /\ Ask(KindOf(mail))
  /\ admission' = "admitted"
  /\ UNCHANGED <<mail, text, judgement>>

\* The text is returned, with what the policy judge said of it.
Holds(d, policy) == text' = d /\ judgement' = policy /\ UNCHANGED <<mail, admission>>

OmitsTable(p, cost) ==
  /\ \E d \in Texts : ~HasTable(d)
  /\ AnswerOmitsTable(p, cost)
  /\ UNCHANGED content

\* The guardrails judge the text of this attempt.
Judge(p, cost, d, policy, v) ==
  \/ AnswerIsAccepted(p, cost, HasTable(d), v) /\ Holds(d, policy)
  \/ AnswerIsRetried(p, cost, HasTable(d), v) /\ UNCHANGED content
  \/ AnswerIsReturnedBlocked(p, cost, HasTable(d), v) /\ Holds(d, policy)

\* They judge the fixed body after it; one that they block leaves the draft, and
\* what was said of it.
JudgeFixedBody(p, cost, d, policy, v) ==
  \E k \in Judgements, spent \in Costs :
    LET w == VerdictOn(FixedBody, FixedText, mail, k, spent)
    IN /\ FixedBodyIsTried(p, cost, v, w)
       /\ IF Blocking(w) THEN Holds(d, policy) ELSE Holds(FixedText, k)

ModelWrites(p, cost, d) ==
  /\ RequiresTable(request) => HasTable(d)
  /\ \E policy \in Judgements, spent \in Costs :
       LET v == VerdictOn(attempt, d, mail, policy, spent)
       IN \/ Judge(p, cost, d, policy, v)
          \/ FixedBodyAllowed(request, v) /\ JudgeFixedBody(p, cost, d, policy, v)

ContentNext ==
  \/ Refuse
  \/ Admit
  \/ CallFails /\ UNCHANGED content
  \/ /\ phase = "calling"
     /\ \E p \in Providers, cost \in Costs :
          \/ AnswerIsMalformed(p, cost) /\ UNCHANGED content
          \/ OmitsTable(p, cost)
          \/ \E d \in Texts : ModelWrites(p, cost, d)

ContentSpec == ContentInit /\ [][ContentNext]_<<vars, content>>

----------------------------------------------------------------------------
(* Properties                                                              *)

\* The guardrails let the draft through: what is delivered may be sent.
Accepted == Returned /\ ~Blocking(verdict)

\* The API and the generator select with code of their own: no request of a known
\* origin and with a recipient is refused at the door although the generator would
\* find an invoice to chase in it.
NoChaseableRequestIsRefused ==
  admission = "refused" /\ mail.lineage /\ HasValidRecipient(mail) => Candidates(mail) = {}

\* Two guardrails hold a total to two sources, the invoices that were selected
\* and the lane the backend sent.  Where the two differ by more than a penny, no
\* accepted draft states a total of either.
NoTotalWhenSourcesDiffer ==
  Accepted /\ ~mail.closure /\ LaneDigits(mail) # {}
    /\ mail.lane.outstanding - ScopedTotal(mail) \notin -1..1
      => Figures(text, {"total"}) = {}

\* An accepted collection draft does not ask for the payment of a disputed invoice
\* in the sentence that mentions it, however it is spelled; and nothing it calls
\* an invoice shares its number with an invoice that is withheld.
WithheldInvoicesAreLeftAlone ==
  Accepted /\ ~mail.closure =>
    /\ \A o \in mail.obligations, s \in text.sentences :
         HasSourceDispute(o) /\ Chases(s) => ~MentionsRef(s, o.ref)
    /\ Candidates(mail) # {} =>
         Spelled(text, {"invoice"}) \cap InvoiceDigits(Withheld(mail)) = {}

\* The fixed body is tried only where it stands a chance: all that can still
\* block it is that the debtor has named a date already, which it asks for, or
\* the word of the policy judge.  (Its own comment calls it fact-free.)
FixedBodyIsAdmissible ==
  Returned /\ FixedBodyAllowed(request, modelVerdict) =>
    \A j \in Judgements :
      Blockers(FixedText, mail, j) \subseteq {"promise_reply", "policy_grounding"}

\* No request is hopeless: whatever it asks for, there is a draft to which no
\* guardrail objects, not even with a warning, while the two judges are content or
\* cannot be asked.  A retry that could only fail again would spend its calls for
\* nothing.
SomeDraftSatisfiesAll ==
  phase = "calling" =>
    \E d \in Texts :
      /\ RequiresTable(request) => HasTable(d)
      /\ \A j \in {"none", "error"} : Blockers(d, mail, j) = {}
      /\ \A c \in {"coherent", "error"} : Warnings(d, mail, c) = {}

\* When the policy judge cannot be asked, an accepted draft makes none of the
\* plain commitments that the policies do not allow; and a threat of legal
\* proceedings in the draft's own words needs the policy whatever the judge says.
OutageDoesNotCommit ==
  Accepted =>
    /\ judgement = "error" => PlainCommitments(text, mail) = {}
    /\ SaysItself(text, {"legal proceedings"}) => "legal_escalation" \in mail.policies
=============================================================================
