---------------------------- MODULE ConductRules ----------------------------
(***************************************************************************)
(* The guardrails on how a collection e-mail speaks, whatever it is about  *)
(* (src/guardrails/): tone, identity, placeholders, terminology, promises, *)
(* policies, and those that only warn.  Requests and drafts are the        *)
(* records of CollectionScope; the words stand for the phrases of the      *)
(* lists in the code, one for every set of lists a phrase can be on.       *)
(*                                                                         *)
(* A draft also has its opening line, the name it is signed with, the      *)
(* placeholders left in it, its e-mail addresses and the one it asks to    *)
(* reply to ("none" where there is none).                                  *)
(***************************************************************************)
EXTENDS CollectionScope

Words(d) == UNION {s.words : s \in d.sentences}
Says(d, phrases) == Words(d) \cap phrases # {}

\* Quoted lines of an earlier e-mail count for every guardrail but the tone.
OwnWords(d) == UNION {s.words : s \in {x \in d.sentences : ~x.quoted}}
SaysItself(d, phrases) == OwnWords(d) \cap phrases # {}

----------------------------------------------------------------------------
(* tone_clamping                                                           *)

LegalPressure == {"legal action", "legal proceedings", "legal referral", "final notice"}
SoftPressure == {"legal action", "legal proceedings", "final notice", "critically overdue"}
PaymentPressure == SoftPressure \cup {"make payment"}
AcknowledgementCues == {"thank", "when payment"}   \* the timing ask says "confirm"

ToneClamping(d, r) ==
  /\ r.tone # "none"
  /\ "legal_escalation" \notin r.policies => ~SaysItself(d, LegalPressure)
  /\ ~SaysItself(d, {"critically overdue"})
  /\ r.tone = "acknowledgement" =>
       ~SaysItself(d, PaymentPressure) /\ SaysItself(d, AcknowledgementCues)
  /\ r.tone \in {"friendly_reminder", "concerned_inquiry"} => ~SaysItself(d, SoftPressure)

----------------------------------------------------------------------------
(* identity_scope                                                          *)

AuthorisedAddresses(r) ==
  (r.contacts \cup r.cc \cup {r.sender.email, r.replyAnchor}) \ {"none"}

IdentityScope(d, r) ==
  LET expected == IF r.replyAnchor # "none" THEN r.replyAnchor ELSE r.sender.email
  IN /\ d.opening = "Hello"
     /\ d.signedBy \notin {"none", "placeholder"} /\ r.sender.name # "none" =>
          d.signedBy = r.sender.name
     /\ d.addresses \subseteq AuthorisedAddresses(r)
     /\ d.replyTo # "none" /\ expected # "none" => d.replyTo = expected

----------------------------------------------------------------------------
(* placeholder_validation, overdue_terminology                             *)

\* A mutant does not know the token of the table.
AllowedPlaceholdersMutant(r) == {}

AllowedPlaceholders(r) == IF r.skip \/ r.closure THEN {} ELSE {"{INVOICE_TABLE}"}

Placeholders(d, r) == d.placeholders \subseteq AllowedPlaceholders(r)

\* The basis is compared as it comes: the default of the selection is not used.
OverdueTerminology(d, r) ==
  ~r.closure /\ r.schema >= 4 /\ r.basis = "overdue" =>
    ~Says(d, {"outstanding balance"}) /\ "outstanding balance" \notin d.subject

----------------------------------------------------------------------------
(* promise_reply: a reply to a debtor who gave a date repeats the date and *)
(* does not ask for one.                                                   *)

SettledOutcomes == {"broken", "cancelled", "expired", "fulfilled", "paid"}

\* The dates of the inbound messages that promise one, and of the promises that
\* are not settled.
PromiseDates(r) ==
  ({m.promise : m \in r.inbound}
     \cup {p.date : p \in {x \in r.promises : x.outcome \notin SettledOutcomes}}) \ {Absent}

AnswersPromise(r) ==
  r.trigger = "PROMISE_TO_PAY" \/ r.mode \in {"reply_ack", "handoff_reply", "resolution_follow_up"}

PromiseReply(d, r) ==
  PromiseDates(r) # {} /\ AnswersPromise(r) =>
    /\ ~Says(d, {"when payment"})
    /\ \E s \in d.sentences : s.dates \cap PromiseDates(r) # {}

----------------------------------------------------------------------------
(* policy_grounding: a model judges whether the draft commits to what the  *)
(* policies do not allow; when it cannot be asked, only the phrases that   *)
(* leave no doubt block.  A judgement is the policy the model names,       *)
(* "none", or "error" for an exception of any kind.                        *)

Policies == {"legal_escalation", "statutory_interest", "discount", "settlement"}

StrictPhrases ==
  [legal_escalation |-> {"legal proceedings"}, statutory_interest |-> {"statutory interest"},
   discount |-> {"10% discount"}, settlement |-> {"settle for"}]

Unauthorised(r) == Policies \ r.policies

PlainCommitments(d, r) == {p \in Unauthorised(r) : Says(d, StrictPhrases[p])}

\* A mutant passes the draft when the judge cannot be asked.
PolicyGroundingMutant(d, r, judgement) == judgement \notin Unauthorised(r)

PolicyGrounding(d, r, judgement) ==
  IF judgement = "error" THEN PlainCommitments(d, r) = {} ELSE judgement \notin Unauthorised(r)

----------------------------------------------------------------------------
(* The guardrails that warn, flag for review or log, and never block.      *)

\* semantic_coherence passes when its model cannot be asked.
SemanticCoherence(r, coherence) ==
  r.mode # "initial" /\ (\E m \in r.inbound : m.lane) => coherence \in {"coherent", "error"}

TemporalConsistency(d, r) ==
  \A day \in UNION {s.dueDates : s \in d.sentences} :
    \E o \in r.obligations : day - o.dueDate \in -1..1

ForbiddenContent(d, r) ==
  ~r.hasPacket => ~Says(d, {"statutory interest", "bank details", "url"})

DisputeAware(d) == Says(d, {"dispute"})
HardshipAware(d) == Says(d, {"understand", "help"})
HistoryAware(d) == Says(d, {"previous", "promise"})

\* An invoice that is paid, credited or written off is not cited next to a demand;
\* the prefixes INV and none are the same to this check, others are not.
NoPaidInvoiceChase(d, r) ==
  LET settled == {o \in r.obligations : o.status \in {"paid", "credited", "written_off"}}
      cited == {o \in settled : o.ref.prefix \in {"", "INV"}
                                /\ o.ref.digits \in Spelled(d, {"invoice"})}
  IN cited # {} => ~Says(d, ChaseWords \cup {"due"}) /\ Figures(d, {"total", "owed"}) = {}

ContextualCoherence(d, r) ==
  /\ r.dispute => DisputeAware(d)
  /\ r.hardship => HardshipAware(d)
  /\ r.brokenPromises >= 2 => HistoryAware(d)
  /\ NoPaidInvoiceChase(d, r)
=============================================================================
