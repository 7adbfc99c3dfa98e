----------------------------- MODULE MailEvidence -----------------------------
(***************************************************************************)
(* MailSemanticEvidenceInterpreterV2 and V3: the events a mail is evidence *)
(* of, with the place of every quote.  Whatever the model answers is a     *)
(* response: what cannot be grounded makes the response an invalid one.    *)
(*                                                                         *)
(* A request q has a version, the segments of the message with the state   *)
(* of the attachment each is from, the earlier messages, and the candidate *)
(* invoices.  A span of an answer names a source and a quote and what it   *)
(* supports; an event has invoice references, an amount with a currency, a *)
(* date and a reference.                                                   *)
(***************************************************************************)
EXTENDS MessageEvidence, Sequences, SequencesExt

\* An attachment counts if it was read completely.
IsReadable(s) == s.kind = "attachment" => s.state = "complete"

\* An earlier message hides a segment that has its id.
Text(q, id) ==
  IF \E p \in q.prior : p.id = id THEN (CHOOSE p \in q.prior : p.id = id).text
  ELSE (CHOOSE s \in q.segments : s.id = id /\ IsReadable(s)).text

Sources(q) ==
  {p.id : p \in q.prior} \cup {s.id : s \in {x \in q.segments : IsReadable(x)}}

-----------------------------------------------------------------------------
(* Why there may be no call.                                               *)

DeclineReason(q) ==
  CASE ~q.enabled -> "deferred"
    [] q.enabled /\ Sources(q) = {} -> "abstained"
    [] q.enabled /\ Sources(q) # {} /\ q.version = 3 /\ ~q.credential -> "deferred"
    [] OTHER -> "none"

-----------------------------------------------------------------------------
(* What an answer is turned into.                                          *)

Supporting(event, support) == {s.quote : s \in {x \in event.spans : support \in x.supports}}

IsStated(event, value, support) ==
  \E quote \in Supporting(event, support) : quote \in Quotes /\ Explicit(value, quote)

\* V3 removes what an event does not support and keeps the event.
KeptValue(event, value, support) ==
  IF value # None /\ IsStated(event, value, support) THEN value ELSE None

Stripped(q, event) ==
  LET amount == KeptValue(event, event.amount, "amount")
  IN  [spans |-> event.spans,
       amount |-> amount,
       currency |-> event.currency /\ amount = event.amount,
       date |-> KeptValue(event, event.date, "date"),
       reference |-> KeptValue(event, event.reference, "reference"),
       refs |-> {r \in event.refs : r \in q.candidates /\ IsStated(event, r, "invoice_scope")}]

Event(q, event) == IF q.version = 3 THEN Stripped(q, event) ELSE event

\* V3 takes the first event's first span for the relevance of the mail, where
\* the answer names none.
IsRelevanceShown(q, e) ==
  \/ \E s \in e.spans : "relevance" \in s.supports
  \/ q.version = 3 /\ e.events # <<>>

IsLocated(q, span) == span.source \in Sources(q) /\ Located(Text(q, span.source), span.quote)

FieldsAreStated(event) ==
  /\ event.amount # None => IsStated(event, event.amount, "amount")
  /\ event.date # None => IsStated(event, event.date, "date")
  /\ event.reference # None => IsStated(event, event.reference, "reference")

IsValid(q, e) ==
  /\ e.readable
  /\ \A i \in DOMAIN e.events : e.events[i].spans # {}
  /\ e.disposition # "accepted" => e.events = <<>>
  /\ e.disposition = "accepted" => IsRelevanceShown(q, e)
  /\ \A s \in e.spans : IsLocated(q, s)
  /\ \A event \in ToSet(e.events) :
       FieldsAreStated(Event(q, event)) /\ \A s \in event.spans : IsLocated(q, s)

Response(q, e) ==
  [disposition |-> e.disposition,
   events |-> [i \in DOMAIN e.events |-> Event(q, e.events[i])]]

Invalid == [disposition |-> "invalid", events |-> <<>>]

-----------------------------------------------------------------------------
(* What properties say of a response r: every value is spelled out in one  *)
(* place of a message or of an attachment that was read completely.        *)

ReadableTexts(q) ==
  {p.text : p \in q.prior} \cup {s.text : s \in {x \in q.segments : IsReadable(x)}}

IsSpelledOut(q, value) ==
  \E text \in ReadableTexts(q), quote \in Quotes :
    IsSpelledOutIn(text, [value |-> value, quote |-> quote])

IsFounded(q, r) ==
  \A event \in ToSet(r.events) :
    /\ \A v \in {event.amount, event.date, event.reference} \ {None} : IsSpelledOut(q, v)
    /\ q.version = 3 =>
         /\ event.refs \subseteq q.candidates
         /\ \A ref \in event.refs : IsSpelledOut(q, ref)
=============================================================================
