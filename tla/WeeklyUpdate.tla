----------------------------- MODULE WeeklyUpdate -----------------------------
(***************************************************************************)
(* WeeklyOverdueReportSummarizer: one sentence about one invoice for the   *)
(* weekly report, from the latest words of the debtor.                     *)
(*                                                                         *)
(* A request q has a sequence of evidence events, each with its id, the    *)
(* kinds of fact its text holds and the numbers in it; the model sees the  *)
(* places in that sequence instead of the ids.  An update of an answer     *)
(* cites a place and has a text: clauses that open with a verb, with       *)
(* numbers, and with how they name a sibling document: not at all, by its  *)
(* literal reference (which is erased) or in another spelling (the clause  *)
(* is dropped).  "clean" is FALSE where the text holds machine terms,      *)
(* addresses, identifiers or talk about the chase itself.                  *)
(***************************************************************************)
EXTENDS Naturals, Sequences, SequencesExt

Kinds == {"commitment_to_pay", "payment_evidence", "payment_timing_claim", "other"}

IsUpdateRequest(q) == Len(q.events) \in Nat /\ DOMAIN q.events = 1..Len(q.events)

\* What a model answers, readable or not: a list of updates with lists of clauses.
IsAnswer(e) ==
  /\ e.readable \in BOOLEAN
  /\ \A i \in DOMAIN e.updates : DOMAIN e.updates[i].text \subseteq Nat

\* The verbs a text may open with, for what the event is taken to be: the
\* first kind that its text mentions.
OpeningsOf(event) ==
  CASE "commitment_to_pay" \in event.kinds -> {"commit", "state"}
    [] "commitment_to_pay" \notin event.kinds /\ "payment_evidence" \in event.kinds ->
         {"pay", "report", "state"}
    [] event.kinds \cap {"commitment_to_pay", "payment_evidence"} = {}
         /\ "payment_timing_claim" \in event.kinds -> {"report", "dispute", "state"}
    [] OTHER -> {"query", "dispute", "state"}

\* An id leads to the last event that has it.
EventWithId(q, id) ==
  LET last == CHOOSE i \in DOMAIN q.events :
                q.events[i].id = id /\ \A j \in DOMAIN q.events : q.events[j].id = id => j <= i
  IN  q.events[last]

CitedEvent(q, u) == EventWithId(q, q.events[u.place].id)

Retained(text) == {i \in DOMAIN text : text[i].sibling # "variant"}

\* The clause that opens what is left of a text.
Opening(text) == text[CHOOSE i \in Retained(text) : \A j \in Retained(text) : i <= j]

ClausesOf(text) == {text[i] : i \in Retained(text)}

NumbersOf(clauses) == UNION {c.numbers : c \in clauses}

\* An update that is not acceptable is passed over, it is no error by itself.
IsAcceptable(event, u) ==
  /\ Retained(u.text) # {}
  /\ u.clean
  /\ Opening(u.text).verb \in OpeningsOf(event)
  /\ NumbersOf(ClausesOf(u.text)) \subseteq event.numbers

\* The second update of a place is passed over, whatever became of the first.
IsFirst(e, i) == \A j \in DOMAIN e.updates : j < i => e.updates[j].place # e.updates[i].place

Accepted(q, e) ==
  {i \in DOMAIN e.updates :
     IsFirst(e, i) /\ IsAcceptable(CitedEvent(q, e.updates[i]), e.updates[i])}

\* A place that was not supplied is an error, and so is any number of
\* acceptable updates but one.
IsValid(q, e) ==
  /\ e.readable
  /\ \A i \in DOMAIN e.updates : e.updates[i].place \in DOMAIN q.events
  /\ \E i \in Accepted(q, e) : Accepted(q, e) = {i}

Response(q, e) ==
  LET u == e.updates[CHOOSE i \in Accepted(q, e) : TRUE]
  IN  [id |-> q.events[u.place].id, opening |-> Opening(u.text).verb,
       clauses |-> ClausesOf(u.text)]

\* What properties say of a response r: some event with the id it names holds
\* all its numbers, a commitment is reported of such an event only if one was
\* made, and a sibling's clause is not in it.
IsFounded(q, r) ==
  /\ \E event \in ToSet(q.events) :
       /\ event.id = r.id
       /\ NumbersOf(r.clauses) \subseteq event.numbers
       /\ r.opening = "commit" => "commitment_to_pay" \in event.kinds
  /\ \A c \in r.clauses : c.sibling # "variant"
=============================================================================
