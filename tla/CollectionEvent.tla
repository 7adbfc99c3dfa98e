--------------------------- MODULE CollectionEvent ---------------------------
(***************************************************************************)
(* CollectionEmailEventClassifier: what one email of a collection chain    *)
(* says.  An answer of the model is parsed, its figures are grounded in    *)
(* the body of the message, and one about an email of our own must not     *)
(* hold a debtor's statement.                                              *)
(*                                                                         *)
(* A request q has a mode and a body.  An answer e has a lifecycle, a      *)
(* primary intent (or None), secondary intents, one detail per intent, and *)
(* the ledgers of invoices, amounts and dates.  A detail is "silent" if it *)
(* carries no extracted data; its disputed and claimed amounts are one     *)
(* figure, its dates another.                                              *)
(***************************************************************************)
EXTENDS MessageEvidence, Sequences, SequencesExt

Promise == "PROMISE_TO_PAY"

OutboundIntents ==
  {"OUTBOUND_COLLECTION_ACTION", "OUTBOUND_ESCALATION_ACTION",
   "OUTBOUND_PROMISE_ACKNOWLEDGEMENT"}

OutboundLifecycles == {"active", "awaiting_debtor_response", "not_applicable", "uncertain"}

\* A detail without data says nothing.
Details ==
  {d \in [intent : STRING, silent : BOOLEAN, promise : Figures, claim : Figures,
          date : Figures, full : BOOLEAN] :
     d.silent => {d.promise, d.claim, d.date} = {NoFigure} /\ ~d.full}

\* What a model answers, readable or not.
EventAnswers ==
  [readable : BOOLEAN, lifecycle : STRING, intent : STRING \cup {None},
   secondary : Seq(STRING), details : Seq(Details), invoices : SUBSET Values,
   amounts : Seq(Figures), dates : Seq(Figures)]

\* The schema of extracted data: an amount, or the whole balance.
DetailIsWellFormed(d) == d.promise.value = None \/ ~d.full

\* The details follow the intents, the primary one first.
IsParsed(e) ==
  /\ e.readable
  /\ e.details # <<>> =>
       /\ e.intent # None
       /\ [i \in DOMAIN e.details |-> e.details[i].intent] = <<e.intent>> \o e.secondary
  /\ \A d \in ToSet(e.details) : DetailIsWellFormed(d)

\* A figure without a quote is an abstention, one with a wrong quote an error.
IsRefuted(body, f) == f.value # None /\ f.quote # None /\ ~Proves(body, f)

Kept(f) == IF f.value # None /\ f.quote = None THEN NoFigure ELSE f

\* A part payment that an amount disagreement proposes is not looked at.
GroundedOf(d) == {d.promise, d.claim, d.date}

IsGrounded(body, e) ==
  /\ \A f \in ToSet(e.amounts) \cup ToSet(e.dates) : ~IsRefuted(body, f)
  /\ \A d \in ToSet(e.details) : \A f \in GroundedOf(d) : ~IsRefuted(body, f)

\* The whole balance is promised where the answer names no amount.
GroundedDetail(d) ==
  IF d.silent THEN d
  ELSE [d EXCEPT !.promise = Kept(d.promise), !.claim = Kept(d.claim),
                 !.date = Kept(d.date),
                 !.full = d.intent = Promise /\ d.promise.value = None]

Grounded(e) ==
  [e EXCEPT !.details = [i \in DOMAIN e.details |-> GroundedDetail(e.details[i])],
            !.amounts = [i \in DOMAIN e.amounts |-> Kept(e.amounts[i])],
            !.dates = [i \in DOMAIN e.dates |-> Kept(e.dates[i])]]

\* Our own email records one label, and no fact.
IsOutbound(e) ==
  /\ e.lifecycle \in OutboundLifecycles
  /\ e.intent \in OutboundIntents \cup {None}
  /\ e.secondary = <<>> /\ e.details = <<>>
  /\ e.invoices = {} /\ e.amounts = <<>> /\ e.dates = <<>>

IsValid(q, e) ==
  /\ IsParsed(e)
  /\ IsGrounded(q.body, e)
  /\ q.mode = "manual_outbound" => IsOutbound(e)

\* The amounts an answer names for a promise with a quote that refutes them.
RefutedPromises(q, e) ==
  {d.promise.value :
     d \in {x \in ToSet(e.details) : x.intent = Promise /\ IsRefuted(q.body, x.promise)}}

-----------------------------------------------------------------------------
(* What properties say of a response r to q.                               *)

\* Every figure that leaves the classifier, the proposed part payment apart.
FiguresOf(r) ==
  {f \in ToSet(r.amounts) \cup ToSet(r.dates)
           \cup UNION {GroundedOf(d) : d \in ToSet(r.details)} : f.value # None}

IsFounded(q, r) ==
  /\ \A f \in FiguresOf(r) : IsSpelledOutIn(q.body, f)
  /\ q.mode = "manual_outbound" => FiguresOf(r) = {} /\ r.invoices = {}
  /\ \A d \in ToSet(r.details) : d.full => d.intent = Promise /\ d.promise.value = None

WidenedPromises(r) == {d \in ToSet(r.details) : d.intent = Promise /\ d.full}
=============================================================================
