--------------------------- MODULE CollectionScope ---------------------------
(***************************************************************************)
(* What a collection e-mail may be about, and the guardrails that hold its *)
(* prose to it: the selection of the invoices to chase                     *)
(* (src/engine/generator.py, generator_prompts.py) and the guardrails      *)
(* numerical, lane_scope and factual_grounding (src/guardrails/).          *)
(*                                                                         *)
(* A request is a record of the facts the code reads of a                  *)
(* GenerateDraftRequest.  An invoice number is a prefix and a number       *)
(* ("INV-100" is ["INV", 100], a bare "100" is ["", 100]); amounts are in  *)
(* pennies, dates are day numbers.                                         *)
(*                                                                         *)
(* A draft is a set of sentences, the segments the code splits it into,    *)
(* each a record of what the code's patterns find in it:                   *)
(*   words     phrases, one for each combination of phrase lists           *)
(*   mentions  invoice numbers, each with the spelling that tells which    *)
(*             patterns see it: "invoice" (INV-100, Invoice 100), "number" *)
(*             (invoice number: ABC-100), "hash" (#1000) or "plain"        *)
(*   figures   sums of money ("total", "owed", "subtotal" or plain         *)
(*             "amount") and counts of days ("days")                       *)
(*   dates     full dates; dueDates those that follow "due on"             *)
(***************************************************************************)
EXTENDS Integers, FiniteSetsExt

Absent == -9999    \* None, where the code has a number or a date

BlockingStatuses ==
  {"promised", "remittance_pending", "payment_plan", "disputed", "paid", "closed",
   "credited", "written_off"}

CurrentContract(r) == r.schema = 4

----------------------------------------------------------------------------
(* The invoices to chase.  o.sendable and o.eligible say that the flag is  *)
(* not False, o.status is the collection status, or the state when that is *)
(* the one that blocks.                                                    *)

HasSourceDispute(o) == o.disputed \/ o.query # "none"

DaysOverdue(o) == IF o.daysOverdue # Absent THEN o.daysOverdue ELSE o.daysPastDue

IsOverdue(o) == IF o.isOverdue # "none" THEN o.isOverdue = "yes" ELSE DaysOverdue(o) > 0

\* The part of the selection that factual_grounding repeats for amounts.
UpstreamAllows(o, r) ==
  /\ r.sendableIds # {} => o.id \in r.sendableIds
  /\ o.id \notin r.blockedIds
  /\ o.sendable
  /\ o.eligible
  /\ CurrentContract(r) => o.due > 0 /\ o.status \notin BlockingStatuses

Basis(r) == IF r.basis = "none" THEN "overdue" ELSE r.basis

Candidates(r) ==
  {o \in r.obligations :
     /\ UpstreamAllows(o, r)
     /\ ~HasSourceDispute(o)
     /\ CurrentContract(r) /\ Basis(r) = "overdue" => IsOverdue(o)}

\* A mutant asks for the days where the flag is not set, and finds none.
PassesValidationMutant(o, r) ==
  /\ o.id \notin r.blockedIds
  /\ ~HasSourceDispute(o)
  /\ Basis(r) = "overdue" => o.isOverdue = "yes"

\* The API admits a request on a copy of the selection, without the statuses and
\* with the basis under either contract.
PassesValidation(o, r) ==
  /\ r.sendableIds # {} => o.id \in r.sendableIds
  /\ o.id \notin r.blockedIds
  /\ ~HasSourceDispute(o)
  /\ CurrentContract(r) => o.due > 0
  /\ o.sendable
  /\ o.eligible
  /\ Basis(r) = "overdue" => IsOverdue(o)

\* A contact of the debtor has an address.
HasValidRecipient(r) == r.debtorContact # "none" \/ r.contacts # {}

\* r.lineage says that the runs, the snapshots, the policy and the candidate that
\* the context comes from are all named.
IsValid(r) ==
  CurrentContract(r) =>
    /\ r.lineage
    /\ HasValidRecipient(r)
    /\ ~r.closure /\ ~r.skip => \E o \in r.obligations : PassesValidation(o, r)

Owed(o) == IF o.base # Absent THEN o.base ELSE o.due

\* The latest day on which an invoice is known to have been sent: a row of the
\* fact packet, or a later one of the history of sent e-mails.
ProvenOutreach(o, r) ==
  LET sent == {h.date : h \in {x \in r.sent : x.ref = o.ref}}
      packet == {h.date : h \in {x \in r.packet : x.ref = o.ref}}
  IN IF sent \cup packet = {} THEN Absent ELSE Max(sent \cup packet)

----------------------------------------------------------------------------
(* numerical_consistency                                                   *)

Figures(d, kinds) ==
  UNION {{f.value : f \in {x \in s.figures : x.as \in kinds}} : s \in d.sentences}

ScopedObligations(r) == IF Candidates(r) = {} THEN r.obligations ELSE Candidates(r)

ScopedTotal(r) == MapThenSumSet(Owed, ScopedObligations(r))

TotalsMatch(d, r) ==
  \A stated \in Figures(d, {"total", "owed"}) : stated - ScopedTotal(r) \in -1..1

DaysMatch(d, r) ==
  LET days == {DaysOverdue(o) : o \in ScopedObligations(r)}
  IN \A n \in Figures(d, {"days"}) :
       n > 0 => \E v \in (IF days = {} THEN {0} ELSE days) : n - v \in -1..1

NumericalConsistency(d, r) == ~r.closure => TotalsMatch(d, r) /\ DaysMatch(d, r)

----------------------------------------------------------------------------
(* lane_scope: the patterns capture the digits alone, so that invoices are *)
(* told apart by their number and not by their prefix.                     *)

Spelled(d, forms) ==
  UNION {{m.digits : m \in {x \in s.mentions : x.form \in forms}} : s \in d.sentences}

InvoiceDigits(S) == {o.ref.digits : o \in S}

\* The digits of the refs the prompt was assembled for, or else of the lane's.
LaneDigits(r) ==
  IF Candidates(r) # {} THEN InvoiceDigits(Candidates(r))
  ELSE {ref.digits : ref \in r.lane.refs}

Withheld(r) ==
  {o \in r.obligations :
     o.id \in r.blockedIds \/ HasSourceDispute(o) \/ ~o.sendable \/ ~o.eligible}

\* Mutants: the totals are left to the other guardrail; the withheld invoices are
\* left to the scope.
LaneScopeTotalsMutant(d, r) ==
  \/ LaneDigits(r) = {}
  \/ Spelled(d, {"invoice"}) \subseteq LaneDigits(r) \ InvoiceDigits(Withheld(r))
LaneScopeWithheldMutant(d, r) ==
  \/ LaneDigits(r) = {}
  \/ /\ Spelled(d, {"invoice"}) \subseteq LaneDigits(r)
     /\ Figures(d, {"total", "subtotal"}) \subseteq {r.lane.outstanding}

\* A draft is not checked when neither the candidates nor the lane name an
\* invoice; a lane without the amount counts as one with nothing outstanding.
LaneScope(d, r) ==
  \/ LaneDigits(r) = {}
  \/ /\ Spelled(d, {"invoice"}) \subseteq LaneDigits(r) \ InvoiceDigits(Withheld(r))
     /\ Figures(d, {"total", "subtotal"}) \subseteq {r.lane.outstanding}

----------------------------------------------------------------------------
(* factual_grounding                                                       *)

ChaseWords ==
  {"pay now", "make payment", "please settle", "settle for", "critically overdue",
   "outstanding balance", "when payment"}
OutreachWords == {"contacted", "are contacting"}

Chases(s) == s.words \cap ChaseWords # {}

\* A sentence mentions an invoice when its digits stand in it on their own.
MentionsRef(s, ref) == \E m \in s.mentions : m.digits = ref.digits

InvoicesExist(d, r) ==
  Spelled(d, {"invoice", "number", "hash"}) \subseteq InvoiceDigits(r.obligations)

DemandObligations(r) ==
  IF CurrentContract(r) THEN {o \in r.obligations : UpstreamAllows(o, r)} ELSE r.obligations

Rounded(p) ==   \* to whole pounds, a half to the even one
  LET pounds == p \div 100
      rest == p % 100
  IN 100 * (IF rest > 50 \/ (rest = 50 /\ pounds % 2 = 1) THEN pounds + 1 ELSE pounds)

\* r.credits are the amounts of the credit positions and adjustments, r.talked
\* those of the conversation, r.noted those of an operator's own notes.
GroundedAmounts(r) ==
  LET S == DemandObligations(r)
      exact ==
        (({o.due : o \in S} \cup {o.base : o \in S} \cup {o.original : o \in S}) \ {Absent})
        \cup r.credits
        \cup {MapThenSumSet(LAMBDA o : o.due, S)}
        \cup {MapThenSumSet(LAMBDA o : o.original, {o \in S : o.original # Absent})}
  IN exact \cup {Rounded(a) : a \in exact}
           \cup (IF r.skip THEN r.talked ELSE {}) \cup r.noted

AmountTolerance == 500

AmountsGrounded(d, r) ==
  \A a \in Figures(d, {"total", "owed", "subtotal", "amount"}) :
    \E v \in GroundedAmounts(r) : a - v \in -AmountTolerance..AmountTolerance

DisputesNotChased(d, r) ==
  \A o \in r.obligations, s \in d.sentences :
    HasSourceDispute(o) /\ MentionsRef(s, o.ref) => ~Chases(s)

ProcurementGrounded(d, r) ==
  LET says(w) == \E s \in d.sentences : w \in s.words
      hasPO == \E o \in r.obligations : o.po
      hasPOD == \E o \in r.obligations : o.pod
      process == \E o \in r.obligations : o.query = "procurement process"
      linked == \E o \in r.obligations : o.query # "none" \/ o.procurement
  IN /\ says("purchase order") => hasPO
     /\ says("delivery note") => hasPOD
     /\ says("procurement process") => process
     /\ says("approval workflow") \/ says("procurement process") => hasPO \/ hasPOD \/ linked

\* A sentence about earlier contact carries the proven dates of the invoices it
\* names, and no more than those; one about today's contact carries no date.
OutreachGrounded(s, r) ==
  LET outreach == s.words \cap OutreachWords # {}
      current == "are contacting" \in s.words
      named == {o \in Candidates(r) : MentionsRef(s, o.ref)}
      about == IF named = {} THEN Candidates(r) ELSE named
      proven == {ProvenOutreach(o, r) : o \in about}
  IN (outreach \/ "today" \in s.words) =>
       /\ s.dates \cap r.forecast = {}
       /\ current => s.dates = {}
       /\ outreach /\ ~current =>
            /\ ~r.hasPacket
            /\ s.dates # {}
            /\ named # {} \/ Cardinality(Candidates(r)) <= 1
            /\ Absent \notin proven
            /\ s.dates = proven

\* r.resolved are the invoices that sent history shows as paid or closed.
ResolvedNotMentioned(d, r) ==
  \A s \in d.sentences, ref \in r.resolved : ~MentionsRef(s, ref)

\* The checks that fail, by the word that marks their message.
UngroundedFacts(d, r) ==
  IF r.closure THEN {}
  ELSE {f \in {"invoice", "amount", "source-disputed", "unverified procurement",
               "prior outreach", "paid/closed"} :
          CASE f = "invoice" -> ~InvoicesExist(d, r)
            [] f = "amount" -> ~AmountsGrounded(d, r)
            [] f = "source-disputed" -> ~DisputesNotChased(d, r)
            [] f = "unverified procurement" -> ~ProcurementGrounded(d, r)
            [] f = "prior outreach" -> ~(\A s \in d.sentences : OutreachGrounded(s, r))
            [] f = "paid/closed" -> ~ResolvedNotMentioned(d, r)}
=============================================================================
