------------------------------ MODULE ManualNote ------------------------------
(***************************************************************************)
(* ManualNoteInterpreter: an operator's note about some invoices is turned *)
(* into assertions that move controls (a query, a commitment to pay, a     *)
(* claim of payment).  A model extracts them; this module is the check of  *)
(* what it answers against the request n.                                  *)
(*                                                                         *)
(* Quotes, dates and amounts are abstracted to whether the note supports   *)
(* them: "exact" if it does, "unfounded" if not.                           *)
(***************************************************************************)
EXTENDS Integers, Sequences

CONSTANTS
  Numbers,      \* invoice numbers, normalized
  Obligations,  \* ids of obligations
  Histories,    \* opaque references of queries
  None          \* no such reference

Types == {"query", "commitment", "remittance", "other"}

Purposes == {"query", "commitment", "remittance", "chase", "general", "internal_note"}

TransitionsOf ==
  [query |-> {"raised", "active", "awaiting_response", "updated", "resolved", "reopened",
              "cancelled", "unclear"},
   commitment |-> {"made", "revised", "active", "kept", "partially_kept", "broken",
                   "cancelled", "superseded", "unclear"},
   remittance |-> {"received", "expected", "partially_received", "not_received",
                   "unmatched", "verified", "rejected", "cancelled", "unclear"},
   other |-> {"no_operational_effect", "unclear"}]

Transitions == UNION {TransitionsOf[t] : t \in Types}

Support == {"none", "exact", "unfounded"}

Assertions ==
  [type : Types, transition : Transitions, refs : SUBSET Numbers,
   sound : BOOLEAN,       \* quotes, reference and currency hold; the contract accepts it
   date : Support, amount : Support,
   full : BOOLEAN,        \* full_current_balance
   resolves : Histories \cup {None}]

\* What a model answers: a malformed answer has a status of its own.
Extractions == [status : {"accepted", "abstained", "invalid", "malformed"},
                assertions : Seq(Assertions)]

\* A request: the selected invoices with their obligations, the obligations a
\* payment is claimed for, and the queries that can be released.
IsNote(n) ==
  /\ n.purpose \in Purposes
  /\ DOMAIN n.facts \subseteq Numbers
  /\ \A r \in DOMAIN n.facts : n.facts[r] \in Obligations
  /\ n.claims \subseteq Obligations
  /\ DOMAIN n.queries \subseteq Histories

-----------------------------------------------------------------------------
(* Validation of one assertion a.                                          *)

Families(purpose) ==
  CASE purpose = "chase" -> {"query"}
    [] purpose \in {"general", "internal_note"} -> Types
    [] OTHER -> {purpose}

\* A date without support is dropped, where it is optional.
DateIsOptional(a) == a.type \in {"query", "remittance"}

Cleaned(a) ==
  IF a.date = "unfounded" /\ DateIsOptional(a) THEN [a EXCEPT !.date = "none"] ELSE a

IsGrounded(a) ==
  /\ a.sound
  /\ a.date = "unfounded" => DateIsOptional(a)
  /\ a.amount # "unfounded"

IsInFamily(n, a) ==
  /\ a.type \in Families(n.purpose)
  /\ a.transition \in TransitionsOf[a.type]
  /\ ~(a.type = "remittance" /\ a.transition = "verified")

IsInScope(n, a) ==
  /\ a.refs \subseteq DOMAIN n.facts
  /\ a.type # "other" => a.refs # {}
  /\ \A r, s \in a.refs : r # s => a.amount = "none"

\* A commitment that is open says when, and how much.
IsComplete(a) ==
  a.type = "commitment" /\ a.transition \in {"made", "revised", "active"} =>
    /\ a.date # "none"
    /\ a.amount # "none" \/ a.full

IsResolution(a) == a.type = "query" /\ a.transition = "resolved"

Resolves(n, a, r) ==
  /\ a.refs = {r}
  /\ a.resolves \in DOMAIN n.queries
  /\ n.queries[a.resolves] = [obligation |-> n.facts[r], number |-> r]

\* Faulty variants (a name ending in Mutant) are not part of the model: each is
\* a bug the next definition could have, which a property must tell apart.
ResolvesItsQueryMutant(n, a) ==
  /\ IsResolution(a) => a.resolves \in DOMAIN n.queries
  /\ ~IsResolution(a) => a.resolves = None

ResolvesItsQuery(n, a) ==
  /\ IsResolution(a) => \E r \in DOMAIN n.facts : Resolves(n, a, r)
  /\ ~IsResolution(a) => a.resolves = None

\* A chase note releases queries and does nothing else.
SuitsAChase(n, a) == n.purpose = "chase" => IsResolution(a)

\* Only a claim that is there can be cleared.
ClearsAClaim(n, a) ==
  a.type = "remittance" /\ a.transition \in {"not_received", "rejected", "cancelled"} =>
    \A r \in a.refs : n.facts[r] \in n.claims

IsValidAssertion(n, a) ==
  /\ IsInFamily(n, a)
  /\ IsGrounded(a)
  /\ IsInScope(n, a)
  /\ IsComplete(a)
  /\ ResolvesItsQuery(n, a)
  /\ SuitsAChase(n, a)
  /\ ClearsAClaim(n, a)

-----------------------------------------------------------------------------
(* Validation of an answer e.                                              *)

SameControl(a, b) == a.type = b.type /\ a.transition = b.transition /\ a.refs = b.refs

IsRedundant(as) == \E i, j \in DOMAIN as : i < j /\ SameControl(as[i], as[j])

Covered(as) == UNION {as[i].refs : i \in DOMAIN as}

\* A purpose that acts on the selection acts on all of it.
CoversSelection(n, as) ==
  n.purpose \in {"query", "commitment", "remittance"} /\ as # <<>> =>
    Covered(as) = DOMAIN n.facts

IsValid(n, e) ==
  /\ e.status # "malformed"
  /\ \A i \in DOMAIN e.assertions : IsValidAssertion(n, e.assertions[i])
  /\ ~IsRedundant(e.assertions)
  /\ CoversSelection(n, e.assertions)
  /\ e.status = "accepted" <=> e.assertions # <<>>

\* A chase note without a query to release is not worth a call.
IsPointless(n) == n.purpose = "chase" /\ DOMAIN n.queries = {}

Abstained == [status |-> "abstained", assertions |-> <<>>]

Response(e) ==
  [status |-> e.status,
   assertions |-> [i \in DOMAIN e.assertions |-> Cleaned(e.assertions[i])]]

-----------------------------------------------------------------------------
(* What properties say of a response r to n.                               *)

Asserted(r) == {r.assertions[i] : i \in DOMAIN r.assertions}

\* A purpose acts on all of its invoices and on nothing else; a query is
\* released only by its own reference, on its own invoice, and once; a chase
\* note does nothing but release queries; and no payment is taken back that was
\* never claimed.
MovesOnlySelected(n, r) ==
  /\ Covered(r.assertions) \subseteq DOMAIN n.facts
  /\ n.purpose \in Types =>
       /\ Covered(r.assertions) = DOMAIN n.facts
       /\ \A a \in Asserted(r) : a.type = n.purpose
  /\ n.purpose = "chase" => \A a \in Asserted(r) : IsResolution(a)
  /\ \A h \in Histories :
       LET releases == {i \in DOMAIN r.assertions : r.assertions[i].resolves = h}
       IN  \A i, j \in releases :
             /\ i = j
             /\ IsResolution(r.assertions[i])
             /\ r.assertions[i].refs = {n.queries[h].number}
  /\ \A a \in Asserted(r) :
       a.type = "remittance" /\ a.transition \in {"not_received", "rejected", "cancelled"} =>
         {n.facts[i] : i \in a.refs} \subseteq n.claims

\* No figure that the note does not support, an open commitment says when and
\* how much, and no amount is spread over invoices.
IsFounded(r) ==
  \A a \in Asserted(r) :
    /\ a.date # "unfounded" /\ a.amount # "unfounded"
    /\ a.type = "commitment" /\ a.transition \in {"made", "revised", "active"} =>
         a.date = "exact" /\ (a.amount = "exact" \/ a.full)
    /\ a.amount = "exact" => \A i, j \in a.refs : i = j
=============================================================================
