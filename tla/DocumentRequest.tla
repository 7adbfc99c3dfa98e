--------------------------- MODULE DocumentRequest ---------------------------
(***************************************************************************)
(* DocumentRequestInterpreter: which documents an inbound email asks for,  *)
(* and of which invoices and orders.                                       *)
(*                                                                         *)
(* A request q is the current message (its class and flags, the references *)
(* its subject and body name, whether its words point backwards and        *)
(* whether they ask for anything) with the reference sets of the earlier   *)
(* messages.  An item of an answer has a document type, an action, invoice *)
(* and order references; "quoted" says that its evidence is verbatim,      *)
(* "named" that the evidence names that type of document, and "idle" that  *)
(* it speaks of prompts, secrets or mere information.                      *)
(***************************************************************************)
EXTENDS Sequences, SequencesExt

CONSTANT Numbers   \* references of invoices and orders

\* What a model answers, readable or not; a retraction is one of its fields.
DocumentItems ==
  [type : STRING, action : STRING, invoices : SUBSET Numbers, orders : SUBSET Numbers,
   quoted : BOOLEAN, named : BOOLEAN, idle : BOOLEAN]

DocumentAnswers ==
  [readable : BOOLEAN, state : {"active_request", "no_request", "uncertain"},
   retracted : BOOLEAN, items : Seq(DocumentItems)]

\* What a message of the API may be: one that is not available is refused
\* there, so that the classes of a request are these.
IsMessage(q) ==
  /\ q.class \in {"debtor_authored", "operator_authored", "automated", "deleted"}
  /\ q.class = "automated" => q.automated
  /\ q.class = "deleted" => q.deleted

\* Why the model is not asked; null where it is.
AdmissionReason(q) ==
  CASE q.automated -> "automated_response"
    [] ~q.automated /\ q.deleted -> "deleted_message"
    [] ~q.automated /\ ~q.deleted /\ ~(q.verified /\ q.class = "debtor_authored") ->
         "unverified_debtor"
    [] ~q.automated /\ ~q.deleted /\ q.verified /\ q.class = "debtor_authored"
         /\ ~q.eligible -> "ineligible_debtor_context"
    [] OTHER -> "none"

Nothing == [state |-> "no_request", items |-> <<>>, scope |-> "none",
            disposition |-> "no_request", invoices |-> {}, orders |-> {}]

-----------------------------------------------------------------------------
Refs(item) == item.invoices \cup item.orders

\* The sets that earlier messages hold completely: a backward reference is
\* understood where there is one.
CompleteSets(q) == {p.refs : p \in {x \in q.prior : x.complete /\ x.refs # {}}}

SourceMutant(q, item) ==
  IF Refs(item) # {} /\ Refs(item) \subseteq q.named THEN "current_message"
  ELSE IF Refs(item) # {} /\ q.deictic /\ \E s \in CompleteSets(q) : Refs(item) = s
  THEN "causal_context"
  ELSE "unresolved"

Source(q, item) ==
  IF Refs(item) # {} /\ Refs(item) \subseteq q.named THEN "current_message"
  ELSE IF Refs(item) # {} /\ q.deictic /\ CompleteSets(q) = {Refs(item)}
  THEN "causal_context"
  ELSE "unresolved"

\* References that are not resolved are cleared, the item is kept.
Resolved(q, item) ==
  IF Source(q, item) = "unresolved" THEN [item EXCEPT !.invoices = {}, !.orders = {}]
  ELSE item

\* A retraction clears what the answer asks for, whatever its state.
ActiveItems(e) == IF e.retracted THEN <<>> ELSE e.items

StateOf(e) == IF e.retracted THEN "no_request" ELSE e.state

Items(q, e) == [i \in DOMAIN ActiveItems(e) |-> Resolved(q, ActiveItems(e)[i])]

-----------------------------------------------------------------------------
IsItem(item) ==
  /\ item.quoted
  /\ item.named /\ ~item.idle
  /\ item.invoices \cap item.orders = {}
  /\ item.action \in {"correct", "reissue"} => item.type \in {"corrected_invoice", "other"}
  /\ item.type = "corrected_invoice" => item.action # "copy"

IsCandidate(e) ==
  /\ e.readable
  /\ StateOf(e) = "no_request" => ActiveItems(e) = <<>>
  /\ StateOf(e) = "active_request" => ActiveItems(e) # <<>>
  /\ \A item \in ToSet(ActiveItems(e)) : IsItem(item)

\* The words are looked at before a retraction is; and the response refuses
\* an uncertain request whose items still have references.
IsValid(q, e) ==
  /\ e.items # <<>> => q.asks
  /\ IsCandidate(e)
  /\ StateOf(e) = "uncertain" => \A item \in ToSet(Items(q, e)) : Refs(item) = {}

-----------------------------------------------------------------------------
InvoicesOf(items) == UNION {item.invoices : item \in ToSet(items)}

OrdersOf(items) == UNION {item.orders : item \in ToSet(items)}

Scope(items) ==
  LET invoices == InvoicesOf(items)
  IN  IF invoices # {} /\ \A item \in ToSet(items) : item.invoices # {} THEN "exact"
      ELSE IF invoices # {} THEN "partial"
      ELSE IF OrdersOf(items) # {} THEN "reference_exact_invoice_unresolved"
      ELSE IF \A item \in ToSet(items) : item.type = "statement" THEN "account_wide"
      ELSE "ambiguous"

Disposition(items) ==
  LET types == {item.type : item \in ToSet(items)}
  IN  IF \E s, t \in types : s # t THEN "mixed_document_request"
      ELSE IF types = {"original_invoice_pdf"} THEN "invoice_pdf_request"
      ELSE IF types = {"corrected_invoice"} THEN "corrected_invoice_request"
      ELSE "other_document_request"

Response(q, e) ==
  LET items == Items(q, e)
  IN  CASE StateOf(e) = "no_request" -> Nothing
        [] StateOf(e) = "uncertain" ->
             [Nothing EXCEPT !.state = "uncertain", !.items = items,
                             !.disposition = "uncertain"]
        [] OTHER ->
             [state |-> "active_request", items |-> items, scope |-> Scope(items),
              disposition |-> Disposition(items),
              invoices |-> InvoicesOf(items), orders |-> OrdersOf(items)]
=============================================================================
