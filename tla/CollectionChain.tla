---------------------------- MODULE CollectionChain ----------------------------
(***************************************************************************)
(* The four interpreters that place an email in a chain of collection      *)
(* mails: CollectionEmailFactExtractor, CollectionChainIdentifier,         *)
(* CollectionChainRouter and HistoricalCollectionThreadClassifier.  Each   *)
(* asks once; the identifier repairs what it can of an answer, the others  *)
(* refuse it.                                                              *)
(***************************************************************************)
EXTENDS Naturals, Sequences, SequencesExt, FiniteSets

CONSTANT NoChain   \* null

-----------------------------------------------------------------------------
(* CollectionEmailFactExtractor.  An answer has the keys the model used.   *)

FactKeys ==
  {"invoice_assertions", "invoice_refs", "amount_assertions", "date_assertions",
   "confidence", "reason_codes"}   \* and other spellings of these

\* Some fact has to be there, if only an empty one.
AreFactsValid(e) ==
  /\ e.readable
  /\ e.keys \subseteq FactKeys
  /\ e.keys \ {"confidence", "reason_codes"} # {}

\* The first spelling of a key counts.
FactsOf(e) ==
  [invoices |-> IF "invoice_assertions" \in e.keys THEN e.invoices
                ELSE IF "invoice_refs" \in e.keys THEN e.refs
                ELSE {}]

-----------------------------------------------------------------------------
(* CollectionChainIdentifier.  The status comes under two keys, which must *)
(* not disagree; e.statuses are the values that are there, "other" for one *)
(* that is no known word.                                                  *)

Statuses == {"collection", "non_collection", "uncertain"}
Effects == {"new", "confirmed", "reopened", "closed", "no_change"}

StatusOf(e) ==
  IF \E s \in Statuses : e.statuses = {s} THEN CHOOSE s \in Statuses : e.statuses = {s}
  ELSE "uncertain"

\* An unknown effect makes the whole answer uncertain.
Identified(e) ==
  IF e.effect \in Effects THEN [status |-> StatusOf(e), effect |-> e.effect]
  ELSE [status |-> "uncertain", effect |-> "no_change"]

IsIdentification(e) == e.readable /\ ~e.unknownKeys

-----------------------------------------------------------------------------
(* CollectionChainRouter.  A request has invoices and candidate chains; an *)
(* answer is a sequence of routes.                                         *)

InvoiceKeys(routes) == {routes[i].invoice : i \in DOMAIN routes}

AreRoutesValidMutant(q, e) ==
  /\ e.readable
  /\ InvoiceKeys(e.routes) \subseteq q.invoices
  /\ \A route \in ToSet(e.routes) :
       route.action = "continue_existing_chain" => route.chain \in q.chains

\* Exactly one route for every invoice, to a chain that was offered.
AreRoutesValid(q, e) ==
  /\ e.readable
  /\ \A i, j \in DOMAIN e.routes : e.routes[i].invoice = e.routes[j].invoice => i = j
  /\ InvoiceKeys(e.routes) = q.invoices
  /\ \A route \in ToSet(e.routes) :
       IF route.action = "continue_existing_chain" THEN route.chain \in q.chains
       ELSE route.chain = NoChain

-----------------------------------------------------------------------------
(* HistoricalCollectionThreadClassifier.  The tie-break checks that there  *)
(* is a choice, not that it was offered; the relevance of a thread must    *)
(* come without any fact of a message.                                     *)

IsHistoryValid(q, e) ==
  /\ e.readable
  /\ q.mode = "chain_selection_tiebreak" =>
       e.action = "abstain_manual_review" \/ e.chain # NoChain
  /\ q.mode = "thread_collection_relevance" => e.label # "none" /\ ~e.messageFacts

\* What is in the response, beside the fields that pass through.
HistoryOf(q, e) ==
  IF q.mode = "chain_selection_tiebreak" THEN [action |-> e.action, chain |-> e.chain]
  ELSE [action |-> "none", chain |-> NoChain]

-----------------------------------------------------------------------------
(* What properties say of a response.                                      *)

\* Each chased invoice is routed once, to a chain that was offered or to a
\* person.
IsRoutingSafe(q, r) ==
  /\ Len(r.routes) = Cardinality(q.invoices)
  /\ \A i \in q.invoices :
       \E route \in ToSet(r.routes) :
         /\ route.invoice = i
         /\ route.chain \in q.chains <=> route.action = "continue_existing_chain"
=============================================================================
