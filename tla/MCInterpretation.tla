--------------------------- MODULE MCInterpretation ---------------------------
(***************************************************************************)
(* Instance of Interpretation for TLC: for each service the requests and   *)
(* the answers in which its checks differ.                                 *)
(***************************************************************************)
EXTENDS Interpretation, TLC

CONSTANTS i1, i2, i3, o1, o2, o3, h1, h2, q1, q2, v1, v2, c1, c2, c3

-----------------------------------------------------------------------------
(* ManualNote: one or two selected invoices, a third that was not selected, *)
(* and one or two active queries of them.                                   *)

MCNotes ==
  [service : {"manual_note"},
   purpose : Note!Purposes,
   facts : {i1 :> o1, (i1 :> o1) @@ (i2 :> o2)},
   claims : {{}, {o1}},
   queries : {[h \in {} |-> 0],
              h1 :> [obligation |-> o1, number |-> i1],
              (h1 :> [obligation |-> o1, number |-> i1])
                @@ (h2 :> [obligation |-> o2, number |-> i2])}]

Plain(type, transition, refs) ==
  [type |-> type, transition |-> transition, refs |-> refs, sound |-> TRUE,
   date |-> "none", amount |-> "none", full |-> FALSE, resolves |-> None]

Scopes == {{}, {i1}, {i2}, {i1, i2}, {i3}}

Moves ==
  {<<"query", "raised">>, <<"query", "made">>, <<"remittance", "received">>,
   <<"remittance", "not_received">>, <<"remittance", "verified">>,
   <<"commitment", "made">>, <<"commitment", "kept">>, <<"other", "unclear">>}

\* Each move in each scope, with every figure and quote the note may not support.
MCFigured ==
  {[Plain(m[1], m[2], s) EXCEPT !.date = d, !.amount = a, !.full = f, !.sound = q] :
     m \in Moves, s \in Scopes, d \in Note!Support, a \in Note!Support, f \in BOOLEAN, q \in BOOLEAN}

MCResolutions ==
  {[Plain("query", t, s) EXCEPT !.resolves = h] :
     t \in {"resolved", "raised"}, s \in Scopes, h \in {None, h1, h2}}

\* The assertions that come in pairs.
MCPaired ==
  {Plain("query", "raised", s) : s \in {{i1}, {i2}}}
    \cup {Plain("remittance", "not_received", s) : s \in {{i1}, {i2}, {i1, i2}}}
    \cup {[Plain("commitment", "made", s) EXCEPT !.date = "exact", !.full = TRUE] :
            s \in {{i1}, {i2}}}
    \cup {[Plain("query", "resolved", {i}) EXCEPT !.resolves = h] :
            i \in {i1, i2}, h \in {h1, h2}}

MCExtractions ==
  {[status |-> "malformed", assertions |-> <<>>]}
    \cup [status : {"accepted", "abstained", "invalid"}, assertions : {<<>>}]
    \cup [status : {"accepted"}, assertions : {<<a>> : a \in MCFigured \cup MCResolutions}]
    \cup [status : {"accepted"}, assertions : MCPaired \X MCPaired]
    \cup {[status |-> "abstained", assertions |-> <<Plain("query", "raised", {i1})>>]}

-----------------------------------------------------------------------------
(* CollectionEvent and MailEvidence: a quote for each of two values, in a  *)
(* text no, one or two times.                                              *)

MCSays == (q1 :> {v1}) @@ (q2 :> {v2})

MCFigures == {[value |-> v, quote |-> q] : v \in {v1, None}, q \in {q1, q2, None}}

NoFig == [value |-> None, quote |-> None]

MCEvents ==
  [service : {"event"}, mode : {"known_collection_inbound", "manual_outbound"},
   body : [Quotes -> 0..2]]

MCDetails ==
  [intent : {"PROMISE_TO_PAY", "AMOUNT_DISAGREEMENT"}, silent : {FALSE}, promise : MCFigures,
   claim : {NoFig, [value |-> v2, quote |-> q2]}, date : {NoFig, [value |-> v2, quote |-> None]},
   full : BOOLEAN]
    \cup [intent : {"PROMISE_TO_PAY", "OUTBOUND_COLLECTION_ACTION"}, silent : {TRUE},
          promise : {NoFig}, claim : {NoFig}, date : {NoFig}, full : {FALSE}]

MCEventAnswer ==
  [readable |-> TRUE, lifecycle |-> "active", intent |-> None, secondary |-> <<>>,
   details |-> <<>>, invoices |-> {}, amounts |-> <<>>, dates |-> <<>>]

MCEventAnswers ==
  {[MCEventAnswer EXCEPT !.readable = r, !.lifecycle = l, !.intent = p, !.invoices = s,
                         !.amounts = a] :
     r \in BOOLEAN, l \in {"active", "closed_by_email"},
     p \in {None, "PROMISE_TO_PAY", "OUTBOUND_COLLECTION_ACTION"},
     s \in {{}, {v1}}, a \in {<<>>} \cup {<<f>> : f \in MCFigures}}
    \cup {[MCEventAnswer EXCEPT !.intent = p, !.secondary = s, !.details = <<d>>,
                                !.dates = t] :
            p \in {None, "PROMISE_TO_PAY", "AMOUNT_DISAGREEMENT"},
            s \in {<<>>, <<"PROMISE_TO_PAY">>}, d \in MCDetails,
            t \in {<<>>, <<[value |-> v2, quote |-> q2]>>}}
    \cup {[MCEventAnswer EXCEPT !.intent = "AMOUNT_DISAGREEMENT",
                                !.secondary = <<"PROMISE_TO_PAY">>, !.details = <<d, e>>] :
            d \in {x \in MCDetails : x.intent = "AMOUNT_DISAGREEMENT" /\ ~x.full},
            e \in {x \in MCDetails : x.intent = "PROMISE_TO_PAY" /\ ~x.full}}

Texts == [Quotes -> 0..2]

MCMails ==
  [service : {"mail"}, version : {2, 3}, enabled : BOOLEAN, credential : BOOLEAN,
   segments : {{}} \cup {{[id |-> c1, kind |-> k, state |-> s, text |-> t]} :
                           k \in {"body", "attachment"}, s \in {"complete", "partial"},
                           t \in Texts},
   prior : {{}} \cup {{[id |-> c, text |-> t]} : c \in {c1, c2}, t \in Texts},
   candidates : {{v1}}]

MCSpans ==
  [source : {c1, c2}, quote : {q1, q2},
   supports : {{"relevance"}, {"amount"}, {"invoice_scope", "amount"}}]

MCMailEvents ==
  [spans : {{}} \cup {{s} : s \in MCSpans}, refs : {{}, {v1}, {v1, v2}}, amount : {None, v1, v2},
   currency : {TRUE}, date : {None}, reference : {None}]

MCMailAnswers ==
  [readable : {TRUE}, disposition : {"accepted", "abstained"},
   spans : {{}, {[source |-> c1, quote |-> q1, supports |-> {"relevance"}]}},
   events : {<<>>} \cup {<<m>> : m \in MCMailEvents}]
    \cup [readable : {FALSE}, disposition : {"accepted"}, spans : {{}}, events : {<<>>}]

-----------------------------------------------------------------------------
(* DocumentRequest: two references, named or not, earlier sets of them.    *)

MCPriorSets == {[refs |-> s, complete |-> b] : s \in {{}, {i1}, {i1, i2}}, b \in BOOLEAN}

MCMessages ==
  [service : {"document"}, class : {"debtor_authored"}, automated : {FALSE}, deleted : {FALSE},
   verified : {TRUE}, eligible : {TRUE}, named : {{}, {i1}, {i1, i2}}, deictic : BOOLEAN,
   asks : BOOLEAN, prior : {s \in SUBSET MCPriorSets : Cardinality(s) <= 2}]
    \cup {q \in [service : {"document"},
                  class : {"debtor_authored", "operator_authored", "automated", "deleted"},
                  automated : BOOLEAN, deleted : BOOLEAN, verified : BOOLEAN,
                  eligible : BOOLEAN, named : {{i1}}, deictic : {FALSE}, asks : {TRUE},
                  prior : {{}}] : Document!IsMessage(q)}

Item(type, action, invoices, orders) ==
  [type |-> type, action |-> action, invoices |-> invoices, orders |-> orders,
   quoted |-> TRUE, named |-> TRUE, idle |-> FALSE]

MCItems ==
  {Item(t, a, s, r) : t \in {"original_invoice_pdf", "corrected_invoice", "statement"},
                      a \in {"copy", "reissue"}, s \in {{}, {i1}, {i2}, {i1, i2}},
                      r \in {{}, {i2}}}
    \cup {[Item("statement", "copy", {i1}, {}) EXCEPT !.quoted = a, !.named = b, !.idle = c] :
            a \in BOOLEAN, b \in BOOLEAN, c \in BOOLEAN}

MCPairs ==
  {<<Item("original_invoice_pdf", "copy", {i1}, {}), Item("statement", "copy", s, {})>> :
     s \in {{}, {i1}, {i2}}}

MCDocumentAnswers ==
  [readable : {TRUE}, state : {"active_request", "no_request", "uncertain"}, retracted : BOOLEAN,
   items : {<<>>} \cup {<<m>> : m \in MCItems} \cup MCPairs]
    \cup [readable : {FALSE}, state : {"no_request"}, retracted : {FALSE}, items : {<<>>}]

-----------------------------------------------------------------------------
(* WeeklyUpdate: two events, which may have the same id.                   *)

MCWeeklyEvents ==
  [id : {c1, c2}, kinds : {{"commitment_to_pay"}, {"payment_evidence"}, {"other"}},
   numbers : {{1}, {2}}]

MCWeekly == [service : {"weekly"}, events : {<<a, b>> : a \in MCWeeklyEvents, b \in MCWeeklyEvents}]

MCClauses == [verb : {"commit", "pay", "state"}, numbers : {{1}}, sibling : {"none", "variant"}]

MCUpdates ==
  [place : {1, 2, 3}, clean : {TRUE}, text : {<<c>> : c \in MCClauses}]
    \cup [place : {1}, clean : BOOLEAN, text : {<<c, d>> : c \in MCClauses, d \in MCClauses}]

MCWeeklyAnswers ==
  [readable : BOOLEAN, updates : {<<>>} \cup {<<u>> : u \in MCUpdates}]
    \cup [readable : {TRUE},
          updates : {<<u, w>> : u \in {x \in MCUpdates : Len(x.text) = 1},
                                w \in {x \in MCUpdates : Len(x.text) = 1}}]

-----------------------------------------------------------------------------
(* InboundReply: every weekday, months that begin at day 24 and day 52.    *)

MCMonthStarts == {24, 52, 83}

MCReplies ==
  [service : {"reply"}, zone : {"valid"}, today : 21..27, windows : {{}, {0}, {1, 4}},
   cue : {"none", "yesterday", "today", "next_weekday", "this_weekday"}, weekday : {2},
   run : BOOLEAN, period : {"none", "week", "month"}, vague : BOOLEAN, exact : {FALSE}]
    \cup [service : {"reply"}, zone : {"invalid"}, today : {21}, windows : {{}}, cue : {"none"},
          weekday : {0}, run : {FALSE}, period : {"none"}, vague : {FALSE}, exact : BOOLEAN]

Datum(intent, day) ==
  [intent |-> intent, silent |-> FALSE, amount |-> "none", part |-> FALSE, full |-> FALSE,
   day |-> day, quoted |-> FALSE]

Silent(intent) == [Datum(intent, NoDay) EXCEPT !.silent = TRUE]

MCData ==
  {[Datum(t, d) EXCEPT !.amount = a, !.part = p, !.full = f] :
     t \in {"PROMISE_TO_PAY", "AMOUNT_DISAGREEMENT"}, d \in {NoDay, 20, 25, 30},
     a \in {"none", "some"}, p \in BOOLEAN, f \in {FALSE}}

MCReplyAnswers ==
  [readable : {TRUE}, intent : {"PROMISE_TO_PAY"},
   details : {<<>>} \cup {<<d>> : d \in MCData}
               \cup {<<Silent("PROMISE_TO_PAY"), Silent("AMOUNT_DISAGREEMENT")>>},
   flat : {Silent("PROMISE_TO_PAY"), Datum("PROMISE_TO_PAY", 25)}]
    \cup [readable : BOOLEAN, intent : {"AMOUNT_DISAGREEMENT"},
          details : {<<d, Datum("PROMISE_TO_PAY", 30)>> : d \in MCData},
          flat : {Silent("AMOUNT_DISAGREEMENT")}]

-----------------------------------------------------------------------------
(* CollectionChain: two invoices, two chains and one that was not offered. *)

MCChainRequests ==
  [service : {"facts", "identify"}]
    \cup [service : {"route"}, invoices : {{i1}, {i1, i2}}, chains : {{c1, c2}}]
    \cup [service : {"history"}, mode : {"message_protocol", "chain_selection_tiebreak",
                                         "thread_collection_relevance"}]

MCRoutes ==
  [invoice : {i1, i2, i3}, action : {"continue_existing_chain", "abstain_manual_review"},
   chain : {c1, c3, NoChain}]

MCRouteAnswers ==
  [readable : BOOLEAN, routes : {<<r>> : r \in MCRoutes} \cup (MCRoutes \X MCRoutes)]

MCFactAnswers ==
  [readable : BOOLEAN, keys : SUBSET {"invoice_assertions", "invoice_refs", "confidence", "other"},
   invoices : {{i1}}, refs : {{i2}}]

MCIdentifications ==
  [readable : BOOLEAN, unknownKeys : BOOLEAN,
   statuses : {{}, {"collection"}, {"uncertain"}, {"collection", "non_collection"}, {"other"}},
   effect : {"closed", "no_change", "other"}]

MCHistories ==
  [readable : BOOLEAN, action : {"continue_existing_chain", "abstain_manual_review"},
   chain : {NoChain, c3}, label : {"none", "collection_related"}, messageFacts : BOOLEAN]

-----------------------------------------------------------------------------
(* SentScope: two invoices, one of them spelled in two ways, and an empty  *)
(* number; none, one or two of them asked about, and one twice.            *)

MCSpellings == {"a", "A", "b", " "}
MCNorm == [s \in MCSpellings |-> CASE s \in {"a", "A"} -> "A" [] s = "b" -> "B" [] OTHER -> ""]

Candidate(s, o) == [number |-> s, obligation |-> o]

MCAnalyses ==
  [service : {"sent_scope"},
   candidates : {<<>>, <<Candidate(" ", o1)>>, <<Candidate("a", o1)>>,
                 <<Candidate("a", o1), Candidate("b", o2)>>,
                 <<Candidate("a", o1), Candidate("A", o2)>>,
                 <<Candidate("a", o1), Candidate("b", o2), Candidate("A", o3)>>},
   generated : SUBSET {"A", "b", " "}]

MCDecisions == [number : {"a", "A", "b"}, status : Sent!Statuses, confidence : {60, 90}]

MCDecisionLists ==
  [readable : {TRUE}, decisions : UNION {[1..n -> MCDecisions] : n \in 0..2}]
    \cup [readable : {FALSE}, decisions : {<<>>}]

-----------------------------------------------------------------------------
MCRequests ==
  MCNotes \cup MCEvents \cup MCMails \cup MCMessages \cup MCWeekly \cup MCReplies
    \cup MCChainRequests \cup MCAnalyses

MCAnswers ==
  [s \in Services |->
     CASE s = "manual_note" -> MCExtractions
       [] s = "event" -> MCEventAnswers
       [] s = "document" -> MCDocumentAnswers
       [] s = "weekly" -> MCWeeklyAnswers
       [] s = "mail" -> MCMailAnswers
       [] s = "reply" -> MCReplyAnswers
       [] s = "facts" -> MCFactAnswers
       [] s = "identify" -> MCIdentifications
       [] s = "route" -> MCRouteAnswers
       [] s = "sent_scope" -> MCDecisionLists
       [] OTHER -> MCHistories]
=============================================================================
