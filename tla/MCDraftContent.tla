--------------------------- MODULE MCDraftContent ---------------------------
(***************************************************************************)
(* Requests that differ from an ordinary collection request in one respect *)
(* each, or in two that meet in a guardrail; drafts of up to two sentences *)
(* out of one for each thing a guardrail looks for, and a few longer ones  *)
(* that answer the requests which ask for more.                            *)
(***************************************************************************)
EXTENDS DraftContent

\* Invoices: INV-100 and INV-200 are overdue, CN-100 shares the number of the first.
Invoice(id, prefix, digits, due) ==
  [id |-> id, ref |-> [prefix |-> prefix, digits |-> digits], due |-> due, base |-> Absent,
   original |-> Absent, daysOverdue |-> 10, daysPastDue |-> 10, isOverdue |-> "none",
   sendable |-> TRUE, eligible |-> TRUE, disputed |-> FALSE, query |-> "none",
   status |-> "open", po |-> FALSE, pod |-> FALSE, procurement |-> FALSE, dueDate |-> 40]

First == Invoice("o1", "INV", 1000, 30000)
Second == Invoice("o2", "INV", 2000, 50049)
Twin == Invoice("o3", "CN", 1000, 70000)

Ordinary ==
  [schema |-> 4, basis |-> "overdue", obligations |-> {First, Second}, sendableIds |-> {},
   blockedIds |-> {}, skip |-> FALSE, closure |-> FALSE, trigger |-> "none",
   chaseForbidden |-> FALSE,
   lane |-> [refs |-> {First.ref, Second.ref}, outstanding |-> 80049],
   sent |-> {[ref |-> First.ref, date |-> 20], [ref |-> First.ref, date |-> 25]},
   packet |-> {}, hasPacket |-> FALSE, forecast |-> {60}, resolved |-> {},
   credits |-> {}, talked |-> {12345}, noted |-> {}, tone |-> "professional",
   policies |-> {}, contacts |-> {"debtor"}, debtorContact |-> "none",
   lineage |-> TRUE, cc |-> {}, replyAnchor |-> "none",
   sender |-> [name |-> "sam", email |-> "desk"], inbound |-> {}, promises |-> {},
   mode |-> "initial", dispute |-> FALSE, hardship |-> FALSE, brokenPromises |-> 0]

Told(date) == [lane |-> TRUE, promise |-> date]

MCRequests ==
  {Ordinary,
   [Ordinary EXCEPT !.schema = 3],
   [Ordinary EXCEPT !.basis = "none"],
   [Ordinary EXCEPT !.lane = [refs |-> {}, outstanding |-> 0]],
   [Ordinary EXCEPT !.lane.outstanding = 80050],
   [Ordinary EXCEPT !.lane.outstanding = 30000],
   [Ordinary EXCEPT !.obligations = {First, [Second EXCEPT !.disputed = TRUE]},
                    !.lane = [refs |-> {First.ref}, outstanding |-> 30000]],
   [Ordinary EXCEPT !.obligations = {First, [Second EXCEPT !.query = "procurement process"]},
                    !.lane = [refs |-> {First.ref}, outstanding |-> 30000]],
   [Ordinary EXCEPT !.obligations = {First, Second, [Twin EXCEPT !.disputed = TRUE]}],
   [Ordinary EXCEPT !.blockedIds = {"o2"}],
   [Ordinary EXCEPT !.sendableIds = {"o1"}, !.hasPacket = TRUE,
                    !.packet = {[ref |-> First.ref, date |-> 30]}],
   [Ordinary EXCEPT !.obligations = {First, [Second EXCEPT !.status = "paid"]}],
   [Ordinary EXCEPT !.obligations = {[First EXCEPT !.isOverdue = "no"], [Second EXCEPT !.base = 0]}],
   [Ordinary EXCEPT !.obligations = {[First EXCEPT !.po = TRUE], [Second EXCEPT !.eligible = FALSE]}],
   [Ordinary EXCEPT !.obligations = {[First EXCEPT !.sendable = FALSE]}],
   [Ordinary EXCEPT !.resolved = {[prefix |-> "INV", digits |-> 3000]}],
   [Ordinary EXCEPT !.tone = "acknowledgement", !.skip = TRUE, !.mode = "reply_ack",
                    !.inbound = {Told(50)}],
   [Ordinary EXCEPT !.trigger = "PROMISE_TO_PAY", !.inbound = {Told(50)},
                    !.promises = {[date |-> 45, outcome |-> "broken"]}],
   [Ordinary EXCEPT !.mode = "follow_up", !.promises = {[date |-> 50, outcome |-> "pending"]}],
   [Ordinary EXCEPT !.mode = "handoff_reply", !.dispute = TRUE, !.hardship = TRUE,
                    !.brokenPromises = 2, !.inbound = {Told(50)}],
   [Ordinary EXCEPT !.closure = TRUE, !.tone = "acknowledgement", !.obligations = {}],
   [Ordinary EXCEPT !.closure = TRUE, !.chaseForbidden = TRUE],
   [Ordinary EXCEPT !.chaseForbidden = TRUE],
   [Ordinary EXCEPT !.policies = {"legal_escalation", "settlement"}, !.tone = "friendly_reminder"],
   [Ordinary EXCEPT !.policies = Policies],
   [Ordinary EXCEPT !.schema = 3, !.basis = "all",
                    !.obligations = {[First EXCEPT !.isOverdue = "no"]}],
   [Ordinary EXCEPT !.obligations = {[First EXCEPT !.daysOverdue = 0]}],
   [Ordinary EXCEPT !.replyAnchor = "anchor", !.cc = {"copied"}],
   [Ordinary EXCEPT !.lineage = FALSE],
   [Ordinary EXCEPT !.contacts = {}],
   [Ordinary EXCEPT !.contacts = {}, !.debtorContact = "debtor"]}

Mention(form, digits) == [form |-> form, digits |-> digits]
Naming(words, form, digits) == [Plain(words) EXCEPT !.mentions = {Mention(form, digits)}]
Figure(as, value) == [Plain({}) EXCEPT !.figures = {[as |-> as, value |-> value]}]
Dated(words, digits, dates) ==
  [Plain(words) EXCEPT !.dates = dates, !.mentions = {Mention("plain", d) : d \in digits}]

MCSentences ==
  {Plain({w}) : w \in {"pay now", "when payment", "thank", "legal proceedings", "final notice",
                       "outstanding balance", "settle for", "10% discount", "purchase order",
                       "procurement process"}}
    \cup {[Plain({"legal proceedings"}) EXCEPT !.quoted = TRUE]}
    \cup {Naming({}, "invoice", 1000), Naming({"please settle"}, "invoice", 2000),
          Naming({"please settle"}, "hash", 2000), Naming({}, "number", 3000)}
    \cup {Figure("total", 80049), Figure("total", 80050), Figure("total", 30000),
          Figure("owed", 80049), Figure("subtotal", 30000), Figure("amount", 12345),
          Figure("days", 11), Figure("days", 12)}
    \cup {Dated({"contacted"}, {}, {}), Dated({"contacted"}, {1000}, {25}),
          Dated({"contacted"}, {1000, 2000}, {25}), Dated({"are contacting"}, {}, {20}),
          Dated({"today"}, {}, {60}), Dated({"promise"}, {}, {50})}

Body(S) ==
  [NoText EXCEPT !.opening = "Hello", !.signedBy = "sam", !.sentences = S]

Tabled(d) == [d EXCEPT !.placeholders = {"{INVOICE_TABLE}"}]

Polite == {Plain({"thank"}), Dated({"promise"}, {}, {50}), Plain({"help"}), Plain({"dispute"})}

MCTexts ==
  LET bodies == {Body({a, b}) : a, b \in MCSentences} \cup {Body({}), Body(Polite)}
  IN {Tabled(d) : d \in bodies}
       \cup {Courteous(r) : r \in MCRequests}
       \cup {Body({a}) : a \in MCSentences}
       \cup {Body(Polite \cup {a}) : a \in MCSentences \cup {Plain({"thank"})}}
       \cup {Tabled([Body({}) EXCEPT !.opening = "Dear Sir"]),
             Tabled([Body({}) EXCEPT !.signedBy = "alex"]),
             Tabled([Body({}) EXCEPT !.addresses = {"elsewhere"}]),
             Tabled([Body({}) EXCEPT !.addresses = {"desk"}, !.replyTo = "desk"])}
=============================================================================
