----------------------------- MODULE AthenaQuery -----------------------------
(***************************************************************************)
(* RegionalLakeReader.execute: start a query, ask for its state until it   *)
(* has ended or the time is up, then collect the pages of its result.  One *)
(* read of ManifestRun is one execution of this.                           *)
(*                                                                         *)
(* Athena runs at its own pace and cuts the result into pages as it likes. *)
(* A row is its position in the table; the first row that Athena delivers  *)
(* is the header, written 0.                                               *)
(***************************************************************************)
EXTENDS Integers, Sequences

CONSTANTS
  Timeout,       \* timeout_seconds
  PollInterval,  \* poll_interval_seconds
  MaxRows,       \* bound: rows of a result
  Cap            \* bound: where the clock saturates

ASSUME ConstantsAssumption ==
  /\ Timeout \in Nat
  /\ PollInterval \in Nat \ {0}
  /\ MaxRows \in Nat
  /\ Cap \in Nat
  /\ Timeout + PollInterval < Cap

VARIABLES
  unresolved,  \* compact_only, and the SQL names a virtual _current relation
  total,       \* rows of the result
  phase,       \* where execute() is
  query,       \* the state of the query at Athena, "none" before it is started
  elapsed,     \* time since the deadline was set
  slept,       \* time since the last poll, while sleeping
  reported,    \* the state in the last answer of get_query_execution
  polls,       \* history: calls of get_query_execution
  served,      \* rows of the stream Athena has delivered, the header included
  token,       \* the last page had a NextToken
  rows,        \* the rows collected
  reason       \* why execute() raised

asked == <<reported, polls>>
clock == <<elapsed, slept>>
pages == <<served, token, rows>>
vars == <<unresolved, total, phase, query, clock, asked, pages, reason>>

Ended == {"SUCCEEDED", "FAILED", "CANCELLED"}

TypeOK ==
  /\ unresolved \in BOOLEAN
  /\ total \in 0..MaxRows
  /\ phase \in {"called", "polling", "deciding", "sleeping", "fetching", "returned",
               "raised"}
  /\ query \in {"none", "QUEUED", "RUNNING"} \cup Ended
  /\ reported \in {"none", "QUEUED", "RUNNING"} \cup Ended
  /\ elapsed \in 0..Cap
  /\ slept \in 0..Cap
  /\ polls \in Nat
  /\ served \in 0..(MaxRows + 1)
  /\ token \in BOOLEAN
  /\ rows \in Seq(0..MaxRows)
  /\ reason \in {"none", "rejected", "failed", "timeout", "error"}

Init ==
  /\ unresolved \in BOOLEAN
  /\ total \in 0..MaxRows
  /\ phase = "called"
  /\ query = "none"
  /\ elapsed = 0
  /\ slept = 0
  /\ reported = "none"
  /\ polls = 0
  /\ served = 0
  /\ token = FALSE
  /\ rows = <<>>
  /\ reason = "none"

-----------------------------------------------------------------------------
Raise(why) == phase' = "raised" /\ reason' = why

Start ==
  /\ phase = "called"
  /\ ~unresolved
  /\ query' = "QUEUED"
  /\ phase' = "polling"
  /\ UNCHANGED <<unresolved, total, clock, asked, pages, reason>>

Reject ==
  /\ phase = "called"
  /\ unresolved
  /\ Raise("rejected")
  /\ UNCHANGED <<unresolved, total, query, clock, asked, pages>>

\* A call to Athena may raise instead of answering, whichever it is.
CallFails ==
  /\ \/ phase = "called" /\ ~unresolved
     \/ phase \in {"polling", "fetching"}
  /\ Raise("error")
  /\ UNCHANGED <<unresolved, total, query, clock, asked, pages>>

\* Athena.
Run ==
  /\ query = "QUEUED"
  /\ query' = "RUNNING"
  /\ UNCHANGED <<unresolved, total, phase, clock, asked, pages, reason>>

End(s) ==
  /\ query \in {"QUEUED", "RUNNING"}
  /\ query' = s
  /\ UNCHANGED <<unresolved, total, phase, clock, asked, pages, reason>>

\* Time passes while execute() waits for its query.
Tick ==
  /\ phase \in {"polling", "deciding", "sleeping"}
  /\ elapsed < Cap
  /\ elapsed' = elapsed + 1
  /\ slept' = IF phase = "sleeping" THEN slept + 1 ELSE slept
  /\ UNCHANGED <<unresolved, total, phase, query, asked, pages, reason>>

\* get_query_execution answers with the state of the query.
Poll ==
  /\ phase = "polling"
  /\ reported' = query
  /\ polls' = polls + 1
  /\ phase' = "deciding"
  /\ UNCHANGED <<unresolved, total, query, clock, pages, reason>>

\* Faulty variants (a name ending in Mutant) are not part of the model: each is
\* a bug the next definition could have, which a property must tell apart.
DecideRearmsMutant ==
  /\ phase = "deciding"
  /\ \/ reported = "SUCCEEDED" /\ phase' = "fetching" /\ UNCHANGED <<elapsed, reason>>
     \/ reported \in {"FAILED", "CANCELLED"} /\ Raise("failed") /\ UNCHANGED elapsed
     \/ reported \notin Ended /\ elapsed >= Timeout /\ Raise("timeout") /\ UNCHANGED elapsed
     \/ /\ reported \notin Ended
        /\ elapsed < Timeout
        /\ phase' = "sleeping"
        /\ elapsed' = 0
        /\ UNCHANGED reason
  /\ slept' = 0
  /\ UNCHANGED <<unresolved, total, query, asked, pages>>

\* The rest of a turn of the loop of _wait_for_query: the deadline only counts
\* for a query that had not ended when it was asked.
Decide ==
  /\ phase = "deciding"
  /\ \/ reported = "SUCCEEDED" /\ phase' = "fetching" /\ UNCHANGED reason
     \/ reported \in {"FAILED", "CANCELLED"} /\ Raise("failed")
     \/ reported \notin Ended /\ elapsed >= Timeout /\ Raise("timeout")
     \/ reported \notin Ended /\ elapsed < Timeout /\ phase' = "sleeping" /\ UNCHANGED reason
  /\ slept' = 0
  /\ UNCHANGED <<unresolved, total, query, elapsed, asked, pages>>

WakeForgetsMutant ==
  /\ phase = "sleeping"
  /\ elapsed < Timeout
  /\ slept >= PollInterval
  /\ phase' = "polling"
  /\ UNCHANGED <<unresolved, total, query, clock, asked, pages, reason>>

Wake ==
  /\ phase = "sleeping"
  /\ slept >= PollInterval
  /\ phase' = "polling"
  /\ UNCHANGED <<unresolved, total, query, clock, asked, pages, reason>>

-----------------------------------------------------------------------------
(* Collecting the result.                                                  *)

\* The n rows that Athena delivers next.
Page(n) == [i \in 1..n |-> served + i - 1]

PageIsLast(n) == served + n = total + 1

KeptHeaderMutant(n) == Page(n)

\* The first page begins with the header.
Kept(n) == IF served = 0 THEN Tail(Page(n)) ELSE Page(n)

\* There is a NextToken unless the page is the last; Athena may also announce
\* one more page that turns out empty.
More(n) == IF PageIsLast(n) THEN {TRUE, FALSE} ELSE {TRUE}

Fetch(n) ==
  /\ phase = "fetching"
  /\ n \in 1..(total + 1 - served)
  /\ rows' = rows \o Kept(n)
  /\ served' = served + n
  /\ token' \in More(n)
  /\ phase' = IF token' THEN "fetching" ELSE "returned"
  /\ UNCHANGED <<unresolved, total, query, clock, asked, reason>>

FetchEmpty ==
  /\ phase = "fetching"
  /\ token
  /\ served = total + 1
  /\ token' = FALSE
  /\ phase' = "returned"
  /\ UNCHANGED <<unresolved, total, query, clock, asked, served, rows, reason>>

Reader ==
  \/ Start \/ Reject \/ Poll \/ Decide \/ Wake \/ FetchEmpty
  \/ \E n \in 1..(MaxRows + 1) : Fetch(n)

Environment == CallFails \/ Run \/ \E s \in Ended : End(s)

Next == Reader \/ Tick \/ Environment

Spec == Init /\ [][Next]_vars

\* time.sleep returns and every call to Athena does, with an answer or an
\* error; the query itself need never end.
FairSpec == Spec /\ WF_vars(Reader) /\ WF_vars(Tick)

-----------------------------------------------------------------------------
(* Properties.                                                             *)

\* What execute() returns is the whole result of a query that succeeded:
\* every row once, in order, without the header, however it was paged.
RowsAreTheResult ==
  phase = "returned" =>
    /\ query = "SUCCEEDED"
    /\ rows = [i \in 1..total |-> i]

\* Athena is asked at most once per interval, and at most once after the
\* deadline: however long the query runs, and however late a call answers, the
\* number of calls of one wait is bounded (_wait_for_query).
PollsAreBounded == polls * PollInterval <= Timeout + 2 * PollInterval - 1

\* compact_only: SQL that names a virtual _current relation never reaches
\* Athena.
RejectedBeforeAthena == unresolved => query = "none"

\* execute() returns or raises even if the query never ends.
ExecuteEnds == <>(phase \in {"returned", "raised"})
=============================================================================
