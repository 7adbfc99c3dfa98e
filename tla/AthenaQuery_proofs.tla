------------------------- MODULE AthenaQuery_proofs -------------------------
(* Theorems about AthenaQuery, for every timeout, interval and result.     *)
EXTENDS AthenaQuery, TLAPS

\* The rows collected are those served without the header.
RowsAreServed ==
  /\ served <= total + 1
  /\ Len(rows) = IF served = 0 THEN 0 ELSE served - 1
  /\ \A i \in 1..Len(rows) : rows[i] = i

\* An answer that the query has ended stays true, and the result is only
\* collected after such an answer.
AnswerIsFinal ==
  /\ reported \in Ended => query = reported
  /\ phase \in {"fetching", "returned"} => reported = "SUCCEEDED"
  /\ phase = "returned" => served = total + 1

\* Before the query is started nothing was answered.
NoAnswerYet == phase = "called" => reported = "none"

\* Each poll but the first comes a whole interval after the one before it, and
\* a sleep begins before the deadline only.
PollsAreSpaced ==
  /\ phase = "called" => polls = 0
  /\ phase = "polling" =>
       /\ polls * PollInterval <= elapsed
       /\ polls * PollInterval <= Timeout + PollInterval - 1
  /\ phase = "deciding" =>
       /\ polls * PollInterval <= elapsed + PollInterval
       /\ polls * PollInterval <= Timeout + 2 * PollInterval - 1
  /\ phase = "sleeping" =>
       /\ polls * PollInterval + slept <= elapsed + PollInterval
       /\ polls * PollInterval <= Timeout + PollInterval - 1
       /\ slept <= elapsed

IInv ==
  /\ TypeOK
  /\ RowsAreServed
  /\ AnswerIsFinal
  /\ NoAnswerYet
  /\ PollsAreSpaced
  /\ PollsAreBounded
  /\ RejectedBeforeAthena

LEMMA InitIsSound == Init => IInv
<1> SUFFICES ASSUME Init PROVE IInv
  OBVIOUS
<1> USE ConstantsAssumption DEF Init, Ended
<1>1. TypeOK
  <2>1. rows \in Seq(0..MaxRows)
    OBVIOUS
  <2>2. elapsed \in 0..Cap /\ slept \in 0..Cap /\ served \in 0..(MaxRows + 1) /\ polls \in Nat
    OBVIOUS
  <2>3. query = "none" /\ reported = "none" /\ reason = "none" /\ phase = "called"
        /\ token = FALSE /\ unresolved \in BOOLEAN /\ total \in 0..MaxRows
    OBVIOUS
  <2> HIDE DEF Init, Ended
  <2> QED  BY <2>1, <2>2, <2>3 DEF TypeOK
<1>2. RowsAreServed
  BY DEF RowsAreServed
<1>3. AnswerIsFinal /\ NoAnswerYet /\ RejectedBeforeAthena
  BY DEF AnswerIsFinal, NoAnswerYet, RejectedBeforeAthena
<1>4. PollsAreSpaced /\ PollsAreBounded
  <2>1. polls * PollInterval = 0
    OBVIOUS
  <2>2. PollsAreSpaced
    BY DEF PollsAreSpaced
  <2>3. PollsAreBounded
    BY <2>1 DEF PollsAreBounded
  <2> QED  BY <2>2, <2>3
<1> QED  BY <1>1, <1>2, <1>3, <1>4 DEF IInv

\* A step that leaves the clock and the polls alone, or is not between two
\* polls, does not disturb their spacing.
LEMMA ReaderKeeps ==
  ASSUME IInv, Start \/ Reject \/ CallFails \/ Decide \/ Wake
  PROVE  IInv'
<1> USE ConstantsAssumption DEF IInv, Raise, clock, asked, pages
<1>1. UNCHANGED <<unresolved, total, elapsed, reported, polls, served, token, rows>>
  BY DEF Start, Reject, CallFails, Decide, Wake
<1>2. TypeOK'
  <2>1. CASE Start
    BY <2>1 DEF TypeOK, Start
  <2>2. CASE Reject \/ CallFails
    BY <2>2 DEF TypeOK, Reject, CallFails
  <2>3. CASE Decide
    BY <1>1, <2>3 DEF TypeOK, Decide
  <2>4. CASE Wake
    BY <2>4 DEF TypeOK, Wake
  <2> QED  BY <2>1, <2>2, <2>3, <2>4
<1>3. RowsAreServed'
  BY <1>1 DEF RowsAreServed
<1>4. AnswerIsFinal'
  <2>1. CASE Start
    <3>1. reported = "none"
      BY <2>1 DEF Start, NoAnswerYet
    <3> QED  BY <1>1, <2>1, <3>1 DEF AnswerIsFinal, Start, Ended
  <2>2. CASE Reject \/ CallFails
    BY <1>1, <2>2 DEF AnswerIsFinal, Reject, CallFails
  <2>3. CASE Decide
    <3>1. query' = query /\ phase = "deciding" /\ phase' # "returned"
      BY <2>3 DEF Decide
    <3>2. phase' = "fetching" => reported = "SUCCEEDED"
      BY <2>3, <3>1 DEF Decide, Ended
    <3> QED  BY <1>1, <3>1, <3>2 DEF AnswerIsFinal
  <2>4. CASE Wake
    BY <1>1, <2>4 DEF AnswerIsFinal, Wake
  <2> QED  BY <2>1, <2>2, <2>3, <2>4
<1>5. PollsAreSpaced'
  BY <1>1 DEF PollsAreSpaced, TypeOK, Start, Reject, CallFails, Decide, Wake
<1>6. PollsAreBounded'
  BY <1>1 DEF PollsAreBounded
<1>7. RejectedBeforeAthena'
  BY <1>1 DEF RejectedBeforeAthena, Start, Reject, CallFails, Decide, Wake
<1>8. NoAnswerYet'
  BY DEF NoAnswerYet, Start, Reject, CallFails, Decide, Wake
<1> QED  BY <1>2, <1>3, <1>4, <1>5, <1>6, <1>7, <1>8

LEMMA PollKeeps ==
  ASSUME IInv, Poll
  PROVE  IInv'
<1> USE ConstantsAssumption DEF IInv, Poll, clock, pages
<1>1. (polls + 1) * PollInterval = polls * PollInterval + PollInterval
  BY DEF TypeOK
<1>2. TypeOK'
  BY DEF TypeOK
<1>3. RowsAreServed'
  BY DEF RowsAreServed
<1>4. AnswerIsFinal' /\ NoAnswerYet' /\ RejectedBeforeAthena'
  BY DEF AnswerIsFinal, NoAnswerYet, RejectedBeforeAthena
<1>5. polls' * PollInterval = polls * PollInterval + PollInterval
  BY <1>1
<1>6. polls * PollInterval \in Int
  BY DEF TypeOK
<1>7. PollsAreSpaced' /\ PollsAreBounded'
  BY <1>5, <1>6 DEF PollsAreSpaced, PollsAreBounded, TypeOK
<1> QED  BY <1>2, <1>3, <1>4, <1>7

\* Athena runs the query; a query that has ended does not change any more.
LEMMA AthenaKeeps ==
  ASSUME IInv, Run \/ \E s \in Ended : End(s)
  PROVE  IInv'
<1> USE DEF IInv, asked, clock, pages
<1>1. /\ UNCHANGED <<unresolved, total, phase, elapsed, slept, reported, polls, served, token,
                     rows, reason>>
      /\ query \in {"QUEUED", "RUNNING"}
      /\ query' \in {"RUNNING"} \cup Ended
  BY DEF Run, End
<1>2. TypeOK'
  BY <1>1 DEF TypeOK
<1>3. RowsAreServed'
  BY <1>1 DEF RowsAreServed
<1>4. AnswerIsFinal' /\ NoAnswerYet' /\ RejectedBeforeAthena'
  BY <1>1 DEF AnswerIsFinal, NoAnswerYet, RejectedBeforeAthena, Ended
<1>5. PollsAreSpaced' /\ PollsAreBounded'
  BY <1>1 DEF PollsAreSpaced, PollsAreBounded
<1> QED  BY <1>2, <1>3, <1>4, <1>5

LEMMA TickKeeps ==
  ASSUME IInv, Tick
  PROVE  IInv'
<1> USE ConstantsAssumption DEF IInv, Tick, asked, pages
<1>1. polls * PollInterval \in Int
  BY DEF TypeOK
<1>2. TypeOK'
  BY DEF TypeOK, PollsAreSpaced
<1>3. RowsAreServed'
  BY DEF RowsAreServed
<1>4. AnswerIsFinal' /\ NoAnswerYet' /\ RejectedBeforeAthena'
  BY DEF AnswerIsFinal, NoAnswerYet, RejectedBeforeAthena, TypeOK
<1>5. PollsAreSpaced' /\ PollsAreBounded'
  BY <1>1 DEF PollsAreSpaced, PollsAreBounded, TypeOK
<1> QED  BY <1>2, <1>3, <1>4, <1>5

\* What is kept of a page, and where its rows come in the result.
LEMMA KeptIs ==
  ASSUME TypeOK, NEW n \in 1..(total + 1 - served)
  PROVE  /\ Kept(n) \in Seq(0..MaxRows)
         /\ Len(Kept(n)) = IF served = 0 THEN n - 1 ELSE n
         /\ \A i \in 1..Len(Kept(n)) :
              Kept(n)[i] = IF served = 0 THEN i ELSE served + i - 1
<1> USE ConstantsAssumption DEF TypeOK
<1>1. Page(n) \in Seq(0..MaxRows) /\ Len(Page(n)) = n
  <2>1. \A i \in 1..n : served + i - 1 \in 0..MaxRows
    OBVIOUS
  <2> QED  BY <2>1 DEF Page
<1>2. CASE served = 0
  <2>1. /\ Tail(Page(n)) \in Seq(0..MaxRows)
        /\ Len(Tail(Page(n))) = n - 1
        /\ \A i \in 1..(n - 1) : Tail(Page(n))[i] = Page(n)[i + 1]
    BY <1>1
  <2>2. \A i \in 1..(n - 1) : Page(n)[i + 1] = i
    BY <1>2 DEF Page
  <2> QED  BY <1>2, <2>1, <2>2 DEF Kept
<1>3. CASE served # 0
  BY <1>1, <1>3 DEF Kept, Page
<1> QED  BY <1>2, <1>3

LEMMA FetchKeeps ==
  ASSUME IInv, (\E n \in 1..(MaxRows + 1) : Fetch(n)) \/ FetchEmpty
  PROVE  IInv'
<1> USE ConstantsAssumption DEF IInv, asked, clock
<1>1. CASE FetchEmpty
  <2> USE <1>1 DEF FetchEmpty
  <2>1. TypeOK'
    BY DEF TypeOK
  <2>2. RowsAreServed'
    BY DEF RowsAreServed
  <2>3. AnswerIsFinal' /\ NoAnswerYet' /\ RejectedBeforeAthena'
    BY DEF AnswerIsFinal, NoAnswerYet, RejectedBeforeAthena
  <2>4. PollsAreSpaced' /\ PollsAreBounded'
    BY DEF PollsAreSpaced, PollsAreBounded
  <2> QED  BY <2>1, <2>2, <2>3, <2>4
<1>2. ASSUME NEW n \in 1..(MaxRows + 1), Fetch(n)
      PROVE  IInv'
  <2>1. /\ n \in 1..(total + 1 - served)
        /\ phase = "fetching"
        /\ rows' = rows \o Kept(n)
        /\ served' = served + n
        /\ token' \in BOOLEAN
        /\ phase' = IF token' THEN "fetching" ELSE "returned"
        /\ ~token' => served + n = total + 1
        /\ UNCHANGED <<unresolved, total, query, elapsed, slept, reported, polls, reason>>
    BY <1>2 DEF Fetch, More, PageIsLast
  <2> DEFINE k == Kept(n)
  <2>2. /\ k \in Seq(0..MaxRows)
        /\ Len(k) = IF served = 0 THEN n - 1 ELSE n
        /\ \A i \in 1..Len(k) : k[i] = IF served = 0 THEN i ELSE served + i - 1
    BY <2>1, KeptIs
  <2> HIDE DEF k
  <2>3. rows' = rows \o k
    BY <2>1 DEF k
  <2> DEFINE r == rows
  <2>4. /\ rows' \in Seq(0..MaxRows)
        /\ Len(rows') = Len(rows) + Len(k)
        /\ \A i \in 1..Len(rows') :
             rows'[i] = IF i <= Len(rows) THEN rows[i] ELSE k[i - Len(rows)]
    <3>1. r \in Seq(0..MaxRows) /\ rows' = r \o k
      BY <2>3 DEF TypeOK
    <3> HIDE DEF r, IInv
    <3>2. /\ r \o k \in Seq(0..MaxRows)
          /\ Len(r \o k) = Len(r) + Len(k)
          /\ \A i \in 1..(Len(r) + Len(k)) :
               (r \o k)[i] = IF i <= Len(r) THEN r[i] ELSE k[i - Len(r)]
      BY <2>2, <3>1
    <3> QED  BY <3>1, <3>2 DEF r
  <2>5. TypeOK'
    BY <2>1, <2>4 DEF TypeOK
  <2>6. RowsAreServed'
    <3>1. served' <= total' + 1
      BY <2>1 DEF TypeOK
    <3>2. Len(rows') = served' - 1 /\ served' # 0
      BY <2>1, <2>2, <2>4 DEF TypeOK, RowsAreServed
    <3>3. \A i \in 1..Len(rows') : rows'[i] = i
      <4> SUFFICES ASSUME NEW i \in 1..Len(rows') PROVE rows'[i] = i
        OBVIOUS
      <4>1. CASE i <= Len(rows)
        BY <2>4, <4>1 DEF TypeOK, RowsAreServed
      <4>2. CASE i > Len(rows)
        <5>1. Len(rows) \in Nat /\ Len(k) \in Nat
          BY <2>2 DEF TypeOK
        <5>2. i - Len(rows) \in 1..Len(k)
          BY <2>4, <4>2, <5>1
        <5>3. rows'[i] = k[i - Len(rows)]
          BY <2>4, <4>2, <5>1
        <5>4. k[i - Len(rows)] = IF served = 0 THEN i - Len(rows) ELSE served + (i - Len(rows)) - 1
          BY <2>2, <5>2
        <5>5. Len(rows) = IF served = 0 THEN 0 ELSE served - 1
          BY DEF RowsAreServed
        <5>6. served \in Nat /\ i \in Nat
          BY DEF TypeOK
        <5> QED  BY <5>1, <5>3, <5>4, <5>5, <5>6
      <4> QED  BY <4>1, <4>2, <2>4 DEF TypeOK
    <3> QED  BY <3>1, <3>2, <3>3 DEF RowsAreServed
  <2>7. AnswerIsFinal' /\ NoAnswerYet' /\ RejectedBeforeAthena'
    BY <2>1 DEF AnswerIsFinal, NoAnswerYet, RejectedBeforeAthena
  <2>8. PollsAreSpaced' /\ PollsAreBounded'
    BY <2>1 DEF PollsAreSpaced, PollsAreBounded
  <2> QED  BY <2>5, <2>6, <2>7, <2>8
<1> QED  BY <1>1, <1>2

LEMMA StutterKeeps ==
  ASSUME IInv, UNCHANGED vars
  PROVE  IInv'
<1> USE DEF vars, asked, clock, pages, IInv
<1>1. TypeOK' /\ RowsAreServed'
  BY DEF TypeOK, RowsAreServed
<1>2. AnswerIsFinal' /\ NoAnswerYet' /\ RejectedBeforeAthena'
  BY DEF AnswerIsFinal, NoAnswerYet, RejectedBeforeAthena
<1>3. PollsAreSpaced' /\ PollsAreBounded'
  BY DEF PollsAreSpaced, PollsAreBounded
<1> QED  BY <1>1, <1>2, <1>3

\* The inductive invariant of a query, for every pace of Athena.
THEOREM Invariance == Spec => []IInv
<1>1. Init => IInv
  BY InitIsSound
<1>2. IInv /\ [Next]_vars => IInv'
  BY ReaderKeeps, PollKeeps, AthenaKeeps, TickKeeps, FetchKeeps, StutterKeeps
     DEF Next, Reader, Environment
<1> QED  BY <1>1, <1>2, PTL DEF Spec

\* The variables of a query keep their types (_wait_for_query, _fetch_rows).
THEOREM TypeCorrect == Spec => []TypeOK
<1>1. IInv => TypeOK
  BY DEF IInv
<1> QED  BY <1>1, Invariance, PTL

\* However a result is paged, execute() returns all of it, in order and
\* without the header, and only of a query that succeeded (_fetch_rows).
THEOREM RowsAreAlwaysTheResult == Spec => []RowsAreTheResult
<1>1. IInv => RowsAreTheResult
  <2> SUFFICES ASSUME IInv, phase = "returned"
               PROVE  query = "SUCCEEDED" /\ rows = [i \in 1..total |-> i]
    BY DEF RowsAreTheResult
  <2>1. query = "SUCCEEDED"
    BY DEF IInv, AnswerIsFinal, Ended
  <2>2. Len(rows) = total /\ \A i \in 1..total : rows[i] = i
    BY ConstantsAssumption DEF IInv, TypeOK, AnswerIsFinal, RowsAreServed
  <2>3. rows = [i \in 1..Len(rows) |-> rows[i]]
    BY DEF IInv, TypeOK
  <2> QED  BY <2>1, <2>2, <2>3
<1> QED  BY <1>1, Invariance, PTL

\* The number of calls to get_query_execution is bounded by the timeout and the
\* interval, whatever the query does (_wait_for_query).
THEOREM PollsAreAlwaysBounded == Spec => []PollsAreBounded
<1>1. IInv => PollsAreBounded
  BY DEF IInv
<1> QED  BY <1>1, Invariance, PTL

\* SQL with an unresolved virtual relation is never started in compact_only
\* mode (execute).
THEOREM AlwaysRejectedBeforeAthena == Spec => []RejectedBeforeAthena
<1>1. IInv => RejectedBeforeAthena
  BY DEF IInv
<1> QED  BY <1>1, Invariance, PTL
=============================================================================
