--------------------------- MODULE CommitmentDates ---------------------------
(***************************************************************************)
(* The calendar of EmailClassifier: which day a debtor's words about the   *)
(* time of a payment mean.  A day is a number, 0 a Monday; the first days  *)
(* of the months are a constant.                                           *)
(*                                                                         *)
(* A message q was received on q.today (the tenant's day); its words hold  *)
(* a cue for a day (q.cue, with its weekday), the words "next payment run" *)
(* (q.run), "next week" or "next month" (q.period), another vague time     *)
(* (q.vague) or a written date (q.exact).  The tenant prepares drafts on   *)
(* the weekdays q.windows.                                                 *)
(***************************************************************************)
EXTENDS Integers

CONSTANTS
  NoDay,        \* null
  Horizon,      \* horizon_days
  MonthStarts   \* the first days of the months

\* A message; there are two more months in the calendar.
IsMessage(q) ==
  /\ q.today \in Int
  /\ \E c, d \in MonthStarts : q.today < c /\ c < d

Earliest(days) == CHOOSE d \in days : \A c \in days : d <= c

\* The day before each draft generation that is to come.
ChaseDates(q) ==
  {d - 1 : d \in {c \in (q.today + 1)..(q.today + Horizon) : c % 7 \in q.windows}}

NextWeekday(today, weekday, includeToday) ==
  LET ahead == (weekday - today) % 7
  IN  today + (IF ahead = 0 /\ ~includeToday THEN 7 ELSE ahead)

RelativeDate(q) ==
  CASE q.cue = "today" -> q.today
    [] q.cue = "tomorrow" -> q.today + 1
    [] q.cue = "yesterday" -> q.today - 1
    [] q.cue = "next_weekday" -> NextWeekday(q.today, q.weekday, FALSE)
    [] q.cue = "this_weekday" -> NextWeekday(q.today, q.weekday, TRUE)
    [] OTHER -> NoDay

\* Words about a time, and none that name a day ("yesterday" does not count).
NeedsSchedule(q) ==
  /\ q.run \/ q.vague \/ q.period # "none"
  /\ ~q.exact /\ q.cue \in {"none", "yesterday"}

\* The week after this one, and the month after this one.
NextWeek(today) == LET start == today + 7 - (today % 7) IN <<start, start + 6>>

NextMonth(today) ==
  LET start == Earliest({d \in MonthStarts : d > today})
  IN  <<start, Earliest({d \in MonthStarts : d > start}) - 1>>

EarliestIn(days, period) ==
  LET within == {d \in days : period[1] <= d /\ d <= period[2]}
      after == {d \in days : period[2] < d}
  IN  IF within # {} THEN Earliest(within)
      ELSE IF after # {} THEN Earliest(after)
      ELSE NoDay

\* The payment run a debtor means by "the next payment run".
NextPaymentRun(q) ==
  LET future == {d \in ChaseDates(q) : d >= q.today}
  IN  IF ~q.run \/ future = {} THEN NoDay
      ELSE IF q.period = "week" THEN EarliestIn(future, NextWeek(q.today))
      ELSE IF q.period = "month" THEN EarliestIn(future, NextMonth(q.today))
      ELSE Earliest(future)
=============================================================================
