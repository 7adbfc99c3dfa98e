----------------------------- MODULE InboundReply -----------------------------
(***************************************************************************)
(* EmailClassifier: the intents of a debtor's reply, each with the data    *)
(* extracted for it.  The answer of the model is parsed once; the day of a *)
(* commitment is then decided by the tenant's calendar where the debtor    *)
(* named no day.                                                           *)
(*                                                                         *)
(* A request q is a message of CommitmentDates with q.zone, the timezone   *)
(* of the collection policy.  A detail of an answer holds its intent, an   *)
(* amount, a day, whether it quotes evidence for the day, and whether it   *)
(* is a part payment; "silent" if it carries no data.                      *)
(***************************************************************************)
EXTENDS CommitmentDates, Sequences, SequencesExt

Promise == "PROMISE_TO_PAY"
Disagreement == "AMOUNT_DISAGREEMENT"
Question == "QUERY_QUESTION"

MaterialIntents == {Promise, Disagreement}

\* A timezone that does not exist is meant to fall back to UTC; the warning
\* about it is itself an error.
IsMisconfigured(q) == q.zone = "invalid"

\* What a model answers, readable or not: a detail for each intent, and the
\* data of the primary one once more, flat.
ReplyDetails ==
  [intent : STRING, silent : BOOLEAN, amount : {"none", "some"}, part : BOOLEAN,
   full : BOOLEAN, day : Int \cup {NoDay}, quoted : BOOLEAN]

ReplyAnswers ==
  [readable : BOOLEAN, intent : STRING, details : Seq(ReplyDetails), flat : ReplyDetails]

\* One commitment per detail: a promise has an amount or means the balance,
\* and only a disagreement proposes a part payment, with its amount.
DetailIsWellFormed(d) ==
  /\ d.amount # "none" => ~d.full
  /\ d.part => d.amount # "none"

IsParsed(e) ==
  /\ e.details # <<>> => e.details[1].intent = e.intent
  /\ \A i \in DOMAIN e.details :
       i > 1 /\ e.details[i].intent \in MaterialIntents => ~e.details[i].silent
  /\ \A d \in ToSet(e.details) \cup {e.flat} : DetailIsWellFormed(d)

IsValid(q, e) == e.readable /\ IsParsed(e)

-----------------------------------------------------------------------------
Commits(d) == d.intent = Promise \/ (d.intent = Disagreement /\ d.part)

\* The day the model gives, or else the one the words of the message give.
Asserted(q, d) == IF d.day # NoDay \/ d.intent = Question THEN d.day ELSE RelativeDate(q)

Undated(d) == [d EXCEPT !.day = NoDay]

\* The calendar decides; a day of the model is kept if it is in the calendar.
ScheduledMutant(q, d) ==
  IF NextPaymentRun(q) # NoDay THEN [d EXCEPT !.day = NextPaymentRun(q), !.quoted = TRUE]
  ELSE [d EXCEPT !.day = Asserted(q, d), !.quoted = TRUE]

Scheduled(q, d) ==
  IF NextPaymentRun(q) # NoDay THEN [d EXCEPT !.day = NextPaymentRun(q), !.quoted = TRUE]
  ELSE IF Asserted(q, d) \in ChaseDates(q)
  THEN [d EXCEPT !.day = Asserted(q, d), !.quoted = TRUE]
  ELSE Undated(d)

Extracted(q, d) ==
  IF d.silent THEN d
  ELSE LET dated == IF Commits(d) /\ NeedsSchedule(q) THEN Scheduled(q, d)
                    ELSE [d EXCEPT !.day = Asserted(q, d)]
       IN  [dated EXCEPT !.full = d.intent = Promise /\ d.amount = "none"]

\* Consumers of the flat data see the primary intent's, where it is missing.
Response(q, e) ==
  LET details == [i \in DOMAIN e.details |-> Extracted(q, e.details[i])]
  IN  [intent |-> e.intent,
       details |-> details,
       flat |-> IF e.flat.silent /\ details # <<>> THEN details[1]
                ELSE Extracted(q, [e.flat EXCEPT !.intent = e.intent])]

-----------------------------------------------------------------------------
(* What properties say of a response r to q.                               *)

\* A commitment whose words name no day gets a day of the tenant's calendar,
\* never one that is past, with its evidence, or no day; and "the next payment
\* run" gets the first one on or after the day, the week or the month it speaks
\* of, if there is one.
DayIsConfigured(q, d) ==
  Commits(d) /\ ~d.silent /\ NeedsSchedule(q) /\ d.day # NoDay =>
    /\ d.day \in ChaseDates(q)
    /\ d.day >= q.today
    /\ d.quoted

FirstDayMeant(q) ==
  CASE q.period = "week" -> CHOOSE d \in (q.today + 1)..(q.today + 7) : d % 7 = 0
    [] q.period = "month" -> CHOOSE d \in MonthStarts :
         d > q.today /\ ~\E c \in MonthStarts : q.today < c /\ c < d
    [] OTHER -> q.today

RunIsTheNext(q, d) ==
  Commits(d) /\ ~d.silent /\ NeedsSchedule(q) /\ q.run
    /\ (\E c \in ChaseDates(q) : c >= FirstDayMeant(q)) =>
    /\ d.day # NoDay
    /\ d.day >= FirstDayMeant(q)
    /\ \A c \in ChaseDates(q) : ~(FirstDayMeant(q) <= c /\ c < d.day)

AreCommitmentsScheduled(q, r) ==
  \A d \in ToSet(r.details) \cup {r.flat} : DayIsConfigured(q, d) /\ RunIsTheNext(q, d)
=============================================================================
