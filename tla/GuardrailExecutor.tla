-------------------------- MODULE GuardrailExecutor --------------------------
(***************************************************************************)
(* GuardrailPipeline.validate (src/guardrails/pipeline.py, executor.py).   *)
(* In parallel mode the calling thread submits one job per guardrail to a  *)
(* pool of Workers threads, which all calls of the process share, and then *)
(* collects the answers as the jobs end, in any order.  In sequential mode *)
(* it runs the guardrails itself, and with fail_fast it returns at the     *)
(* first CRITICAL failure.                                                 *)
(*                                                                         *)
(* validate() is called without await from the event loop, so the process  *)
(* never has two calls in progress; the model has one caller.              *)
(***************************************************************************)
EXTENDS GuardrailResults

CONSTANTS
  AnswersOf,   \* the answers each guardrail can give
  Order,       \* self.guardrails, after __init__ has sorted it
  Workers      \* max_workers of _guardrail_executor

\* The sort of __init__: stable, the most severe first.
SortedBySeverity(list) ==
  LET With(s) == SelectSeq(list, LAMBDA g : Severity[g] = s)
  IN  With("CRITICAL") \o With("HIGH") \o With("MEDIUM") \o With("LOW") \o With("REVIEW")

ASSUME AnswersAssumption == AnswersOf \in [Guardrails -> SUBSET Answers]

ASSUME OrderAssumption ==
  /\ Order \in Seq(Guardrails)
  /\ \A g \in Guardrails : \E i \in DOMAIN Order : Order[i] = g
  /\ \A i, j \in DOMAIN Order : Order[i] = Order[j] => i = j

ASSUME WorkersAssumption == Workers \in Nat \ {0}

VARIABLES
  mode,         \* "idle", or how the current call runs
  thorough,     \* parallel, or sequential with fail_fast=False
  answer,       \* what each guardrail has to say of the draft of this call
  job,          \* parallel: where the future of each guardrail is
  next,         \* the guardrails before this position were submitted or run
  results,      \* all_results
  blocking,     \* blocking_guardrails
  shouldBlock,  \* should_block
  findings,     \* review_findings: who made each
  verdict       \* the GuardrailPipelineResult of the last call, once it has returned

accumulators == <<results, blocking, shouldBlock, findings>>
vars == <<mode, thorough, answer, job, next, accumulators, verdict>>

Modes == {"parallel", "sequential"}
JobStates == {"new", "queued", "running", "done", "collected"}

Verdicts ==
  [all_passed : BOOLEAN, should_block : BOOLEAN, retry_suggested : BOOLEAN,
   blocking : Seq(Guardrails), results : Seq(Results), findings : Seq(Guardrails)]

NoVerdict ==
  [all_passed |-> FALSE, should_block |-> FALSE, retry_suggested |-> FALSE,
   blocking |-> <<>>, results |-> <<>>, findings |-> <<>>]

TypeOK ==
  /\ mode \in Modes \cup {"idle"}
  /\ thorough \in BOOLEAN
  /\ answer \in [Guardrails -> Answers]
  /\ job \in [Guardrails -> JobStates]
  /\ next \in 1..(Len(Order) + 1)
  /\ results \in Seq(Results)
  /\ blocking \in Seq(Guardrails)
  /\ shouldBlock \in BOOLEAN
  /\ findings \in Seq(Guardrails)
  /\ verdict \in Verdicts

NoAnswer == [raised |-> FALSE, checks |-> <<>>]

Init ==
  /\ mode = "idle"
  /\ thorough = TRUE
  /\ answer = [g \in Guardrails |-> NoAnswer]
  /\ job = [g \in Guardrails |-> "new"]
  /\ next = 1
  /\ results = <<>>
  /\ blocking = <<>>
  /\ shouldBlock = FALSE
  /\ findings = <<>>
  /\ verdict = NoVerdict

-----------------------------------------------------------------------------
(* A call                                                                  *)

\* The name g once for every position in S.
Times(S, g) == [i \in 1..Cardinality(S) |-> g]

\* validate() is entered.
Call(m, t) ==
  /\ mode = "idle"
  /\ m = "parallel" => t
  /\ mode' = m
  /\ thorough' = t
  /\ answer' \in {f \in [Guardrails -> UNION Range(AnswersOf)] :
                    \A g \in Guardrails : f[g] \in AnswersOf[g]}
  /\ job' = [g \in Guardrails |-> "new"]
  /\ next' = 1
  /\ results' = <<>>
  /\ blocking' = <<>>
  /\ shouldBlock' = FALSE
  /\ findings' = <<>>
  /\ verdict' = NoVerdict

\* The GuardrailPipelineResult that is returned once the loop has ended.
Return ==
  /\ mode' = "idle"
  /\ verdict' = [all_passed      |-> AllPassed(results),
                 should_block    |-> shouldBlock,
                 retry_suggested |-> shouldBlock /\ Len(blocking) <= 2,
                 blocking        |-> blocking,
                 results         |-> results,
                 findings        |-> findings]
  /\ UNCHANGED <<thorough, answer, job, next, accumulators>>

-----------------------------------------------------------------------------
(* validate_parallel                                                       *)

\* The calling thread submits the next guardrail.
Submit ==
  /\ mode = "parallel"
  /\ next <= Len(Order)
  /\ job' = [job EXCEPT ![Order[next]] = "queued"]
  /\ next' = next + 1
  /\ UNCHANGED <<mode, thorough, answer, accumulators, verdict>>

Running == {g \in Guardrails : job[g] = "running"}

\* An idle worker takes the job at the head of the queue of the pool.
Take(g) ==
  /\ mode = "parallel"
  /\ job[g] = "queued"
  /\ \A i, j \in DOMAIN Order : Order[j] = g /\ i < j => job[Order[i]] # "queued"
  /\ Cardinality(Running) < Workers
  /\ job' = [job EXCEPT ![g] = "running"]
  /\ UNCHANGED <<mode, thorough, answer, next, accumulators, verdict>>

\* Faulty variants (a name ending in Mutant) are not part of the model: each is
\* a bug the next definition could have, which a property must tell apart.
CompleteRetriesMutant(g) ==
  /\ mode = "parallel"
  /\ job[g] = "running"
  /\ job' = [job EXCEPT ![g] = IF answer[g].raised THEN "queued" ELSE "done"]
  /\ UNCHANGED <<mode, thorough, answer, next, accumulators, verdict>>

\* _run_single_guardrail returns, with checks or with the exception.
Complete(g) ==
  /\ mode = "parallel"
  /\ job[g] = "running"
  /\ job' = [job EXCEPT ![g] = "done"]
  /\ UNCHANGED <<mode, thorough, answer, next, accumulators, verdict>>

CollectOverwritesBlockMutant(g) ==
  LET new == ResultsOf(g, answer[g])
  IN  /\ mode = "parallel"
      /\ next > Len(Order)
      /\ job[g] = "done"
      /\ job' = [job EXCEPT ![g] = "collected"]
      /\ results' = results \o new
      /\ shouldBlock' = AnyBlocks(new)
      /\ blocking' = IF AnyBlocks(new) THEN Append(blocking, g) ELSE blocking
      /\ findings' = findings \o Times(ForReview(new), g)
      /\ UNCHANGED <<mode, thorough, answer, next, verdict>>

\* One iteration of the as_completed loop, on any future that has ended.
Collect(g) ==
  LET new == ResultsOf(g, answer[g])
  IN  /\ mode = "parallel"
      /\ next > Len(Order)
      /\ job[g] = "done"
      /\ job' = [job EXCEPT ![g] = "collected"]
      /\ results' = results \o new
      /\ IF AnyBlocks(new)
           THEN shouldBlock' = TRUE /\ blocking' = Append(blocking, g)
           ELSE UNCHANGED <<shouldBlock, blocking>>
      /\ findings' = findings \o Times(ForReview(new), g)
      /\ UNCHANGED <<mode, thorough, answer, next, verdict>>

ReturnParallel ==
  /\ mode = "parallel"
  /\ next > Len(Order)
  /\ \A g \in Guardrails : job[g] = "collected"
  /\ Return

-----------------------------------------------------------------------------
(* validate_sequential                                                     *)

\* fail_fast ends the call at this answer: its first blocking check is CRITICAL.
StopsAt(new) ==
  /\ ~thorough
  /\ \E i \in DOMAIN new : Blocks(new[i]) /\ new[i].severity = "CRITICAL"

\* One iteration of the loop that does not end the call.  A guardrail is named
\* once for every check of it that blocks.
RunNext ==
  LET g == Order[next]
      new == ResultsOf(g, answer[g])
  IN  /\ mode = "sequential"
      /\ next <= Len(Order)
      /\ ~StopsAt(new)
      /\ next' = next + 1
      /\ results' = results \o new
      /\ shouldBlock' = (shouldBlock \/ AnyBlocks(new))
      /\ blocking' = blocking \o Times(Objections(new), g)
      /\ findings' = findings \o Times(ForReview(new), g)
      /\ UNCHANGED <<mode, thorough, answer, job, verdict>>

\* The iteration that ends a fail-fast call.  The guardrails that follow are not
\* run, and no finding of this one is kept: its first one already blocks.
RunNextAndStop ==
  LET g == Order[next]
      new == ResultsOf(g, answer[g])
  IN  /\ mode = "sequential"
      /\ next <= Len(Order)
      /\ StopsAt(new)
      /\ mode' = "idle"
      /\ next' = next + 1
      /\ results' = results \o new
      /\ shouldBlock' = TRUE
      /\ blocking' = Append(blocking, g)
      /\ verdict' = [all_passed      |-> FALSE,
                     should_block    |-> TRUE,
                     retry_suggested |-> TRUE,
                     blocking        |-> blocking',
                     results         |-> results',
                     findings        |-> findings]
      /\ UNCHANGED <<thorough, answer, job, findings>>

ReturnSequential ==
  /\ mode = "sequential"
  /\ next > Len(Order)
  /\ Return

-----------------------------------------------------------------------------

Next ==
  \/ \E m \in Modes, t \in BOOLEAN : Call(m, t)
  \/ Submit
  \/ \E g \in Guardrails : Take(g) \/ Complete(g) \/ Collect(g)
  \/ ReturnParallel
  \/ RunNext
  \/ RunNextAndStop
  \/ ReturnSequential

Spec == Init /\ [][Next]_vars

\* The threads run.  Complete is fair on the assumption that every guardrail
\* returns; those that call a model await it without a timeout.
Fairness ==
  /\ WF_vars(Submit \/ ReturnParallel \/ RunNext \/ RunNextAndStop \/ ReturnSequential)
  /\ \A g \in Guardrails : WF_vars(Take(g)) /\ WF_vars(Complete(g)) /\ WF_vars(Collect(g))

FairSpec == Spec /\ Fairness

-----------------------------------------------------------------------------
(* Properties                                                              *)

\* Both modes implement the promise of GuardrailVerdict: whatever order the
\* jobs end in, however few threads share them and wherever fail_fast stops,
\* the verdict is the one that the answers of the guardrails call for.
Promise == INSTANCE GuardrailVerdict WITH
  pending <- mode # "idle",
  verdict <- [all_passed   |-> verdict.all_passed,
              should_block |-> verdict.should_block,
              blocking     |-> Range(verdict.blocking)]

ImplementsPromise == Promise!Spec

\* A draft is blocked when a CRITICAL or HIGH guardrail is not satisfied, or when
\* a guardrail of any severity raises, and for no other reason: a MEDIUM, LOW or
\* REVIEW guardrail that answers never blocks (the pipeline's severity rules).
BlockedForCause ==
  mode = "idle" /\ verdict # NoVerdict =>
    (verdict.should_block <=>
       \E g \in Guardrails :
         \/ answer[g].raised
         \/ /\ Severity[g] \in {"CRITICAL", "HIGH"}
            /\ Range(answer[g].checks) \ {"pass"} # {})

\* No worker of the pool is idle while a job waits: with fewer threads than
\* guardrails a call still ends, unless a guardrail never returns.
ValidateReturns == mode # "idle" ~> mode = "idle"

=============================================================================
