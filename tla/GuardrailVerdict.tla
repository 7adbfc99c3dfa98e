--------------------------- MODULE GuardrailVerdict ---------------------------
(***************************************************************************)
(* What GuardrailPipeline.validate promises its callers: one verdict per   *)
(* call, a function of what the guardrails say of the draft and of nothing *)
(* else.  Neither the mode, nor the number of worker threads, nor the      *)
(* order in which the guardrails end can show in it; a fail-fast run may   *)
(* name fewer of the guardrails that block, but never none.                *)
(***************************************************************************)
EXTENDS GuardrailResults

CONSTANT AnswersOf   \* the answers each guardrail can give

VARIABLES
  pending,    \* a call of validate() is in progress
  answer,     \* what each guardrail has to say of the draft of this call
  thorough,   \* the call runs every guardrail: it is not a fail-fast one
  verdict     \* the verdict of the last call, once it has returned

vars == <<pending, answer, thorough, verdict>>

Verdicts ==
  [all_passed : BOOLEAN, should_block : BOOLEAN, blocking : SUBSET Guardrails]

\* The guardrails that object, and those that are fully satisfied.
Blockers == {g \in Guardrails : AnyBlocks(ResultsOf(g, answer[g]))}
Content == {g \in Guardrails : AllPassed(ResultsOf(g, answer[g]))}

Justified(v) ==
  /\ v.all_passed = (Content = Guardrails)
  /\ v.should_block = (Blockers # {})
  /\ v.blocking \subseteq Blockers
  /\ v.should_block => v.blocking # {}
  /\ thorough => v.blocking = Blockers

NoVerdict == [all_passed |-> FALSE, should_block |-> FALSE, blocking |-> {}]

Init ==
  /\ pending = FALSE
  /\ answer \in [Guardrails -> Answers]
  /\ thorough \in BOOLEAN
  /\ verdict = NoVerdict

Ask ==
  /\ ~pending
  /\ pending' = TRUE
  /\ answer' \in [Guardrails -> Answers]
  /\ \A g \in Guardrails : answer'[g] \in AnswersOf[g]
  /\ thorough' \in BOOLEAN
  /\ verdict' = NoVerdict

Decide ==
  /\ pending
  /\ pending' = FALSE
  /\ verdict' \in Verdicts
  /\ Justified(verdict')
  /\ UNCHANGED <<answer, thorough>>

Next == Ask \/ Decide

Spec == Init /\ [][Next]_vars
=============================================================================
