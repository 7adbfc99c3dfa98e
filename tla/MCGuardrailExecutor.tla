-------------------------- MODULE MCGuardrailExecutor --------------------------
(***************************************************************************)
(* Instances of GuardrailExecutor for TLC.  The default pipeline has       *)
(* thirteen guardrails and six threads; what matters is that there are     *)
(* more guardrails than threads, of severities that block and that do not. *)
(***************************************************************************)
EXTENDS GuardrailExecutor, TLC

Checked(s) == [raised |-> FALSE, checks |-> s]
Raised == [raised |-> TRUE, checks |-> <<>>]

\* As _get_default_guardrails lists them: in no particular order.
MCListed == <<"identity_scope", "forbidden_content", "factual_grounding", "lane_scope">>
MCGuardrails == Range(MCListed)
MCSeverity ==
  [g \in Guardrails |-> CASE g = "identity_scope"    -> "HIGH"
                          [] g = "forbidden_content" -> "REVIEW"
                          [] OTHER                   -> "CRITICAL"]
MCOrder == SortedBySeverity(MCListed)
MCAnswers ==
  [g \in Guardrails |->
     CASE g = "factual_grounding" ->
            {Checked(<<>>), Checked(<<"pass", "fail", "fail">>), Checked(<<"review", "fail", "review">>)}
       [] g = "lane_scope"        -> {Raised, Checked(<<"pass">>), Checked(<<"fail">>)}
       [] g = "identity_scope"    -> {Raised, Checked(<<"pass">>), Checked(<<"fail", "fail">>)}
       [] g = "forbidden_content" -> {Raised, Checked(<<"pass">>), Checked(<<"review", "review">>)}]
=============================================================================
