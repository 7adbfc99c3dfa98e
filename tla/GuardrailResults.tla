--------------------------- MODULE GuardrailResults ---------------------------
(***************************************************************************)
(* What a guardrail says of a draft (src/guardrails/base.py), and what the *)
(* pipeline makes of one guardrail's answer.                               *)
(*                                                                         *)
(* A guardrail answers with a list of checks, or raises.  The text of a    *)
(* result is left out: what the pipeline tells apart is whether a check    *)
(* passed, failed, or failed as a finding for review, and its severity.    *)
(***************************************************************************)
EXTENDS Integers, Sequences, FiniteSets, Functions

CONSTANTS
  Guardrails,   \* the names of the guardrails of the pipeline
  Severity      \* the severity each was constructed with

BlockingSeverities == {"CRITICAL", "HIGH"}
Severities == BlockingSeverities \cup {"MEDIUM", "LOW", "REVIEW"}

ASSUME SeverityAssumption == Severity \in [Guardrails -> Severities]

Checks == {"pass", "fail", "review"}

\* What validate() of a guardrail does: it returns checks, or it raises.
Answers == [raised : BOOLEAN, checks : Seq(Checks)]

Results == [name : Guardrails, severity : Severities, check : Checks]

Passed(res) == res.check = "pass"

\* GuardrailResult.should_block
Blocks(res) == ~Passed(res) /\ res.severity \in BlockingSeverities

\* Faulty variants (a name ending in Mutant) are not part of the model: each is
\* a bug the next definition could have, which a property must tell apart.
ResultsOfRaisedKeepsSeverityMutant(g, a) ==
  IF a.raised
    THEN <<[name |-> g, severity |-> Severity[g], check |-> "fail"]>>
    ELSE [i \in DOMAIN a.checks |->
            [name |-> g, severity |-> Severity[g], check |-> a.checks[i]]]

\* The results that g's answer adds to all_results.  A guardrail that raised
\* counts as one HIGH failure, whatever its own severity.
ResultsOf(g, a) ==
  IF a.raised
    THEN <<[name |-> g, severity |-> "HIGH", check |-> "fail"]>>
    ELSE [i \in DOMAIN a.checks |->
            [name |-> g, severity |-> Severity[g], check |-> a.checks[i]]]

\* Of a list of results: the positions that block, and those to be reviewed.
Objections(rs) == {i \in DOMAIN rs : Blocks(rs[i])}
ForReview(rs) == {i \in DOMAIN rs : rs[i].check = "review"}

AnyBlocks(rs) == Objections(rs) # {}
AllPassed(rs) == \A i \in DOMAIN rs : Passed(rs[i])
=============================================================================
