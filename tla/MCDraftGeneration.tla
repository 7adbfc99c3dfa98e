-------------------------- MODULE MCDraftGeneration --------------------------
(***************************************************************************)
(* Instances of DraftGeneration for TLC: two guardrails tell               *)
(* factual_grounding alone from a mixed block, the third is needed where   *)
(* their number matters.  The number of retries is the default one.        *)
(***************************************************************************)
EXTENDS DraftGeneration
=============================================================================
