----------------------------- MODULE MCLLMFactory -----------------------------
(***************************************************************************)
(* Instances of LLMFactory for TLC: one caller of the collection family,   *)
(* which has a timeout and fails closed, and one drafting caller, which    *)
(* has neither.                                                            *)
(***************************************************************************)
EXTENDS LLMFactory

CONSTANTS collection, drafting

MCCooldown ==
  [p \in Providers |-> [c \in Callers |-> IF p = Primary /\ c = drafting THEN 2 ELSE 1]]
MCTimeout == [c \in Callers |-> IF c = collection THEN 1 ELSE 0]
=============================================================================
