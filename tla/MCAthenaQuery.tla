---------------------------- MODULE MCAthenaQuery ----------------------------
(* Instances of AthenaQuery for TLC; every constant is a number of its cfg. *)
EXTENDS AthenaQuery
=============================================================================
