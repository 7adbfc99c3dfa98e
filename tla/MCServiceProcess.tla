--------------------------- MODULE MCServiceProcess ---------------------------
(***************************************************************************)
(* Instance of ServiceProcess for TLC: two connections, each with a thread *)
(* that needs credentials.                                                 *)
(***************************************************************************)
EXTENDS ServiceProcess, TLC

CONSTANTS r1, r2, t1, t2

MCOwner == (t1 :> r1) @@ (t2 :> r2)
=============================================================================
