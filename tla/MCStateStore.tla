----------------------------- MODULE MCStateStore -----------------------------
(* StateStore for the model checker.  The processes are the helpers of the *)
(* assistant clients that share one project; one of them compares and      *)
(* swaps.                                                                  *)
EXTENDS StateStore
===============================================================================
