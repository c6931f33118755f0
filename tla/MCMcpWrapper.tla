---------------------------- MODULE MCMcpWrapper ----------------------------
(* McpWrapper for the model checker: the wrappers of one session start     *)
(* together, one of them for a second gateway over the same cache file.    *)
EXTENDS McpWrapper

CONSTANTS local, harness, foreign

MCBaseOf == [w \in Wrappers |-> IF w = foreign THEN harness ELSE local]
=============================================================================
