------------------------------ MODULE MCNpmHost ------------------------------
(* NpmHost for the model checker: time comes in two versions, memory has   *)
(* the port of time, fetch one of its own.                                 *)
EXTENDS NpmHost, TLC

CONSTANTS one, two, time, memory, fetch, v1, v2

MCPortOf == (time :> 1) @@ (memory :> 1) @@ (fetch :> 2)
Applies(s, v) == [op |-> "apply", service |-> s, version |-> v]
Deletes(s) == [op |-> "delete", service |-> s, version |-> Nothing]
MCCommands == {Applies(time, v1), Applies(time, v2), Deletes(time), Applies(memory, v1),
               Applies(fetch, v1)}
MCPids == 1 .. 4
MCLimit == [command |-> 3, trouble |-> 2]
Alike == Permutations(Runs)
==============================================================================
