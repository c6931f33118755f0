--------------------------- MODULE MCSerenaInstance ---------------------------
(* SerenaInstance for the model checker: two projects, and the command     *)
(* lines the helper, the operator and the tests use.                       *)
EXTENDS SerenaInstance, TLC

CONSTANTS alpha, beta, one, two

Create == [op |-> "create", flags |-> {"systemd", "codex"}]
CreateInContainer == [op |-> "create", flags |-> {"language"}]
CreateVerified == [op |-> "create",
    flags |-> {"systemd", "language", "codex", "replace", "verify"}]
Refresh == [op |-> "refresh", flags |-> {}]
Verify == [op |-> "verify", flags |-> {"language"}]
Purge == [op |-> "remove", flags |-> {"rows", "directory"}]

MCCommands == (alpha :> {CreateVerified, Refresh, Verify, Purge})
              @@ (beta :> {Create, CreateInContainer})
MCLimit == [command |-> 3, mishap |-> 1]
Alike == Permutations(Procs)
===============================================================================
