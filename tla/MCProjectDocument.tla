-------------------------- MODULE MCProjectDocument --------------------------
(* ProjectDocument for the model checker: OpenCode and Pi, two services,   *)
(* and a file an older helper left, with one service of OpenCode's.        *)
EXTENDS ProjectDocument

CONSTANTS a, b, s1

MCJobs == 1 .. 2
MCSelections == {<<a>>, <<a, b>>}
MCFound == {[v \in Services |-> IF v = a THEN r ELSE s1] : r \in {s1, "unknown"}}
MCDecided == {{a}}
MCLegacy ==
    {[DefaultState EXCEPT !.init = "missing",
        !.status = s,
        !.services[a] = [digest |-> "unknown", server |-> NoServer,
                         on |-> [c \in Clients |-> IF c = OpenCode THEN w ELSE "none"]]]
       : s \in {"initialized"}, w \in {"pending", "installed", "passed"}}
===============================================================================
