---------------------------- MODULE MCProjectInit ----------------------------
(* ProjectInit for the model checker: which sessions share the project.    *)
EXTENDS ProjectInit, TLC

CONSTANTS h1, h2, codex, opencode

OneSession == {h1}
TwoSessions == {h1, h2}
OneClient == <<codex>>
TwoClients == <<codex, opencode>>
SessionOfCodex == [h \in Helpers |-> codex]
SessionsOfBoth == [h \in Helpers |-> IF h = h1 THEN codex ELSE opencode]
AnyServices == Permutations(Services)

(* Of the things that get in the way, and of a second proposal, any two.    *)
AnyTwo ==
    spent.crashes + spent.resets + spent.edits + spent.decisions + expired
      + (IF proposals = 2 THEN 1 ELSE 0) <= 2
===============================================================================
