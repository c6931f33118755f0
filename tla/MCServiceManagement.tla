------------------------- MODULE MCServiceManagement -------------------------
(* ServiceManagement for the model checker: opencode is the client whose   *)
(* entries disable and remove take out and has two sessions; pi is the one *)
(* whose repair records the services anew.                                 *)
EXTENDS ServiceManagement, TLC

CONSTANTS pi, opencode, h1, h2, h3

MCClientOf == [h \in Helpers |-> IF h = h1 THEN pi ELSE opencode]

Alike == Permutations(Services) \cup Permutations({h2, h3})
==============================================================================
