----------------------------- MODULE MCOnboarding -----------------------------
(* Onboarding for the model checker: both services hash to port 1.  One    *)
(* session is the persistent user's; the other helps with the draft and    *)
(* executes what the first has previewed, by its id or built anew.         *)
EXTENDS Onboarding

CONSTANTS one, two, time, fetch

MCPorts == 1 .. 2
MCHashPort == [v \in Services |-> 1]
MCGiven == {[q \in Questions |-> a] : a \in Answers}
MCDoes == [s \in Sessions |->
    IF s = one THEN {<<"draft", time>>, <<"preview", time>>, <<"id", time>>}
    ELSE {<<"draft", time>>, <<"id", time>>, <<"facts", time>>}]
MCSaid == {[kind |-> k, about |-> b, surface |-> "unnamed"] :
             k \in {"approve", "refuse"}, b \in {p \in Package : p.service = time}}
          \cup {[kind |-> "approve", about |-> time, surface |-> "named"]}
===============================================================================
