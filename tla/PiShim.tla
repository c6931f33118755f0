------------------------------- MODULE PiShim -------------------------------
(***************************************************************************)
(* The Pi extension (pi-extensions/contextforge-global-shim/index.ts).  An *)
(* activation stops the wrapper processes of the last one, forgets its     *)
(* routes, reads the project state file and starts a wrapper for every     *)
(* approved service, one after the other, waiting for each answer; several *)
(* may be under way, for nothing orders the tools, events and reloads that *)
(* start them.  Routes are global, the list of wrappers to stop belongs to *)
(* an instance of the extension: the tools, registered once, keep the list *)
(* of the first instance, the events of a session use that of the latest.  *)
(*                                                                         *)
(* One step is what runs between two awaits; a rejected promise continues  *)
(* before the next event.  Abstractions: a client object is its process;   *)
(* a service has one tool; the file is the set of services approved for    *)
(* Pi (ProjectDocument!Imported), absent or unreadable when empty.         *)
(***************************************************************************)
EXTENDS Naturals

CONSTANTS
    Projects, NoProject,
    Services,        \* bindings, numbered in the order they are started in
    Approvals,       \* what a state file may approve at first
    Acts,            \* activations that may be under way at once
    Calls,           \* tool calls that may be
    Ids,             \* wrapper processes that may live at once
    NoId, NoProcess,
    MaxInstances,    \* bound: loads of the extension
    MaxChanges       \* bound: changes to what is approved

ASSUME ServiceAssumption == Services \subseteq Nat /\ Approvals \subseteq SUBSET Services
ASSUME IdAssumption == Ids \subseteq Nat /\ NoId \notin Ids
ASSUME ProjectAssumption == NoProject \notin Projects
ASSUME BoundAssumption == MaxInstances \in Nat \ {0} /\ MaxChanges \in Nat

VARIABLES
    instance,      \* the extension instance whose events are live
    acts,          \* the activations
    wrapper,       \* the wrapper processes
    serviceRoute,  \* serviceRoutes: the wrapper that serves a service
    toolRoute,     \* toolRoutes: the wrapper that serves its tool
    root,          \* readback.projectRoot
    calls,         \* the wrapper each tool call waits for
    approved,      \* the services of each project's state file
    mishaps,       \* history: what happened that a property must except
    changes        \* changes to state files so far

vars == <<instance, acts, wrapper, serviceRoute, toolRoute, root, calls,
          approved, mishaps, changes>>

Instances == 1 .. MaxInstances
NoList == 0     \* a wrapper that is in no instance's list of clients

Process == [project : Projects, service : Services, list : Instances \cup {NoList}]
ASSUME ProcessAssumption == NoProcess \notin Process

Places == {"idle", "ack", "init", "list", "cut"}
Act == [at : Places, project : Projects \cup {NoProject}, list : Instances,
        left : SUBSET Services, id : Ids \cup {NoId}]
NoAct == [at |-> "idle", project |-> NoProject, list |-> 1, left |-> {}, id |-> NoId]
NoRoutes == [s \in Services |-> NoId]

TypeOK ==
    /\ instance \in Instances
    /\ acts \in [Acts -> Act]
    /\ wrapper \in [Ids -> Process \cup {NoProcess}]
    /\ serviceRoute \in [Services -> Ids \cup {NoId}]
    /\ toolRoute \in [Services -> Ids \cup {NoId}]
    /\ root \in Projects \cup {NoProject}
    /\ calls \in [Calls -> Ids \cup {NoId}]
    /\ approved \in [Projects -> SUBSET Services]
    /\ mishaps \subseteq {"overlap", "elsewhere", "late"}
    /\ changes \in 0 .. MaxChanges
    /\ \A a \in Acts : acts[a].at \in {"init", "list"} => wrapper[acts[a].id] # NoProcess

Init ==
    /\ instance = 1
    /\ acts = [a \in Acts |-> NoAct]
    /\ wrapper = [k \in Ids |-> NoProcess]
    /\ serviceRoute = NoRoutes /\ toolRoute = NoRoutes
    /\ root = NoProject
    /\ calls = [c \in Calls |-> NoId]
    /\ approved \in [Projects -> Approvals]
    /\ mishaps = {}
    /\ changes = 0

----------------------------------------------------------------------------
(* Wrapper processes and who waits for them.                               *)

Active(a) == acts[a].at # "idle"

(* The microtask queue is empty: the next event may be handled.            *)
Quiet == \A a \in Acts : acts[a].at # "cut"

Up(k) == wrapper[k] # NoProcess
ListOf(k) == IF Up(k) THEN wrapper[k].list ELSE NoList
OnList(i) == {k \in Ids : ListOf(k) = i}

(* stop, and the exit handler: whoever waits for the process is refused.   *)
Stopped(K) == [k \in Ids |-> IF k \in K THEN NoProcess ELSE wrapper[k]]
WaitOn(K) == acts   \* mutant: an exit refuses no request
CutActs(K) == [a \in Acts |-> IF acts[a].id \in K THEN [acts[a] EXCEPT !.at = "cut", !.id = NoId]
                              ELSE acts[a]]
CutCalls(K) == [c \in Calls |-> IF calls[c] \in K THEN NoId ELSE calls[c]]
CutRoutes(route, K) == [s \in Services |-> IF route[s] \in K THEN NoId ELSE route[s]]

(* The next service of activation r, in state W and A: spawn its wrapper   *)
(* and ask it to initialize, or return.  A spawn that fails, which is when *)
(* no process is to be had, refuses the request.                           *)
Spare(W) == {k \in Ids : W[k] = NoProcess /\ \A j \in Ids : W[j] = NoProcess => k <= j}
Earliest(left) == {s \in left : \A t \in left : s <= t}
Onward(a, r, W, A) ==
    \/ /\ r.left = {}
       /\ wrapper' = W
       /\ acts' = [A EXCEPT ![a] = NoAct]
    \/ \E s \in Earliest(r.left), k \in Spare(W) :
        /\ wrapper' = [W EXCEPT ![k] = [project |-> r.project, service |-> s,
                                        list |-> NoList]]
        /\ acts' = [A EXCEPT ![a] = [r EXCEPT !.at = "init", !.left = @ \ {s}, !.id = k]]
    \/ \E s \in Earliest(r.left) :
        /\ Spare(W) = {} /\ wrapper' = W
        /\ acts' = [A EXCEPT ![a] = [r EXCEPT !.at = "cut", !.left = @ \ {s}, !.id = NoId]]

----------------------------------------------------------------------------
(* Activations.                                                            *)

(* The first stretch of activateProject, for a list of clients: all of it  *)
(* synchronous, up to the first wrapper or the acknowledgement of a reload.*)
(* A state file that cannot be read leaves no routes.                      *)
Activate(a, i, p, found, K) ==
    LET r == [at |-> "ack", project |-> p, list |-> i, left |-> found, id |-> NoId]
    IN  /\ \/ Onward(a, r, Stopped(K), CutActs(K))
           \/ Onward(a, [r EXCEPT !.left = {}], Stopped(K), CutActs(K))
           \/ wrapper' = Stopped(K) /\ acts' = [CutActs(K) EXCEPT ![a] = r]
        /\ serviceRoute' = NoRoutes
        /\ toolRoute' = NoRoutes
        /\ calls' = CutCalls(K)
        /\ root' = p

Overlap(a) == \E b \in Acts \ {a} : Active(b)
Noted(a) == IF Overlap(a) THEN mishaps \cup {"overlap"} ELSE mishaps \ {"overlap", "elsewhere"}

(* session_start, or resources_discover when no project is active yet.     *)
Start(a, p) ==
    /\ Quiet /\ acts[a].at = "idle" /\ root = NoProject
    /\ Activate(a, instance, p, approved[p], OnList(instance))
    /\ mishaps' = Noted(a)
    /\ UNCHANGED <<instance, approved, changes>>

(* A tool of the extension that activates: readback, guidance, governance, *)
(* availability.  The tool belongs to the first instance.                  *)
UseTool(a, p) ==
    /\ Quiet /\ acts[a].at = "idle"
    /\ Activate(a, 1, p, approved[p], OnList(1))
    /\ mishaps' = Noted(a)
    /\ UNCHANGED <<instance, approved, changes>>

(* A reload or a change of session: session_shutdown stops the clients of  *)
(* the instance, a new one is loaded and gets session_start.               *)
ForgottenClients(i) == OnList(i) \ OnList(i)   \* mutant: the list is just dropped
ShutdownClients(i) == OnList(i)
Reload(a, p) ==
    /\ Quiet /\ acts[a].at = "idle" /\ root # NoProject
    /\ instance < MaxInstances /\ instance' = instance + 1
    /\ Activate(a, instance + 1, p, approved[p], ShutdownClients(instance))
    /\ mishaps' = Noted(a) \cup (IF Overlap(a) THEN {"late"} ELSE {})
    /\ UNCHANGED <<approved, changes>>

(* Service management through the extension: a helper process changes the  *)
(* state file and the tool activates anew before it answers.  The change   *)
(* and the activation are one step: what comes between them, Elsewhere     *)
(* lets come before.                                                       *)
Toggled(p, s) == [approved EXCEPT ![p] = IF s \in @ THEN @ \ {s} ELSE @ \cup {s}]
ManageUnrefreshed(a, p, s) ==   \* mutant: the operation is not among those that refresh
    /\ Quiet /\ acts[a].at = "idle"
    /\ changes < MaxChanges /\ changes' = changes + 1
    /\ approved' = Toggled(p, s)
    /\ UNCHANGED <<instance, acts, wrapper, serviceRoute, toolRoute, root, calls, mishaps>>
Manage(a, p, s) ==
    /\ Quiet /\ acts[a].at = "idle"
    /\ changes < MaxChanges /\ changes' = changes + 1
    /\ approved' = Toggled(p, s)
    /\ Activate(a, 1, p, approved'[p], OnList(1))
    /\ mishaps' = Noted(a)
    /\ UNCHANGED instance

(* The reload is acknowledged; the state file is read again.               *)
Acknowledged(a) ==
    /\ Quiet /\ acts[a].at = "ack"
    /\ Onward(a, [acts[a] EXCEPT !.left = approved[acts[a].project]], wrapper, acts)
    /\ UNCHANGED <<instance, serviceRoute, toolRoute, root, calls, approved, mishaps, changes>>

(* initialize is answered: the client is listed and routed.                *)
Initialized(a) ==
    /\ Quiet /\ acts[a].at = "init"
    /\ LET k == acts[a].id
       IN  /\ wrapper' = [wrapper EXCEPT ![k].list = acts[a].list]
           /\ serviceRoute' = [serviceRoute EXCEPT ![wrapper[k].service] = k]
    /\ acts' = [acts EXCEPT ![a].at = "list"]
    /\ UNCHANGED <<instance, toolRoute, root, calls, approved, mishaps, changes>>

(* tools/list is answered, with the tool or without; then the prompts and  *)
(* resources are, or fail, and the loop goes on.                           *)
Listed(a) ==
    /\ Quiet /\ acts[a].at = "list"
    /\ \/ toolRoute' = [toolRoute EXCEPT ![wrapper[acts[a].id].service] = acts[a].id]
       \/ UNCHANGED toolRoute
    /\ Onward(a, acts[a], wrapper, acts)
    /\ UNCHANGED <<instance, serviceRoute, root, calls, approved, mishaps, changes>>

(* An error for an answer, or none in 120 seconds: the client is stopped   *)
(* and the loop goes on.                                                   *)
GiveUp(a) ==
    /\ Quiet /\ acts[a].at \in {"init", "list"}
    /\ LET K == {acts[a].id}
       IN  /\ Onward(a, acts[a], Stopped(K), CutActs(K))
           /\ calls' = CutCalls(K)
           /\ serviceRoute' = CutRoutes(serviceRoute, K)
           /\ toolRoute' = CutRoutes(toolRoute, K)
    /\ UNCHANGED <<instance, root, approved, mishaps, changes>>

(* The promise an activation waited for was rejected by a stop or an exit. *)
Resume(a) ==
    /\ acts[a].at = "cut"
    /\ Onward(a, acts[a], wrapper, acts)
    /\ UNCHANGED <<instance, serviceRoute, toolRoute, root, calls, approved, mishaps, changes>>

----------------------------------------------------------------------------
(* Tool calls, and what else happens.                                      *)

(* An imported tool, or governance and guidance over the service's route.  *)
Call(c, s) ==
    /\ Quiet /\ calls[c] = NoId
    /\ \E k \in {serviceRoute[s], toolRoute[s]} \ {NoId} : calls' = [calls EXCEPT ![c] = k]
    /\ UNCHANGED <<instance, acts, wrapper, serviceRoute, toolRoute, root, approved,
                   mishaps, changes>>

Returns(c) ==
    /\ calls[c] # NoId
    /\ calls' = [calls EXCEPT ![c] = NoId]
    /\ UNCHANGED <<instance, acts, wrapper, serviceRoute, toolRoute, root, approved,
                   mishaps, changes>>
Answered(c) == Quiet /\ Returns(c)

(* The timer of a request: forward_once may end without an answer.         *)
NoTimer(c) == FALSE /\ Returns(c)   \* mutant: requests have no timer
Timeout(c) == Quiet /\ Returns(c)

(* A wrapper ends: after 300 idle seconds, or at any time.                 *)
Gone(k) ==
    /\ Quiet /\ Up(k)
    /\ wrapper' = Stopped({k})
    /\ acts' = CutActs({k})
    /\ calls' = CutCalls({k})
    /\ serviceRoute' = CutRoutes(serviceRoute, {k})
    /\ toolRoute' = CutRoutes(toolRoute, {k})
    /\ UNCHANGED <<instance, root, approved, mishaps, changes>>

(* Another client of the project installs, disables or removes a service.  *)
Elsewhere(p, s) ==
    /\ Quiet
    /\ changes < MaxChanges /\ changes' = changes + 1
    /\ approved' = Toggled(p, s)
    /\ mishaps' = mishaps \cup {"elsewhere"}
    /\ UNCHANGED <<instance, acts, wrapper, serviceRoute, toolRoute, root, calls>>

Settle(a) == Acknowledged(a) \/ GiveUp(a) \/ Resume(a)

Next ==
    \/ \E a \in Acts, p \in Projects : Start(a, p) \/ UseTool(a, p) \/ Reload(a, p)
    \/ \E a \in Acts, p \in Projects, s \in Services : Manage(a, p, s)
    \/ \E a \in Acts : Initialized(a) \/ Listed(a) \/ Settle(a)
    \/ \E c \in Calls, s \in Services : Call(c, s)
    \/ \E c \in Calls : Answered(c) \/ Timeout(c)
    \/ \E k \in Ids : Gone(k)
    \/ \E p \in Projects, s \in Services : Elsewhere(p, s)

(* Helper processes end and requests time out; nothing else need ever      *)
(* happen.  Fairness is strong, for a promise that is being handled        *)
(* disables these for a moment and no longer.                              *)
Spec ==
    /\ Init /\ [][Next]_vars
    /\ \A a \in Acts : SF_vars(Settle(a))
    /\ \A c \in Calls : SF_vars(Timeout(c))

----------------------------------------------------------------------------
(* Properties.                                                             *)

(* When the extension is at rest, its routes lead to services approved for *)
(* the project it shows, as its own tools left them: a service disabled    *)
(* through it cannot be called any more.  Unless activations overlapped,   *)
(* or another client changed the file since (activateProject,              *)
(* shouldRefreshAfterHelperOperation).                                     *)
AtRest == \A a \in Acts : ~ Active(a)
RoutesFollowState ==
    AtRest /\ mishaps \cap {"overlap", "elsewhere"} = {} =>
        \A s \in Services : \A k \in {serviceRoute[s], toolRoute[s]} \ {NoId} :
            /\ wrapper[k].project = root
            /\ wrapper[k].service = s
            /\ s \in approved[root]

(* A running wrapper is in the hands of an activation or in a list that    *)
(* the tools or the next reload will empty: none is left behind, unless a  *)
(* reload fell into an activation (JsonRpcStdioClient.stop, the catch of   *)
(* activateProject, session_shutdown).                                     *)
Stoppable ==
    \A k \in Ids : Up(k) =>
        \/ \E a \in Acts : acts[a].id = k
        \/ ListOf(k) \in {1, instance}
        \/ "late" \in mishaps

(* Every activation and every tool call ends, though a wrapper may never   *)
(* answer and other activations keep starting (JsonRpcStdioClient.request).*)
Settles ==
    /\ \A a \in Acts : Active(a) ~> ~ Active(a)
    /\ \A c \in Calls : calls[c] # NoId ~> calls[c] = NoId
=============================================================================
