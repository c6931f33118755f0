-------------------------------- MODULE NpmHost --------------------------------
(***************************************************************************)
(* Applying and deleting onboarding packages: the executor of              *)
(* apply_onboarding_runtime_package.py, the managed records of             *)
(* npm_stdio_host_records.py and the bridges of npm_stdio_host_runtime.py. *)
(* The proxy serves every request in a thread of its own, so runs overlap, *)
(* and no run takes a lock.  The runtime command of a run is a process in  *)
(* the host container: it goes on when the executor stops waiting for it.  *)
(*                                                                         *)
(* Abstractions.  A package is the service it binds and a version, and so  *)
(* are its record, its runtime state, an installed tree and each row of    *)
(* the gateway; the guidance resources of a service are one row.  A file   *)
(* replaced by rename is one step, together with the reads before it.  The *)
(* process id of a bridge is not used again while anything refers to it.   *)
(***************************************************************************)
EXTENDS Naturals, FiniteSets

CONSTANTS Runs,         \* executors at work, one command at a time
          Services,     \* service bindings
          Versions,     \* what a package may contain
          Commands,     \* what the proxy is asked to do
          Nothing,      \* no file, no row, no process
          Torn,         \* an installed tree that is of no version
          Ports,        \* endpoint ports
          PortOf,       \* endpoint_port, a hash: two services may share one
          Pids,         \* process ids in the host container
          Limit         \* bounds: commands and troubles, an overlap being two

Untouched == "untouched"    \* a row that no run has changed
Died == "died"              \* history: served by a bridge that ended by itself

ASSUME DistinctAssumption ==
    /\ Nothing \notin Versions \cup {Torn} \cup Pids
    /\ Torn \notin Versions /\ Untouched \notin Versions \cup {Nothing}
    /\ Died \notin Versions \cup {Nothing, Torn}
ASSUME PortAssumption == PortOf \in [Services -> Ports]
ASSUME NonemptyAssumption == Services # {} /\ Versions # {}
ASSUME LimitAssumption == Limit \in [{"command", "trouble"} -> Nat]

Job == [op : {"apply"}, service : Services, version : Versions]
       \cup [op : {"delete"}, service : Services, version : {Nothing}]
ASSUME CommandAssumption == Commands \subseteq Job

VARIABLES
    record,     \* npm-stdio-service.json of each service
    index,      \* its entry in index.json
    rows,       \* its gateway, resource and server in the gateway
    state,      \* its runtime-state.json
    marker,     \* its .contextforge-install-digest
    tree,       \* its installed package
    bridge,     \* the service and version each process runs
    listener,   \* the process that listens on each port
    pc,         \* where each executor is
    job,        \* its command
    saved,      \* what it means to restore
    clean,      \* executors none of whose rollbacks has failed
    wpc,        \* where the runtime command of each executor is
    want,       \* the version it brings up
    former,     \* the runtime state it found
    pid,        \* the bridge it has launched
    origin,     \* history: the services when the run began
    disturbed,  \* history: runs that overlapped another or missed an answer
    strayed,    \* history: ports with a bridge nobody may know of
    blind,      \* history: ports whose conflicts a run may have failed to see
    spoilt,     \* history: services whose marker may not tell their tree
    spent       \* so far

host == <<record, index, blind>>
runtime == <<state, marker, tree, bridge, listener>>
executor == <<pc, job, saved, clean>>
worker == <<wpc, want, former, pid>>
history == <<origin, disturbed, strayed, spoilt>>
vars == <<host, rows, runtime, executor, worker, history, spent>>

Kind == {"gateway", "resource", "server"}
Content == Versions \cup {Nothing}
Files == [Services -> Content]
NoJob == CHOOSE j \in Job : j.op = "delete"
State == [version : Content, pid : Pids \cup {Nothing}]
NoState == [version |-> Nothing, pid |-> Nothing]
Bridge == [service : Services, version : Versions \cup {Torn}]
Saved == [stage : {"runtime", "registration"}, record : Content, index : Files,
          rows : [Kind -> Content \cup {Untouched}]]
NothingSaved == [stage |-> "runtime", record |-> Nothing,
                 index |-> [s \in Services |-> Nothing],
                 rows |-> [k \in Kind |-> Untouched]]
Label == {"idle", "upsert", "index", "runtime", "wait", "gateway",
          "refresh", "resource", "server", "undo", "unrecord", "unindex",
          "reset", "settle", "unserver", "unresource", "ungateway",
          "report", "discard", "gone", "unlink", "unlist"}
WorkerLabel == {"none", "look", "install", "mark", "stop", "launch", "ready",
                "back", "remark", "relaunch", "reready",
                "clear", "erase", "partial", "done", "failed"}

(* What a client of each service gets.                                     *)
Served(s) ==
    LET p == listener[PortOf[s]]
    IN  IF p # Nothing /\ bridge[p].service = s THEN bridge[p].version ELSE Nothing

Now == [record |-> record, index |-> index, rows |-> rows,
        served |-> [s \in Services |-> Served(s)]]

(* What is noted of a run that has not begun.                              *)
Blank == [record |-> [s \in Services |-> Nothing],
          index |-> [s \in Services |-> Nothing],
          rows |-> [k \in Kind |-> [s \in Services |-> Nothing]],
          served |-> [s \in Services |-> Nothing]]

NoBridge == [service |-> Nothing, version |-> Nothing]

TypeOK ==
    /\ record \in Files /\ index \in Files
    /\ rows \in [Kind -> Files]
    /\ state \in [Services -> State]
    /\ marker \in Files
    /\ tree \in [Services -> Content \cup {Torn}]
    /\ bridge \in [Pids -> Bridge \cup {NoBridge}]
    /\ listener \in [Ports -> Pids \cup {Nothing}]
    /\ pc \in [Runs -> Label] /\ job \in [Runs -> Job]
    /\ saved \in [Runs -> Saved] /\ clean \in SUBSET Runs
    /\ wpc \in [Runs -> WorkerLabel] /\ want \in [Runs -> Content]
    /\ former \in [Runs -> State] /\ pid \in [Runs -> Pids \cup {Nothing}]
    /\ disturbed \in SUBSET Runs
    /\ strayed \in SUBSET Ports /\ blind \in SUBSET Ports
    /\ spoilt \in SUBSET Services
    /\ spent \in [{"command", "trouble"} -> Nat]

Init ==
    /\ record = [s \in Services |-> Nothing] /\ index = record
    /\ rows = [k \in Kind |-> record]
    /\ state = [s \in Services |-> NoState]
    /\ marker = record /\ tree = record
    /\ bridge = [p \in Pids |-> NoBridge]
    /\ listener = [n \in Ports |-> Nothing]
    /\ pc = [r \in Runs |-> "idle"] /\ job = [r \in Runs |-> NoJob]
    /\ saved = [r \in Runs |-> NothingSaved] /\ clean = Runs
    /\ wpc = [r \in Runs |-> "none"] /\ want = [r \in Runs |-> Nothing]
    /\ former = [r \in Runs |-> NoState] /\ pid = [r \in Runs |-> Nothing]
    /\ origin = [r \in Runs |-> Blank]
    /\ disturbed = {} /\ strayed = {} /\ blind = {} /\ spoilt = {}
    /\ spent = [command |-> 0, trouble |-> 0]

Service(r) == job[r].service
Alive(p) == p # Nothing /\ bridge[p] # NoBridge
Port(r) == PortOf[Service(r)]

Trouble == /\ spent["trouble"] < Limit["trouble"]
           /\ spent' = [spent EXCEPT !["trouble"] = @ + 1]
Goto(r, label) ==
    /\ pc' = [pc EXCEPT ![r] = label]
    /\ origin' = IF label = "idle" THEN [origin EXCEPT ![r] = Blank] ELSE origin
Send(r, label) == wpc' = [wpc EXCEPT ![r] = label]

(* The executor of r takes a step at one of the labels, or its runtime     *)
(* command does.                                                           *)
At(r, labels) ==
    pc[r] \in labels /\ UNCHANGED <<runtime, disturbed, strayed, spoilt>>
In(r, labels) == wpc[r] \in labels
                 /\ UNCHANGED <<host, rows, executor, origin, disturbed, strayed>>

Busy == {r \in Runs : pc[r] # "idle" \/ wpc[r] # "none"}

-------------------------------------------------------------------------------
(* The executor: a command, and the record and index of the host.          *)

(* The executor of r is over; its runtime command may not be.              *)
Ends(r) ==
    /\ Goto(r, "idle")
    /\ job' = IF wpc[r] \in {"none", "done", "failed"} THEN [job EXCEPT ![r] = NoJob] ELSE job
    /\ saved' = [saved EXCEPT ![r] = NothingSaved]
    /\ clean' = clean \cup {r}

Begin(r, j) ==
    LET met == Busy \ {r}
    IN  /\ r \notin Busy
        /\ spent["command"] < Limit["command"]
        /\ met # {} => spent["trouble"] + 2 <= Limit["trouble"]
        /\ spent' = [command |-> spent["command"] + 1,
                     trouble |-> spent["trouble"] + (IF met = {} THEN 0 ELSE 2)]
        /\ job' = [job EXCEPT ![r] = j]
        /\ pc' = [pc EXCEPT ![r] = IF j.op = "apply" THEN "upsert" ELSE "unserver"]
        /\ origin' = [origin EXCEPT ![r] = Now]
        /\ disturbed' = IF met = {} THEN disturbed \ {r} ELSE disturbed \cup met \cup {r}
        /\ strayed' = IF met = {} THEN strayed
                      ELSE strayed \cup {PortOf[j.service]} \cup {Port(g) : g \in met}
        /\ blind' = IF \E g \in met : Service(g) = j.service
                    THEN blind \cup {PortOf[j.service]} ELSE blind
        /\ UNCHANGED <<record, index, rows, runtime, saved, clean, worker, spoilt>>

(* upsert_from_runtime_package: what is there is kept for a rollback.      *)
WriteRecord(r) ==
    /\ At(r, {"upsert"})
    /\ saved' = [saved EXCEPT ![r].record = record[Service(r)], ![r].index = index]
    /\ record' = [record EXCEPT ![Service(r)] = job[r].version]
    /\ Goto(r, "index")
    /\ UNCHANGED <<index, blind, rows, job, clean, worker, spent>>

(* The index as the run once read it is written with the change of its     *)
(* own: what others have entered since is lost.                            *)
Reindex(r, entries) ==
    LET dropped == {s \in Services \ {Service(r)} :
                      index[s] # Nothing /\ entries[s] = Nothing}
    IN  /\ index' = entries
        /\ blind' = blind \cup {PortOf[s] : s \in dropped}

WriteIndex(r) ==
    /\ At(r, {"index"})
    /\ Reindex(r, [saved[r].index EXCEPT ![Service(r)] = job[r].version])
    /\ Goto(r, "runtime")
    /\ UNCHANGED <<record, rows, job, saved, clean, worker, spent>>

(* A file that cannot be written: nothing is put into the way of the       *)
(* exception.                                                              *)
Raise(r) ==
    /\ At(r, {"upsert", "index"}) /\ Trouble
    /\ Ends(r)
    /\ UNCHANGED <<host, rows, worker>>

(* The runtime command of the host: to apply, to apply what has been       *)
(* restored, or to delete.                                                 *)
AfterCall == [runtime |-> "wait", reset |-> "settle", discard |-> "gone"]

Call(r) ==
    /\ At(r, DOMAIN AfterCall)
    /\ Send(r, IF pc[r] = "runtime" \/ (pc[r] = "reset" /\ saved[r].record # Nothing)
               THEN "look" ELSE "clear")
    /\ Goto(r, AfterCall[pc[r]])
    /\ UNCHANGED <<host, rows, job, saved, clean, want, former, pid, spent>>

AfterReturn == [wait |-> "unrecord", settle |-> "report", gone |-> "unlink"]

(* The process of the runtime command is gone.                             *)
Dismiss(r) ==
    /\ Send(r, "none")
    /\ want' = [want EXCEPT ![r] = Nothing]
    /\ former' = [former EXCEPT ![r] = NoState]
    /\ pid' = [pid EXCEPT ![r] = Nothing]

(* by_url: another gateway row has the endpoint.                           *)
UrlTaken(s) == \E t \in Services \ {s} : PortOf[t] = PortOf[s] /\ rows["gateway"][t] # Nothing

(* The executor hears of the end of its command; then it logs in, outside  *)
(* the try, so that a login that fails leaves everything as it is, and     *)
(* reads the list of gateways.                                             *)
Return(r) ==
    /\ At(r, {"wait", "settle", "gone"}) /\ wpc[r] \in {"done", "failed"}
    /\ IF pc[r] = "wait" /\ wpc[r] = "done"
       THEN \/ /\ Goto(r, IF UrlTaken(Service(r)) THEN "undo" ELSE "gateway")
               /\ saved' = [saved EXCEPT ![r].stage = "registration"]
               /\ UNCHANGED <<job, clean, spent>>
            \/ Trouble /\ Ends(r)
       ELSE /\ Goto(r, AfterReturn[pc[r]])
            /\ clean' = IF pc[r] = "wait" \/ wpc[r] = "done" THEN clean ELSE clean \ {r}
            /\ UNCHANGED <<job, saved, spent>>
    /\ Dismiss(r)
    /\ UNCHANGED <<host, rows>>

(* The executor stops waiting after 60 seconds, and takes the command for  *)
(* failed.                                                                 *)
Timeout(r) ==
    /\ pc[r] \in {"wait", "settle", "gone"} /\ wpc[r] \notin {"done", "failed"}
    /\ Trouble
    /\ disturbed' = disturbed \cup {r} /\ strayed' = strayed \cup {Port(r)}
    /\ clean' = IF pc[r] = "wait" THEN clean ELSE clean \ {r}
    /\ blind' = IF pc[r] = "wait" THEN blind \cup {Port(r)} ELSE blind
    /\ Goto(r, AfterReturn[pc[r]])
    /\ UNCHANGED <<record, index, rows, runtime, job, saved, worker, origin, spoilt>>

(* A runtime command nobody waits for ends.                                *)
Leave(r) ==
    /\ wpc[r] \in {"done", "failed"} /\ pc[r] \notin {"wait", "settle", "gone"}
    /\ Dismiss(r)
    /\ job' = IF pc[r] = "idle" THEN [job EXCEPT ![r] = NoJob] ELSE job
    /\ UNCHANGED <<host, rows, runtime, pc, saved, clean, history, spent>>

-------------------------------------------------------------------------------
(* The executor: the gateway.                                              *)

NextLabel == [gateway |-> "refresh", refresh |-> "resource", resource |-> "server"]

(* A row is created or replaced, and noted for the rollback; a resource    *)
(* that is as it should be is left alone.                                  *)
Noted(r, k) == [saved EXCEPT ![r].rows[k] = rows[k][Service(r)]]
Put(r, k) == [rows EXCEPT ![k][Service(r)] = job[r].version]
InPlace(r, k) == k = "resource" /\ rows[k][Service(r)] = job[r].version

PutRow(r, k) ==
    /\ At(r, {k}) /\ k \in Kind
    /\ rows' = Put(r, k)
    /\ IF k = "server" THEN Ends(r)
       ELSE /\ saved' = IF InPlace(r, k) THEN saved ELSE Noted(r, k)
            /\ Goto(r, NextLabel[k])
            /\ UNCHANGED <<job, clean>>
    /\ UNCHANGED <<host, worker, spent>>

(* The tools of the gateway are refreshed and the expected ones found.     *)
Refresh(r) ==
    /\ At(r, {"refresh"})
    /\ Goto(r, "resource")
    /\ UNCHANGED <<host, rows, job, saved, clean, worker, spent>>

(* The gateway refuses.  A row that was there has been noted by then.      *)
Refuse(r) ==
    /\ At(r, {"gateway", "refresh", "resource", "server"})
    /\ Trouble
    /\ saved' = IF pc[r] # "refresh" /\ rows[pc[r]][Service(r)] # Nothing
                   /\ ~ InPlace(r, pc[r])
                THEN Noted(r, pc[r]) ELSE saved
    /\ Goto(r, "undo")
    /\ UNCHANGED <<host, rows, job, clean, worker>>

(* The gateway creates the row and the answer is lost: nothing is noted.   *)
Lose(r, k) ==
    /\ pc[r] = k /\ rows[k][Service(r)] = Nothing
    /\ Trouble
    /\ rows' = Put(r, k)
    /\ disturbed' = disturbed \cup {r}
    /\ Goto(r, "undo")
    /\ UNCHANGED <<host, runtime, job, saved, clean, worker, origin, strayed, spoilt>>

(* rollback_guidance_resources and rollback_contextforge_state, in this    *)
(* order.                                                                  *)
Rank == [resource |-> 1, server |-> 2, gateway |-> 3]
ToUndo(r) == {k \in Kind : saved[r].rows[k] # Untouched}
First(r, k) == k \in ToUndo(r) /\ \A l \in ToUndo(r) : Rank[k] <= Rank[l]

Undo(r, k) ==
    /\ At(r, {"undo"}) /\ First(r, k)
    /\ saved' = [saved EXCEPT ![r].rows[k] = Untouched]
    /\ \/ /\ rows' = [rows EXCEPT ![k][Service(r)] = saved[r].rows[k]]
          /\ UNCHANGED <<clean, spent>>
       \/ /\ Trouble
          /\ clean' = clean \ {r}
          /\ UNCHANGED rows
    /\ UNCHANGED <<host, pc, job, worker, origin>>

Undone(r) ==
    /\ At(r, {"undo"}) /\ ToUndo(r) = {}
    /\ Goto(r, "unrecord")
    /\ UNCHANGED <<host, rows, job, saved, clean, worker, spent>>

(* rollback_upsert: the record, then the whole index as it was.            *)
Unrecord(r) ==
    /\ At(r, {"unrecord"})
    /\ record' = [record EXCEPT ![Service(r)] = saved[r].record]
    /\ Goto(r, "unindex")
    /\ UNCHANGED <<index, blind, rows, job, saved, clean, worker, spent>>

Empty(entries) == \A s \in Services : entries[s] = Nothing

(* Variant: where there was no index, none is put back.                    *)
UnindexKept(r) ==
    /\ At(r, {"unindex"})
    /\ Reindex(r, IF Empty(saved[r].index) THEN index ELSE saved[r].index)
    /\ Goto(r, IF saved[r].stage = "registration" THEN "reset" ELSE "report")
    /\ UNCHANGED <<record, rows, job, saved, clean, worker, spent>>

Unindex(r) ==
    /\ At(r, {"unindex"})
    /\ Reindex(r, IF Empty(saved[r].index) THEN [index EXCEPT ![Service(r)] = Nothing]
                  ELSE saved[r].index)
    /\ Goto(r, IF saved[r].stage = "registration" THEN "reset" ELSE "report")
    /\ UNCHANGED <<record, rows, job, saved, clean, worker, spent>>

(* RuntimeApplyError, with the report of what was rolled back.             *)
Report(r) ==
    /\ At(r, {"report"})
    /\ Ends(r)
    /\ UNCHANGED <<host, rows, worker, spent>>

-------------------------------------------------------------------------------
(* The executor: delete_package, which goes on whatever fails.             *)

(* Variant: the guidance resources are forgotten.                          *)
AfterDropFewer == [unserver |-> "ungateway", unresource |-> "ungateway",
                   ungateway |-> "discard"]

AfterDrop == [unserver |-> "unresource", unresource |-> "ungateway",
              ungateway |-> "discard"]
Dropped == [unserver |-> "server", unresource |-> "resource", ungateway |-> "gateway"]

DropRow(r) ==
    /\ At(r, DOMAIN AfterDrop)
    /\ \/ /\ rows' = [rows EXCEPT ![Dropped[pc[r]]][Service(r)] = Nothing]
          /\ UNCHANGED <<clean, spent>>
       \/ /\ Trouble
          /\ clean' = clean \ {r}
          /\ UNCHANGED rows
    /\ Goto(r, AfterDrop[pc[r]])
    /\ UNCHANGED <<host, job, saved, worker>>

(* delete_service_record: the record that the index names, then the index. *)
Unlink(r) ==
    /\ At(r, {"unlink"})
    /\ saved' = [saved EXCEPT ![r].index = index]
    /\ record' = IF index[Service(r)] = Nothing THEN record
                 ELSE [record EXCEPT ![Service(r)] = Nothing]
    /\ Goto(r, "unlist")
    /\ UNCHANGED <<index, blind, rows, job, clean, worker, spent>>

Unlist(r) ==
    /\ At(r, {"unlist"})
    /\ Reindex(r, [saved[r].index EXCEPT ![Service(r)] = Nothing])
    /\ Ends(r)
    /\ UNCHANGED <<record, rows, worker, spent>>

-------------------------------------------------------------------------------
(* The runtime command of the host: apply_service and delete_service.      *)

(* Variant: a state file is believed.                                      *)
RunningBelieved(s) == state[s] # NoState

(* bridge_state_running: the process of a runtime state is there.          *)
Running(s) == Alive(state[s].pid) /\ bridge[state[s].pid].service = s

(* Variant: only what runs has its port.                                   *)
ConflictRunning(s) == \E t \in Services \ {s} : PortOf[t] = PortOf[s] /\ Running(t)

(* record_port_conflicts: another bridge or another record has the port.   *)
Conflict(s) == \E t \in Services \ {s} :
    PortOf[t] = PortOf[s] /\ (Running(t) \/ (index[t] # Nothing /\ record[t] # Nothing))

(* The record is found through the index, and the former runtime noted.    *)
Look(r) ==
    LET s == Service(r)
        found == index[s] # Nothing /\ record[s] # Nothing
        current == found /\ state[s].version = record[s] /\ Running(s)
        go == found /\ ~ current /\ ~ Conflict(s)
    IN  /\ In(r, {"look"})
        /\ Send(r, CASE current -> "done" [] go -> "install" [] OTHER -> "failed")
        /\ want' = [want EXCEPT ![r] = IF go THEN record[s] ELSE @]
        /\ former' = [former EXCEPT ![r] = IF go THEN state[s] ELSE @]
        /\ UNCHANGED <<runtime, pid, spoilt, spent>>

Aim(r) == IF wpc[r] \in {"back", "remark", "relaunch", "reready"}
          THEN former[r].version ELSE want[r]

AfterInstall == [install |-> "stop", back |-> "relaunch"]
AfterMark == [mark |-> "stop", remark |-> "relaunch"]

(* install_package: the marker tells that the version is there.            *)
InstallAgain(r) ==
    /\ In(r, {"install", "back"}) /\ marker[Service(r)] = Aim(r)
    /\ Send(r, AfterInstall[wpc[r]])
    /\ UNCHANGED <<runtime, want, former, pid, spoilt, spent>>

(* npm install, which may fail and leave the old tree or none of any use.  *)
Install(r) ==
    LET s == Service(r)
    IN  /\ In(r, {"install", "back"}) /\ marker[s] # Aim(r)
        /\ \/ /\ tree' = [tree EXCEPT ![s] = Aim(r)]
              /\ Send(r, IF wpc[r] = "install" THEN "mark" ELSE "remark")
              /\ UNCHANGED spent
           \/ /\ Trouble
              /\ tree' \in {tree, [tree EXCEPT ![s] = Torn]}
              /\ Send(r, "failed")
        /\ spoilt' = IF tree' = tree THEN spoilt ELSE spoilt \cup {s}
        /\ UNCHANGED <<state, marker, bridge, listener, want, former, pid>>

Mark(r) ==
    /\ In(r, {"mark", "remark"}) /\ tree[Service(r)] # Nothing
    /\ marker' = [marker EXCEPT ![Service(r)] = Aim(r)]
    /\ spoilt' = spoilt \ {Service(r)}
    /\ Send(r, AfterMark[wpc[r]])
    /\ UNCHANGED <<state, tree, bridge, listener, want, former, pid, spent>>

Killed(p) ==
    /\ bridge' = IF p = Nothing THEN bridge ELSE [bridge EXCEPT ![p] = NoBridge]
    /\ listener' = [n \in Ports |-> IF listener[n] = p THEN Nothing ELSE listener[n]]

(* A former runtime that is not there any more is none to restore; one     *)
(* that is there is stopped.  Trouble is a process that outlives SIGTERM   *)
(* and is killed, which stop_pid calls a failure, so that nothing is to be *)
(* restored, or one that ends before the signal, which raises.  A process  *)
(* killed is gone before another has come up.                              *)
Stop(r) ==
    LET p == former[r].pid
        there == Alive(p) /\ bridge[p].service = Service(r)
    IN  /\ In(r, {"stop"})
        /\ IF there THEN Killed(p) ELSE UNCHANGED <<bridge, listener>>
        /\ \/ /\ Send(r, "launch")
              /\ former' = IF there THEN former ELSE [former EXCEPT ![r] = NoState]
              /\ UNCHANGED spent
           \/ /\ there /\ Trouble
              /\ \E label \in {"launch", "failed"} : Send(r, label)
              /\ former' = [former EXCEPT ![r] = NoState]
        /\ UNCHANGED <<state, marker, tree, want, pid, spoilt>>

Unused == {p \in Pids : /\ ~ Alive(p)
                        /\ \A s \in Services : state[s].pid # p
                        /\ \A r \in Runs : pid[r] # p /\ former[r].pid # p}

(* Variant: the command is not looked for in what is installed.            *)
SpawnUnresolved(r) ==
    LET p == CHOOSE p \in Unused : TRUE
    IN  /\ In(r, {"launch", "relaunch"}) /\ Unused # {}
        /\ bridge' = [bridge EXCEPT ![p] = [service |-> Service(r),
                                            version |-> tree[Service(r)]]]
        /\ pid' = [pid EXCEPT ![r] = p]
        /\ Send(r, IF wpc[r] = "launch" THEN "ready" ELSE "reready")
        /\ UNCHANGED <<state, marker, tree, listener, want, former, spoilt, spent>>

(* launch_bridge: a process that runs what is installed.                   *)
Spawn(r) ==
    LET p == CHOOSE p \in Unused : TRUE
    IN  /\ In(r, {"launch", "relaunch"})
        /\ tree[Service(r)] # Nothing /\ Unused # {}
        /\ bridge' = [bridge EXCEPT ![p] = [service |-> Service(r),
                                            version |-> tree[Service(r)]]]
        /\ pid' = [pid EXCEPT ![r] = p]
        /\ Send(r, IF wpc[r] = "launch" THEN "ready" ELSE "reready")
        /\ UNCHANGED <<state, marker, tree, listener, want, former, spoilt, spent>>

(* wait_for_bridge_endpoint: the process has not ended, and somebody       *)
(* listens on its port.  The runtime state is written.                     *)
Ready(r) ==
    /\ In(r, {"ready", "reready"})
    /\ Alive(pid[r]) /\ listener[Port(r)] # Nothing
    /\ state' = [state EXCEPT ![Service(r)] = [version |-> Aim(r), pid |-> pid[r]]]
    /\ pid' = [pid EXCEPT ![r] = Nothing]
    /\ Send(r, IF wpc[r] = "ready" THEN "done" ELSE "failed")
    /\ UNCHANGED <<marker, tree, bridge, listener, want, former, spoilt, spent>>

(* The launch fails: the process has ended, or nobody listens in time and  *)
(* it is stopped.  The former runtime, if it was stopped, is brought back. *)
LaunchFails(r) ==
    /\ In(r, {"ready", "reready"})
    /\ IF Alive(pid[r]) THEN listener[Port(r)] = Nothing /\ Trouble
       ELSE UNCHANGED spent
    /\ Killed(pid[r])
    /\ pid' = [pid EXCEPT ![r] = Nothing]
    /\ Send(r, IF wpc[r] = "ready" /\ former[r] # NoState THEN "back" ELSE "failed")
    /\ UNCHANGED <<state, marker, tree, want, former, spoilt>>

(* Somebody has removed the directory.                                     *)
DirectoryGone(r) ==
    /\ In(r, {"mark", "remark", "launch", "relaunch"}) /\ tree[Service(r)] = Nothing
    /\ Send(r, IF wpc[r] = "launch" /\ former[r] # NoState THEN "back" ELSE "failed")
    /\ UNCHANGED <<runtime, want, former, pid, spoilt, spent>>

(* Variant: the directory is removed under the bridge.                     *)
StopKnownNot(r) ==
    /\ In(r, {"clear"})
    /\ Send(r, "erase")
    /\ UNCHANGED <<runtime, want, former, pid, spoilt, spent>>

(* delete_service: the bridge of the state, then the directory.  A stop    *)
(* that fails leaves a delete that is partial, one that raises ends it.    *)
StopKnown(r) ==
    LET there == Running(Service(r))
    IN  /\ In(r, {"clear"})
        /\ IF there THEN Killed(state[Service(r)].pid) ELSE UNCHANGED <<bridge, listener>>
        /\ \/ Send(r, "erase") /\ UNCHANGED spent
           \/ there /\ Trouble /\ \E label \in {"partial", "failed"} : Send(r, label)
        /\ UNCHANGED <<state, marker, tree, want, former, pid, spoilt>>

(* The executor takes a partial delete for one that failed.                *)
Erase(r) ==
    LET s == Service(r)
    IN  /\ In(r, {"erase", "partial"})
        /\ state' = [state EXCEPT ![s] = NoState]
        /\ marker' = [marker EXCEPT ![s] = Nothing]
        /\ tree' = [tree EXCEPT ![s] = Nothing]
        /\ spoilt' = spoilt \ {s}
        /\ Send(r, IF wpc[r] = "erase" THEN "done" ELSE "failed")
        /\ UNCHANGED <<bridge, listener, want, former, pid, spent>>

-------------------------------------------------------------------------------
(* Around the commands.                                                    *)

(* A bridge comes up: it listens, or ends because somebody else does.      *)
Bind(p) ==
    LET n == PortOf[bridge[p].service]
    IN  /\ Alive(p) /\ listener[n] # p
        /\ IF listener[n] = Nothing
           THEN listener' = [listener EXCEPT ![n] = p] /\ UNCHANGED bridge
           ELSE bridge' = [bridge EXCEPT ![p] = NoBridge] /\ UNCHANGED listener
        /\ UNCHANGED <<host, rows, state, marker, tree, executor, worker,
                       history, spent>>

(* The runtime command of r has brought up its service.                    *)
BroughtUp(r) == wpc[r] = "done" \/ pc[r] \in {"gateway", "refresh", "resource", "server"}

(* A bridge ends by itself.  The runs under way are not held to what it    *)
(* served, nor to its being there once they have brought it up.            *)
Death(p) ==
    LET s == bridge[p].service
    IN  /\ Alive(p) /\ Trouble
        /\ Killed(p)
        /\ origin' = [r \in Runs |-> IF pc[r] = "idle" THEN origin[r]
                                 ELSE [origin[r] EXCEPT !.served[s] =
                                         IF BroughtUp(r) THEN Died ELSE Torn]]
        /\ UNCHANGED <<host, rows, state, marker, tree, executor, worker,
                       disturbed, strayed, spoilt>>

(* An executor is killed; its runtime command goes on.                     *)
Kill(r) ==
    /\ pc[r] # "idle" /\ Trouble
    /\ Ends(r)
    /\ UNCHANGED <<host, rows, runtime, worker, disturbed, strayed, spoilt>>

(* A runtime command is killed.                                            *)
KillWorker(r) ==
    /\ wpc[r] \notin {"none", "done", "failed"} /\ Trouble
    /\ Send(r, "failed")
    /\ strayed' = strayed \cup {Port(r)} /\ disturbed' = disturbed \cup {r}
    /\ UNCHANGED <<host, rows, runtime, executor, want, former, pid, origin, spoilt>>

Executes(r) ==
    \/ WriteRecord(r) \/ WriteIndex(r) \/ Raise(r) \/ Call(r) \/ Return(r)
    \/ Timeout(r) \/ Refresh(r) \/ Refuse(r)
    \/ \E k \in Kind : PutRow(r, k) \/ Lose(r, k) \/ Undo(r, k)
    \/ Undone(r) \/ Unrecord(r) \/ Unindex(r) \/ Report(r)
    \/ DropRow(r) \/ Unlink(r) \/ Unlist(r)

Works(r) ==
    \/ Look(r) \/ InstallAgain(r) \/ Install(r) \/ Mark(r) \/ Stop(r)
    \/ Spawn(r) \/ Ready(r) \/ LaunchFails(r) \/ DirectoryGone(r)
    \/ StopKnown(r) \/ Erase(r) \/ Leave(r)

Next ==
    \/ \E r \in Runs : \/ Executes(r) \/ Works(r) \/ Kill(r) \/ KillWorker(r)
                       \/ \E j \in Commands : Begin(r, j)
    \/ \E p \in Pids : Bind(p) \/ Death(p)

Spec == Init /\ [][Next]_vars

-------------------------------------------------------------------------------
(* Properties.                                                             *)

(* A run that fails and reports that its rollback passed leaves the        *)
(* records, the index and the gateway as it found them, whatever step      *)
(* failed, unless it overlapped another or missed an answer.  If its       *)
(* bridge was replaced, the version that was served is served again.       *)
FailureRestores ==
    [][\A r \in Runs :
         Report(r) /\ r \in clean /\ r \notin disturbed
         => /\ record = origin[r].record /\ index = origin[r].index
            /\ rows = origin[r].rows
            /\ \A s \in Services :
                 /\ s = Service(r) /\ saved[r].stage = "registration"
                 /\ origin[r].record[s] # Nothing
                 /\ origin[r].served[s] = origin[r].record[s]
                 /\ s \notin spoilt /\ PortOf[s] \notin strayed
                 => Served(s) = origin[r].record[s]]_vars

(* Every part of the service is at the version.                            *)
Whole(s, v) ==
    /\ record[s] = v /\ index[s] = v /\ state[s].version = v
    /\ \A k \in Kind : rows[k][s] = v

(* A run that succeeds leaves every part of the service at its version,    *)
(* whatever earlier runs left half done, and a bridge of it that listens,  *)
(* unless one has strayed on its port or it has ended by itself after it   *)
(* was brought up: a bridge of this version, but for an install that was   *)
(* interrupted.                                                            *)
SuccessIsWhole ==
    [][\A r \in Runs, s \in Services, v \in Versions :
         /\ PutRow(r, "server") /\ r \notin disturbed
         /\ s = Service(r) /\ v = job[r].version
         => /\ Whole(s, v)'
            /\ PortOf[s] \notin strayed /\ origin[r].served[s] # Died
               => Served(s) # Nothing /\ (s \notin spoilt => Served(s) = v)]_vars

(* A delete none of whose steps failed leaves nothing of the service, but  *)
(* for a record that no index entry named.                                 *)
DeleteIsClean ==
    [][\A r \in Runs, s \in Services :
         /\ Unlist(r) /\ r \in clean /\ r \notin disturbed /\ s = Service(r)
         => /\ record[s] # Nothing => origin[r].index[s] = Nothing
            /\ index'[s] = Nothing /\ state[s] = NoState
            /\ \A k \in Kind : rows[k][s] = Nothing
            /\ PortOf[s] \notin strayed => Served(s) = Nothing]_vars

(* Every bridge is the one of its service's runtime state or the one a     *)
(* runtime command is about to record: what delete and the next apply do   *)
(* not know of they cannot stop.                                           *)
BridgesAccounted ==
    \A p \in Pids :
        Alive(p) /\ PortOf[bridge[p].service] \notin strayed
        => \/ state[bridge[p].service].pid = p
           \/ \E r \in Runs : pid[r] = p

(* Two services whose endpoints have one port are never both registered,   *)
(* however runs overlap and fail: each run writes its record before it     *)
(* looks for others.  Three things blind it: an update of the index that   *)
(* is lost, two runs of one service at once, which take the record from    *)
(* each other, and a run that has given up on its command and takes the    *)
(* record back while the command goes on.                                  *)
OneGatewayPerPort ==
    \A s, t \in Services :
        s # t /\ PortOf[s] = PortOf[t] /\ PortOf[s] \notin blind
        => rows["gateway"][s] = Nothing \/ rows["gateway"][t] = Nothing
===============================================================================
