----------------------------- MODULE NpmHostProofs -----------------------------
(***************************************************************************)
(* Theorems about NpmHost, for any runs, services, versions, ports,        *)
(* process ids and bounds.  Executors and runtime commands of one run are  *)
(* two processes; a run works as long as one of them does.                 *)
(***************************************************************************)
EXTENDS NpmHost, TLAPS

Over == {"none", "done", "failed"}
Launching == {"install", "mark", "stop", "launch", "ready",
              "back", "remark", "relaunch", "reready"}
Replaced == {"launch", "ready", "back", "remark", "relaunch", "reready"}
ApplyLabel == {"upsert", "index", "runtime", "wait", "gateway", "refresh", "resource",
               "server", "undo", "unrecord", "unindex", "reset", "settle", "report"}
DeleteLabel == {"unserver", "unresource", "ungateway", "discard", "gone", "unlink", "unlist"}
Waiting == {"wait", "settle", "gone"}
Registering == {"refresh", "resource", "server", "undo"}

Working(r) == pc[r] # "idle" \/ wpc[r] \notin Over

-------------------------------------------------------------------------------
(* The two processes of a run are in step: which labels go with which      *)
(* command, and where one may be while the other is somewhere.             *)
InStep(r) ==
    /\ pc[r] \in ApplyLabel => job[r].op = "apply"
    /\ pc[r] \in DeleteLabel => job[r].op = "delete" /\ wpc[r] \notin Launching \cup {"look"}
    /\ wpc[r] # "none" => pc[r] \in Waiting \cup {"idle", "unrecord", "unindex", "report",
                                                  "unlink", "unlist"}
    /\ pc[r] = "wait" => wpc[r] \notin {"none", "clear", "erase", "partial"}
    /\ pc[r] \in {"unrecord", "unindex"} /\ wpc[r] # "none" => saved[r].stage = "runtime"
    /\ pc[r] \notin Registering \cup {"gateway", "unrecord", "unindex", "reset", "settle", "report"}
       => saved[r].stage = "runtime"
    /\ pc[r] \notin Registering => saved[r].rows["gateway"] = Untouched
    /\ pid[r] # Nothing => wpc[r] \in {"ready", "reready", "failed"}
    /\ wpc[r] \in {"none", "look"} => former[r] = NoState

StepInv == TypeOK /\ \A r \in Runs : InStep(r)

-------------------------------------------------------------------------------
(* Bridges.                                                                *)

Alone(r) == Working(r) /\ Port(r) \notin strayed => Busy = {r}

(* What a runtime command has launched is a bridge of its service, and     *)
(* what it was killed over is astray.                                      *)
OwnBridge(r) ==
    pid[r] # Nothing /\ Alive(pid[r])
    => /\ wpc[r] \in {"ready", "reready"} => bridge[pid[r]].service = Service(r)
       /\ wpc[r] = "failed" => PortOf[bridge[pid[r]].service] \in strayed

(* Before it writes or removes a runtime state the bridge of the former    *)
(* one has been stopped.                                                   *)
FormerStopped(r) ==
    Port(r) \notin strayed
    => /\ wpc[r] \in Replaced \cup {"erase", "partial"} => ~ Running(Service(r))
       /\ wpc[r] \in {"install", "mark", "stop"} /\ Running(Service(r))
          => former[r].pid = state[Service(r)].pid

BridgeInv ==
    /\ \A r \in Runs : Alone(r) /\ OwnBridge(r) /\ FormerStopped(r)
    /\ BridgesAccounted

(* Who listens on a port is a bridge that belongs there.                   *)
ListenInv ==
    \A n \in Ports : listener[n] # Nothing
                     => Alive(listener[n]) /\ PortOf[bridge[listener[n]].service] = n

-------------------------------------------------------------------------------
(* Gateway rows.                                                           *)

(* A run has passed the look for conflicts.                                *)
Passed(r) ==
    wpc[r] \in Launching \/ (pc[r] = "wait" /\ wpc[r] = "done") \/ pc[r] = "gateway"
Recorded(s) == index[s] # Nothing /\ record[s] # Nothing
Active(s) == Running(s) \/ \E r \in Runs : Service(r) = s /\ Passed(r)

Unshared == \A r, q \in Runs : r # q /\ Working(r) /\ Working(q) /\ Service(r) = Service(q)
                               => Port(r) \in blind
Orphaned == \A r \in Runs : wpc[r] \notin Over /\ pc[r] \in {"unrecord", "unindex"}
                            => Port(r) \in blind
PassedRecorded == \A r \in Runs : Passed(r) => Port(r) \in blind \/ Recorded(Service(r))
Noticed == \A r \in Runs : saved[r].rows["gateway"] \notin {Untouched, Nothing}
                           => Port(r) \in blind \/ rows["gateway"][Service(r)] # Nothing
Rivals(s, t) == s # t /\ PortOf[s] = PortOf[t] /\ PortOf[s] \notin blind
OneActive == \A s, t \in Services : Rivals(s, t) => ~ (Active(s) /\ Active(t))
OneRow == \A s, t \in Services :
    Rivals(s, t) /\ rows["gateway"][s] # Nothing
    => /\ rows["gateway"][t] = Nothing
       /\ \A r \in Runs : Service(r) = t => pc[r] # "gateway"
GatewayInv == Unshared /\ Orphaned /\ PassedRecorded /\ Noticed /\ OneActive /\ OneRow

-------------------------------------------------------------------------------
(* A quiet run: it has met no other and missed no answer.                  *)
Quiet(r) == pc[r] # "idle" /\ r \notin disturbed

Origin == [record : Files, index : Files, rows : [Kind -> Files],
           served : [Services -> Content \cup {Torn, Died}]]
OriginInv == origin \in [Runs -> Origin]

Solo(r) == Quiet(r) => Busy = {r} /\ (wpc[r] # "none" => pc[r] \in Waiting)

(* What is noted of the gateway, and when.                                 *)
Unnoted(r) == \A k \in Kind :
    saved[r].rows[k] # Untouched
    => \/ pc[r] = "undo"
       \/ k = "gateway" /\ pc[r] \in {"refresh", "resource", "server"}
       \/ k = "resource" /\ pc[r] = "server"

(* A delete: what it has taken away so far.                                *)
Deleting(r) ==
    LET s == Service(r)
    IN  Quiet(r) /\ pc[r] \in DeleteLabel
        => /\ r \in clean =>
                /\ pc[r] # "unserver" => rows["server"][s] = Nothing
                /\ pc[r] \notin {"unserver", "unresource"} => rows["resource"][s] = Nothing
                /\ pc[r] \notin {"unserver", "unresource", "ungateway"} => rows["gateway"][s] = Nothing
                /\ pc[r] \in {"unlink", "unlist"} => state[s] = NoState
           /\ wpc[r] = "done" => state[s] = NoState
           /\ pc[r] # "unlist" => origin[r].index[s] = index[s]
           /\ pc[r] = "unlist" => (record[s] # Nothing => origin[r].index[s] = Nothing)

(* An apply: what it has written, and what it has saved of what was there. *)
Written(r) ==
    LET s == Service(r)
        v == job[r].version
        o == origin[r]
    IN  Quiet(r) /\ pc[r] \in ApplyLabel
        => /\ record = IF pc[r] \in {"upsert", "unindex", "reset", "settle", "report"}
                       THEN o.record ELSE [o.record EXCEPT ![s] = v]
           /\ index = IF pc[r] \in {"upsert", "index", "reset", "settle", "report"}
                      THEN o.index ELSE [o.index EXCEPT ![s] = v]
           /\ pc[r] # "upsert" => saved[r].record = o.record[s] /\ saved[r].index = o.index

Registered(r) ==
    LET s == Service(r)
        v == job[r].version
        o == origin[r]
    IN  Quiet(r) /\ pc[r] \in ApplyLabel
        => /\ pc[r] \in {"refresh", "resource", "server"} => rows["gateway"][s] = v
           /\ pc[r] = "server" => rows["resource"][s] = v
           /\ \A k \in Kind :
                /\ \A t \in Services \ {s} : rows[k][t] = o.rows[k][t]
                /\ r \in clean =>
                     IF saved[r].rows[k] = Untouched THEN rows[k][s] = o.rows[k][s]
                     ELSE saved[r].rows[k] = o.rows[k][s]

(* What its runtime command brings up.                                     *)
Bringing == {"install", "mark", "stop", "launch", "ready"}
Aimed(r) ==
    Quiet(r)
    => /\ wpc[r] \in Bringing => want[r] = record[Service(r)]
       /\ pc[r] = "settle" /\ wpc[r] \in {"clear", "erase", "partial"}
          => origin[r].record[Service(r)] = Nothing
Brought(r) ==
    LET s == Service(r)
        o == origin[r]
    IN  Quiet(r) /\ pc[r] \in ApplyLabel
        => /\ (pc[r] = "wait" /\ wpc[r] = "done")
                 \/ pc[r] \in {"gateway", "refresh", "resource", "server"}
              => /\ state[s].version = job[r].version
                 /\ o.served[s] # Died /\ PortOf[s] \notin strayed => Running(s)
           /\ /\ (pc[r] = "settle" /\ wpc[r] = "done")
                    \/ (pc[r] = "report" /\ r \in clean /\ saved[r].stage = "registration")
              /\ o.record[s] # Nothing /\ o.served[s] \notin {Torn, Died} /\ PortOf[s] \notin strayed
              => state[s].version = o.record[s] /\ Running(s)

QuietInv ==
    /\ OriginInv
    /\ \A r \in Runs : /\ Solo(r) /\ Unnoted(r) /\ Deleting(r) /\ Written(r)
                       /\ Registered(r) /\ Aimed(r) /\ Brought(r)

-------------------------------------------------------------------------------
(* What is installed and what is served.                                   *)

(* The marker tells the tree of a service, unless it may not.              *)
Marked == \A s \in Services : s \notin spoilt /\ PortOf[s] \notin strayed => tree[s] = marker[s]

(* What a runtime command has installed and launched is what it aims at.   *)
Installed(r) ==
    LET s == Service(r)
    IN  Port(r) \notin strayed
        => /\ wpc[r] \in {"mark", "remark"} => tree[s] = Aim(r)
           /\ wpc[r] \in {"stop", "launch", "relaunch"} /\ s \notin spoilt => tree[s] = Aim(r)
           /\ wpc[r] \in {"ready", "reready"} /\ s \notin spoilt /\ Alive(pid[r])
              => bridge[pid[r]].version = Aim(r)

(* While it brings up its service no rival runs.                           *)
RivalsStopped(r) ==
    wpc[r] \in Launching /\ Port(r) \notin strayed
    => \A t \in Services \ {Service(r)} : PortOf[t] = Port(r) => ~ Running(t)

(* The bridge of a service listens, and runs what the state tells.         *)
Listens == \A s \in Services :
    Running(s) /\ PortOf[s] \notin strayed => listener[PortOf[s]] = state[s].pid
Told == \A s \in Services :
    /\ Running(s) /\ s \notin spoilt /\ PortOf[s] \notin strayed
    /\ \A r \in Runs : Service(r) = s => wpc[r] # "stop"
    => bridge[state[s].pid].version = state[s].version

ServeInv == /\ Marked /\ Listens /\ Told
            /\ \A r \in Runs : Installed(r) /\ RivalsStopped(r)

-------------------------------------------------------------------------------
(* Types.                                                                  *)

(* What a job is made of.                                                  *)
LEMMA JobFacts ==
  /\ NoJob \in Job
  /\ \A j \in Job : /\ j.service \in Services /\ j.version \in Content
                    /\ j.op \in {"apply", "delete"}
                    /\ j.op = "apply" => j.version \in Versions
                    /\ j.op = "delete" => j.version = Nothing
<1>1. PICK s \in Services : TRUE
  BY NonemptyAssumption
<1>2. [op |-> "delete", service |-> s, version |-> Nothing] \in Job
  BY DEF Job
<1>3. \E j \in Job : j.op = "delete"
  BY <1>2
<1>4. NoJob \in Job
  BY <1>3 DEF NoJob
<1>5. QED
  BY <1>4 DEF Job, Content

(* What the constants are of.                                              *)
LEMMA ValueTypes ==
  /\ Nothing \in Content /\ NoState \in State
  /\ NothingSaved \in Saved
  /\ \A s \in Services : PortOf[s] \in Ports
  /\ NoBridge \notin Bridge /\ Nothing \notin Pids
<1>1. [s \in Services |-> Nothing] \in Files
  BY DEF Files, Content
<1>2. [k \in Kind |-> Untouched] \in [Kind -> Content \cup {Untouched}]
  OBVIOUS
<1>3. NothingSaved \in Saved
  BY <1>1, <1>2 DEF NothingSaved, Saved, Content
<1>4. NoBridge \notin Bridge
  BY DistinctAssumption DEF NoBridge, Bridge
<1>5. QED
  BY <1>3, <1>4, PortAssumption, DistinctAssumption DEF Content, NoState, State

(* Which label follows which.                                              *)
LEMMA TableFacts ==
  /\ NextLabel["gateway"] = "refresh" /\ NextLabel["resource"] = "server"
  /\ DOMAIN AfterDrop = {"unserver", "unresource", "ungateway"}
  /\ AfterDrop["unserver"] = "unresource" /\ AfterDrop["unresource"] = "ungateway"
  /\ AfterDrop["ungateway"] = "discard"
  /\ Dropped["unserver"] = "server" /\ Dropped["unresource"] = "resource"
  /\ Dropped["ungateway"] = "gateway"
  /\ DOMAIN AfterCall = {"runtime", "reset", "discard"}
  /\ AfterCall["runtime"] = "wait" /\ AfterCall["reset"] = "settle"
  /\ AfterCall["discard"] = "gone"
  /\ AfterReturn["wait"] = "unrecord" /\ AfterReturn["settle"] = "report"
  /\ AfterReturn["gone"] = "unlink"
  /\ AfterInstall["install"] = "stop" /\ AfterInstall["back"] = "relaunch"
  /\ AfterMark["mark"] = "stop" /\ AfterMark["remark"] = "relaunch"
BY DEF NextLabel, AfterDrop, Dropped, AfterCall, AfterReturn, AfterInstall, AfterMark

(* The end of an executor keeps the types.                                 *)
LEMMA EndTypes ==
  ASSUME TypeOK, NEW r \in Runs, Ends(r)
  PROVE  /\ pc' \in [Runs -> Label] /\ job' \in [Runs -> Job]
         /\ saved' \in [Runs -> Saved] /\ clean' \in SUBSET Runs
  BY JobFacts, ValueTypes DEF TypeOK, Ends, Goto, Label

LEMMA DismissTypes ==
  ASSUME TypeOK, NEW r \in Runs, Dismiss(r)
  PROVE  /\ wpc' \in [Runs -> WorkerLabel] /\ want' \in [Runs -> Content]
         /\ former' \in [Runs -> State] /\ pid' \in [Runs -> Pids \cup {Nothing}]
  BY ValueTypes DEF TypeOK, Dismiss, Send, WorkerLabel

LEMMA SpendTypes ==
  ASSUME TypeOK, UNCHANGED spent \/ Trouble
  PROVE  spent' \in [{"command", "trouble"} -> Nat]
  BY LimitAssumption DEF TypeOK, Trouble

(* What a run saves.                                                       *)
LEMMA NotedTypes ==
  ASSUME TypeOK, NEW r \in Runs, NEW k \in Kind, NEW v \in Content \cup {Untouched}
  PROVE  [saved EXCEPT ![r].rows[k] = v] \in [Runs -> Saved]
<1>1. saved[r] \in Saved
  BY DEF TypeOK
<1>2. saved[r].rows \in [Kind -> Content \cup {Untouched}]
  BY <1>1 DEF Saved
<1>3. [saved[r].rows EXCEPT ![k] = v] \in [Kind -> Content \cup {Untouched}]
  BY <1>2
<1>4. [saved[r] EXCEPT !.rows[k] = v] \in Saved
  BY <1>1, <1>3 DEF Saved
<1>5. QED
  BY <1>4 DEF TypeOK

LEMMA RowTypes ==
  ASSUME TypeOK, NEW k \in Kind, NEW s \in Services, NEW v \in Content
  PROVE  [rows EXCEPT ![k][s] = v] \in [Kind -> Files]
<1>1. rows[k] \in Files
  BY DEF TypeOK
<1>2. [rows[k] EXCEPT ![s] = v] \in Files
  BY <1>1 DEF Files
<1>3. QED
  BY <1>2 DEF TypeOK

(* The steps of an executor that write the record and the index.           *)
LEMMA RecordTypes ==
  ASSUME TypeOK, NEW r \in Runs,
         \/ WriteRecord(r) \/ WriteIndex(r) \/ Raise(r) \/ Call(r)
         \/ Unrecord(r) \/ Unindex(r) \/ Report(r) \/ Unlink(r) \/ Unlist(r)
  PROVE  TypeOK'
<1> USE JobFacts, ValueTypes DEF At, Goto, runtime, worker
<1>0. /\ Service(r) \in Services /\ job[r].version \in Content
      /\ saved[r] \in Saved /\ saved[r].index \in Files /\ saved[r].record \in Content
      /\ saved[r].index[Service(r)] \in Content
  BY DEF TypeOK, Service, Saved, Files
<1>1. CASE WriteRecord(r)
  <2>1. [saved[r] EXCEPT !.record = record[Service(r)], !.index = index] \in Saved
    BY <1>0 DEF TypeOK, Saved, Files
  <2>2. saved' \in [Runs -> Saved]
    BY <1>1, <2>1 DEF WriteRecord, TypeOK
  <2>3. record' \in Files
    BY <1>0, <1>1 DEF WriteRecord, TypeOK, Files
  <2>4. QED
    BY <1>1, <2>2, <2>3 DEF WriteRecord, TypeOK, Label
<1>2. CASE WriteIndex(r)
  <2>1. index' \in Files
    BY <1>0, <1>2 DEF WriteIndex, Reindex, Files
  <2>2. blind' \in SUBSET Ports
    BY <1>2 DEF WriteIndex, Reindex, TypeOK
  <2>3. QED
    BY <1>2, <2>1, <2>2 DEF WriteIndex, TypeOK, Label
<1>3. CASE Raise(r)
  BY <1>3, EndTypes, SpendTypes DEF Raise, TypeOK, host
<1>4. CASE Call(r)
  <2>1. pc' \in [Runs -> Label]
    BY <1>4 DEF Call, AfterCall, TypeOK, Label
  <2>2. wpc' \in [Runs -> WorkerLabel]
    BY <1>4 DEF Call, TypeOK, Send, WorkerLabel
  <2>3. QED
    BY <1>4, <2>1, <2>2 DEF Call, TypeOK, host
<1>5. CASE Unrecord(r)
  <2>1. record' \in Files
    BY <1>0, <1>5 DEF Unrecord, TypeOK, Files
  <2>2. QED
    BY <1>5, <2>1 DEF Unrecord, TypeOK, Label
<1>6. CASE Unindex(r)
  <2>1. index' \in Files
    BY <1>0, <1>6 DEF Unindex, Reindex, Files, TypeOK
  <2>2. blind' \in SUBSET Ports
    BY <1>6 DEF Unindex, Reindex, TypeOK
  <2>3. QED
    BY <1>6, <2>1, <2>2 DEF Unindex, TypeOK, Label
<1>7. CASE Report(r)
  BY <1>7, EndTypes DEF Report, TypeOK, host
<1>8. CASE Unlink(r)
  <2>1. [saved[r] EXCEPT !.index = index] \in Saved
    BY <1>0 DEF TypeOK, Saved, Files
  <2>2. saved' \in [Runs -> Saved]
    BY <1>8, <2>1 DEF Unlink, TypeOK
  <2>3. record' \in Files
    BY <1>0, <1>8 DEF Unlink, TypeOK, Files
  <2>4. QED
    BY <1>8, <2>2, <2>3 DEF Unlink, TypeOK, Label
<1>9. CASE Unlist(r)
  <2>1. index' \in Files
    BY <1>0, <1>9 DEF Unlist, Reindex, Files, TypeOK
  <2>2. blind' \in SUBSET Ports
    BY <1>9 DEF Unlist, Reindex, TypeOK
  <2>3. QED
    BY <1>9, <2>1, <2>2, EndTypes DEF Unlist, TypeOK
<1>10. QED
  BY <1>1, <1>2, <1>3, <1>4, <1>5, <1>6, <1>7, <1>8, <1>9

(* The steps of an executor at the gateway, and its wait.                  *)
LEMMA GatewayTypes ==
  ASSUME TypeOK, NEW r \in Runs,
         \/ Return(r) \/ Timeout(r) \/ Refresh(r) \/ Refuse(r)
         \/ \E k \in Kind : PutRow(r, k) \/ Lose(r, k) \/ Undo(r, k)
         \/ Undone(r) \/ DropRow(r)
  PROVE  TypeOK'
<1> USE JobFacts, ValueTypes DEF At, Goto, runtime, worker
<1>0. /\ Service(r) \in Services /\ job[r].version \in Content /\ saved[r] \in Saved
  BY DEF TypeOK, Service
<1>1. CASE Return(r)
  <2>1. pc' \in [Runs -> Label] /\ job' \in [Runs -> Job]
    BY <1>1, EndTypes DEF Return, TypeOK, AfterReturn, Label
  <2>2. saved' \in [Runs -> Saved] /\ clean' \in SUBSET Runs
    <3>1. [saved[r] EXCEPT !.stage = "registration"] \in Saved
      BY <1>0 DEF Saved
    <3>2. [saved EXCEPT ![r].stage = "registration"] \in [Runs -> Saved]
      BY <3>1 DEF TypeOK
    <3>3. QED
      BY <1>1, <3>2, EndTypes DEF Return, TypeOK
  <2>3. spent' \in [{"command", "trouble"} -> Nat]
    BY <1>1, SpendTypes DEF Return
  <2>4. QED
    BY <1>1, <2>1, <2>2, <2>3, DismissTypes DEF Return, TypeOK, host
<1>2. CASE Timeout(r)
  <2>1. Port(r) \in Ports
    BY <1>0 DEF Port
  <2>2. spent' \in [{"command", "trouble"} -> Nat]
    BY <1>2, SpendTypes DEF Timeout
  <2>3. /\ pc' \in [Runs -> Label] /\ disturbed' \in SUBSET Runs /\ strayed' \in SUBSET Ports
        /\ clean' \in SUBSET Runs /\ blind' \in SUBSET Ports
    BY <1>2, <2>1 DEF Timeout, TypeOK, AfterReturn, Label
  <2>4. QED
    BY <1>2, <2>2, <2>3 DEF Timeout, TypeOK
<1>3. CASE Refresh(r)
  BY <1>3 DEF Refresh, TypeOK, Label, host
<1>4. CASE Refuse(r)
  <2>1. saved' \in [Runs -> Saved]
    <3>1. CASE saved' = saved
      BY <3>1 DEF TypeOK
    <3>2. CASE saved' # saved
      <4>1. saved' = Noted(r, pc[r]) /\ pc[r] \in Kind
        BY <1>4, <3>2 DEF Refuse, Kind
      <4>2. rows[pc[r]][Service(r)] \in Content
        BY <1>0, <4>1 DEF TypeOK, Files
      <4>3. QED
        BY <4>1, <4>2, NotedTypes DEF Noted
    <3>3. QED
      BY <3>1, <3>2
  <2>2. spent' \in [{"command", "trouble"} -> Nat]
    BY <1>4, SpendTypes DEF Refuse
  <2>3. QED
    BY <1>4, <2>1, <2>2 DEF Refuse, TypeOK, Label, host
<1>5. CASE \E k \in Kind : PutRow(r, k)
  <2>1. PICK k \in Kind : PutRow(r, k)
    BY <1>5
  <2>2. rows' \in [Kind -> Files]
    BY <1>0, <2>1, RowTypes DEF PutRow, Put
  <2>3. CASE k = "server"
    BY <2>1, <2>2, <2>3, EndTypes DEF PutRow, TypeOK, host
  <2>4. CASE k # "server"
    <3>1. rows[k][Service(r)] \in Content
      BY <1>0 DEF TypeOK, Files
    <3>2. saved' \in [Runs -> Saved]
      <4>1. Noted(r, k) \in [Runs -> Saved]
        BY <3>1, NotedTypes DEF Noted
      <4>2. QED
        BY <2>1, <2>4, <4>1 DEF PutRow, TypeOK
    <3>3. NextLabel[k] \in Label
      BY <2>4, TableFacts DEF Label, Kind
    <3>5. pc' \in [Runs -> Label]
      BY <2>1, <2>4, <3>3 DEF PutRow, TypeOK
    <3>4. QED
      BY <2>1, <2>2, <2>4, <3>2, <3>5 DEF PutRow, TypeOK, host
  <2>5. QED
    BY <2>3, <2>4
<1>6. CASE \E k \in Kind : Lose(r, k)
  <2>1. PICK k \in Kind : Lose(r, k)
    BY <1>6
  <2>2. rows' \in [Kind -> Files]
    BY <1>0, <2>1, RowTypes DEF Lose, Put
  <2>3. spent' \in [{"command", "trouble"} -> Nat]
    BY <2>1, SpendTypes DEF Lose
  <2>4. QED
    BY <2>1, <2>2, <2>3 DEF Lose, TypeOK, host, Label
<1>7. CASE \E k \in Kind : Undo(r, k)
  <2>1. PICK k \in Kind : Undo(r, k)
    BY <1>7
  <2>2. saved' \in [Runs -> Saved]
    BY <2>1, NotedTypes DEF Undo
  <2>3. saved[r].rows[k] \in Content \/ rows' = rows
    <3>1. k \in ToUndo(r) /\ saved[r].rows \in [Kind -> Content \cup {Untouched}]
      BY <1>0, <2>1 DEF Undo, First, Saved
    <3>2. QED
      BY <3>1 DEF ToUndo
  <2>4. rows' \in [Kind -> Files]
    BY <1>0, <2>1, <2>3, RowTypes DEF Undo, TypeOK
  <2>5. spent' \in [{"command", "trouble"} -> Nat]
    BY <2>1, SpendTypes DEF Undo
  <2>6. QED
    BY <2>1, <2>2, <2>4, <2>5 DEF Undo, TypeOK, host
<1>8. CASE Undone(r)
  BY <1>8 DEF Undone, TypeOK, Label, host
<1>9. CASE DropRow(r)
  <2>1. pc[r] \in DOMAIN AfterDrop /\ Dropped[pc[r]] \in Kind /\ AfterDrop[pc[r]] \in Label
    BY <1>9, TableFacts DEF DropRow, Kind, Label
  <2>2. rows' \in [Kind -> Files]
    <3>1. [rows EXCEPT ![Dropped[pc[r]]][Service(r)] = Nothing] \in [Kind -> Files]
      BY <1>0, <2>1, RowTypes
    <3>2. QED
      BY <1>9, <3>1 DEF DropRow, TypeOK
  <2>3. spent' \in [{"command", "trouble"} -> Nat]
    BY <1>9, SpendTypes DEF DropRow
  <2>4. QED
    BY <1>9, <2>1, <2>2, <2>3 DEF DropRow, TypeOK, host
<1>10. QED
  BY <1>1, <1>2, <1>3, <1>4, <1>5, <1>6, <1>7, <1>8, <1>9

(* The steps of a runtime command.                                         *)
LEMMA WorkTypes ==
  ASSUME TypeOK, NEW r \in Runs, Works(r)
  PROVE  TypeOK'
<1> USE JobFacts, ValueTypes, TableFacts DEF In, Send, host, executor
<1>0. /\ Service(r) \in Services
      /\ tree[Service(r)] \in Content \cup {Torn}
      /\ state[Service(r)] \in State /\ former[r] \in State /\ want[r] \in Content
      /\ former[r].version \in Content /\ Aim(r) \in Content
      /\ record[Service(r)] \in Content
  BY DEF TypeOK, Service, State, Aim, Files
<1>1. CASE Look(r)
  <2>1. wpc' \in [Runs -> WorkerLabel]
    BY <1>1 DEF Look, TypeOK, WorkerLabel
  <2>2. want' \in [Runs -> Content] /\ former' \in [Runs -> State]
    BY <1>0, <1>1 DEF Look, TypeOK
  <2>3. QED
    BY <1>1, <2>1, <2>2 DEF Look, TypeOK, runtime
<1>2. CASE InstallAgain(r)
  <2>1. wpc' \in [Runs -> WorkerLabel]
    BY <1>2 DEF InstallAgain, TypeOK, WorkerLabel
  <2>2. QED
    BY <1>2, <2>1 DEF InstallAgain, TypeOK, runtime
<1>3. CASE Install(r)
  <2>1. wpc' \in [Runs -> WorkerLabel]
    BY <1>3 DEF Install, TypeOK, WorkerLabel
  <2>2. tree' \in [Services -> Content \cup {Torn}]
    BY <1>0, <1>3 DEF Install, TypeOK
  <2>3. spent' \in [{"command", "trouble"} -> Nat] /\ spoilt' \in SUBSET Services
    BY <1>0, <1>3, SpendTypes DEF Install, TypeOK
  <2>4. QED
    BY <1>3, <2>1, <2>2, <2>3 DEF Install, TypeOK
<1>4. CASE Mark(r)
  <2>1. wpc' \in [Runs -> WorkerLabel]
    BY <1>4 DEF Mark, TypeOK, WorkerLabel
  <2>2. marker' \in Files /\ spoilt' \in SUBSET Services
    BY <1>0, <1>4 DEF Mark, TypeOK, Files
  <2>3. QED
    BY <1>4, <2>1, <2>2 DEF Mark, TypeOK
<1>5. CASE Stop(r)
  <2>1. wpc' \in [Runs -> WorkerLabel]
    BY <1>5 DEF Stop, TypeOK, WorkerLabel
  <2>2. bridge' \in [Pids -> Bridge \cup {NoBridge}] /\ listener' \in [Ports -> Pids \cup {Nothing}]
    BY <1>5 DEF Stop, TypeOK, Killed
  <2>3. former' \in [Runs -> State] /\ spent' \in [{"command", "trouble"} -> Nat]
    BY <1>5, SpendTypes DEF Stop, TypeOK
  <2>4. QED
    BY <1>5, <2>1, <2>2, <2>3 DEF Stop, TypeOK
<1>6. CASE Spawn(r)
  <2>1. wpc' \in [Runs -> WorkerLabel]
    BY <1>6 DEF Spawn, TypeOK, WorkerLabel
  <2>2. (CHOOSE p \in Unused : TRUE) \in Pids
    BY <1>6 DEF Spawn, Unused
  <2>3. [service |-> Service(r), version |-> tree[Service(r)]] \in Bridge
    BY <1>0, <1>6 DEF Spawn, Bridge, Content
  <2>4. bridge' \in [Pids -> Bridge \cup {NoBridge}] /\ pid' \in [Runs -> Pids \cup {Nothing}]
    BY <1>6, <2>2, <2>3 DEF Spawn, TypeOK
  <2>5. QED
    BY <1>6, <2>1, <2>4 DEF Spawn, TypeOK
<1>7. CASE Ready(r)
  <2>1. wpc' \in [Runs -> WorkerLabel]
    BY <1>7 DEF Ready, TypeOK, WorkerLabel
  <2>2. [version |-> Aim(r), pid |-> pid[r]] \in State
    BY <1>0 DEF TypeOK, State
  <2>3. QED
    BY <1>0, <1>7, <2>1, <2>2 DEF Ready, TypeOK
<1>8. CASE LaunchFails(r)
  <2>1. wpc' \in [Runs -> WorkerLabel]
    BY <1>8 DEF LaunchFails, TypeOK, WorkerLabel
  <2>2. bridge' \in [Pids -> Bridge \cup {NoBridge}] /\ listener' \in [Ports -> Pids \cup {Nothing}]
    BY <1>8 DEF LaunchFails, TypeOK, Killed
  <2>3. spent' \in [{"command", "trouble"} -> Nat]
    BY <1>8, SpendTypes DEF LaunchFails
  <2>4. QED
    BY <1>8, <2>1, <2>2, <2>3 DEF LaunchFails, TypeOK
<1>9. CASE DirectoryGone(r)
  <2>1. wpc' \in [Runs -> WorkerLabel]
    BY <1>9 DEF DirectoryGone, TypeOK, WorkerLabel
  <2>2. QED
    BY <1>9, <2>1 DEF DirectoryGone, TypeOK, runtime
<1>10. CASE StopKnown(r)
  <2>1. wpc' \in [Runs -> WorkerLabel]
    BY <1>10 DEF StopKnown, TypeOK, WorkerLabel
  <2>2. bridge' \in [Pids -> Bridge \cup {NoBridge}] /\ listener' \in [Ports -> Pids \cup {Nothing}]
    BY <1>10 DEF StopKnown, TypeOK, Killed
  <2>3. spent' \in [{"command", "trouble"} -> Nat]
    BY <1>10, SpendTypes DEF StopKnown
  <2>4. QED
    BY <1>10, <2>1, <2>2, <2>3 DEF StopKnown, TypeOK
<1>11. CASE Erase(r)
  <2>1. wpc' \in [Runs -> WorkerLabel]
    BY <1>11 DEF Erase, TypeOK, WorkerLabel
  <2>2. /\ state' \in [Services -> State] /\ marker' \in Files
        /\ tree' \in [Services -> Content \cup {Torn}] /\ spoilt' \in SUBSET Services
    BY <1>0, <1>11 DEF Erase, TypeOK, Files
  <2>3. QED
    BY <1>11, <2>1, <2>2 DEF Erase, TypeOK
<1>12. CASE Leave(r)
  BY <1>12, DismissTypes DEF Leave, TypeOK, runtime, history
<1>13. QED
  BY <1>1, <1>2, <1>3, <1>4, <1>5, <1>6, <1>7, <1>8, <1>9, <1>10, <1>11, <1>12 DEF Works

(* What happens around the commands.                                       *)
LEMMA AroundTypes ==
  ASSUME TypeOK,
         \/ \E r \in Runs : Kill(r) \/ KillWorker(r) \/ \E j \in Commands : Begin(r, j)
         \/ \E p \in Pids : Bind(p) \/ Death(p)
  PROVE  TypeOK'
<1> USE JobFacts, ValueTypes DEF host, runtime, executor, worker, history
<1>1. CASE \E r \in Runs : Kill(r)
  <2>1. PICK r \in Runs : Kill(r)
    BY <1>1
  <2>2. QED
    BY <2>1, EndTypes, SpendTypes DEF Kill, TypeOK
<1>2. CASE \E r \in Runs : KillWorker(r)
  <2>1. PICK r \in Runs : KillWorker(r)
    BY <1>2
  <2>2. Port(r) \in Ports
    BY DEF TypeOK, Port, Service
  <2>3. wpc' \in [Runs -> WorkerLabel]
    BY <2>1 DEF KillWorker, TypeOK, Send, WorkerLabel
  <2>4. QED
    BY <2>1, <2>2, <2>3, SpendTypes DEF KillWorker, TypeOK
<1>3. CASE \E r \in Runs : \E j \in Commands : Begin(r, j)
  <2>1. PICK r \in Runs : \E j \in Commands : Begin(r, j)
    BY <1>3
  <2>a. PICK j \in Commands : Begin(r, j)
    BY <2>1
  <2>2. j \in Job /\ PortOf[j.service] \in Ports
    BY CommandAssumption
  <2>3. \A g \in Runs : Port(g) \in Ports
    BY DEF TypeOK, Port, Service
  <2>4. spent' \in [{"command", "trouble"} -> Nat]
    BY <2>a DEF Begin, TypeOK
  <2>5. pc' \in [Runs -> Label] /\ job' \in [Runs -> Job]
    BY <2>a, <2>2 DEF Begin, TypeOK, Label
  <2>6. disturbed' \in SUBSET Runs /\ strayed' \in SUBSET Ports /\ blind' \in SUBSET Ports
    BY <2>a, <2>2, <2>3 DEF Begin, TypeOK, Busy
  <2>7. QED
    BY <2>a, <2>4, <2>5, <2>6 DEF Begin, TypeOK
<1>4. CASE \E p \in Pids : Bind(p)
  <2>1. PICK p \in Pids : Bind(p)
    BY <1>4
  <2>2. bridge' \in [Pids -> Bridge \cup {NoBridge}] /\ listener' \in [Ports -> Pids \cup {Nothing}]
    BY <2>1 DEF Bind, TypeOK
  <2>3. QED
    BY <2>1, <2>2 DEF Bind, TypeOK
<1>5. CASE \E p \in Pids : Death(p)
  <2>1. PICK p \in Pids : Death(p)
    BY <1>5
  <2>2. bridge' \in [Pids -> Bridge \cup {NoBridge}] /\ listener' \in [Ports -> Pids \cup {Nothing}]
    BY <2>1 DEF Death, TypeOK, Killed
  <2>3. QED
    BY <2>1, <2>2, SpendTypes DEF Death, TypeOK
<1>6. QED
  BY <1>1, <1>2, <1>3, <1>4, <1>5

LEMMA TypeInit == Init => TypeOK
<1>1. SUFFICES ASSUME Init PROVE TypeOK
  OBVIOUS
<1>2. [s \in Services |-> Nothing] \in Files /\ Nothing \in Content /\ NoState \in State
  BY ValueTypes DEF Files
<1>3. QED
  BY <1>1, <1>2, JobFacts, ValueTypes DEF Init, TypeOK, Files, Label, WorkerLabel

LEMMA TypeStep == TypeOK /\ [Next]_vars => TypeOK'
<1>1. ASSUME TypeOK, UNCHANGED vars PROVE TypeOK'
  BY <1>1 DEF TypeOK, vars, host, runtime, executor, worker, history
<1>2. ASSUME TypeOK, NEW r \in Runs, Executes(r) PROVE TypeOK'
  BY <1>2, RecordTypes, GatewayTypes DEF Executes
<1>3. QED
  BY <1>1, <1>2, WorkTypes, AroundTypes DEF Next

(* Every variable keeps its type.                                          *)
THEOREM Typing == Spec => []TypeOK
<1>1. QED
  BY TypeInit, TypeStep, PTL DEF Spec

-------------------------------------------------------------------------------
(* The two processes of a run.                                             *)

StillIs(q) == UNCHANGED <<pc[q], job[q], saved[q], wpc[q], want[q], former[q], pid[q]>>

Moves(r) == Executes(r) \/ Works(r) \/ Kill(r) \/ KillWorker(r) \/ \E j \in Commands : Begin(r, j)

LEMMA NextMoves ==
  ASSUME Next
  PROVE  (\E r \in Runs : Moves(r)) \/ (\E p \in Pids : Bind(p) \/ Death(p))
BY DEF Next, Moves

(* A step of one run leaves the others where they are.                     *)
LEMMA OthersStay ==
  ASSUME TypeOK, NEW r \in Runs, Moves(r), NEW q \in Runs, q # r
  PROVE  StillIs(q)
<1> USE DEF At, In, Goto, Send, runtime, worker, host, executor, Ends, Dismiss, StillIs
<1>1. CASE \/ WriteRecord(r) \/ WriteIndex(r) \/ Raise(r) \/ Call(r)
           \/ Unrecord(r) \/ Unindex(r) \/ Report(r) \/ Unlink(r) \/ Unlist(r)
  BY <1>1 DEF TypeOK, WriteRecord, WriteIndex, Raise, Call, Unrecord, Unindex, Report, Unlink, Unlist
<1>2. CASE Return(r) \/ Timeout(r) \/ Refresh(r) \/ Refuse(r) \/ Undone(r) \/ DropRow(r)
  BY <1>2 DEF TypeOK, Return, Timeout, Refresh, Refuse, Undone, DropRow, Noted
<1>3. CASE \E k \in Kind : PutRow(r, k) \/ Lose(r, k) \/ Undo(r, k)
  BY <1>3 DEF TypeOK, PutRow, Lose, Undo, Noted
<1>4. CASE Works(r)
  BY <1>4 DEF TypeOK, Works, Look, InstallAgain, Install, Mark, Stop, Spawn, Ready, LaunchFails,
       DirectoryGone, StopKnown, Erase, Leave
<1>5. CASE Kill(r) \/ KillWorker(r) \/ \E j \in Commands : Begin(r, j)
  BY <1>5 DEF TypeOK, Kill, KillWorker, Begin
<1>6. QED
  BY <1>1, <1>2, <1>3, <1>4, <1>5 DEF Moves, Executes

LEMMA StillInStep ==
  ASSUME NEW q \in Runs, InStep(q), StillIs(q)
  PROVE  InStep(q)'
BY DEF InStep, StillIs

LEMMA EndInStep ==
  ASSUME TypeOK, NEW r \in Runs, InStep(r), Ends(r), UNCHANGED worker
  PROVE  InStep(r)'
<1>1. /\ pc'[r] = "idle" /\ saved'[r] = NothingSaved
      /\ wpc'[r] = wpc[r] /\ former'[r] = former[r] /\ pid'[r] = pid[r]
  BY DEF TypeOK, Ends, Goto, worker
<1>2. NothingSaved.stage = "runtime" /\ NothingSaved.rows["gateway"] = Untouched
  BY DEF NothingSaved, Kind
<1>3. QED
  BY <1>1, <1>2 DEF InStep, ApplyLabel, DeleteLabel, Waiting, Registering

(* The executor's own step leaves its run in step.                         *)
LEMMA ExecutorInStep ==
  ASSUME StepInv, NEW r \in Runs, Executes(r)
  PROVE  InStep(r)'
<1> USE JobFacts, TableFacts DEF At, Goto, ApplyLabel, DeleteLabel, Waiting, Registering,
        Launching, runtime, worker, host
<1>0. TypeOK /\ InStep(r)
  BY DEF StepInv
<1>1. CASE WriteRecord(r)
  <2>1. /\ saved'[r].stage = saved[r].stage
        /\ saved'[r].rows = saved[r].rows
    BY <1>0, <1>1 DEF WriteRecord, TypeOK, Saved
  <2>2. QED
    BY <1>0, <1>1, <2>1 DEF WriteRecord, TypeOK, InStep
<1>2. CASE WriteIndex(r) \/ Unrecord(r) \/ Undone(r) \/ Refresh(r)
  BY <1>0, <1>2 DEF WriteIndex, Unrecord, Undone, Refresh, TypeOK, InStep, ToUndo, Kind
<1>3. CASE Raise(r) \/ Report(r) \/ Unlist(r)
  BY <1>0, <1>3, EndInStep DEF Raise, Report, Unlist
<1>4. CASE Call(r)
  BY <1>0, <1>4 DEF Call, Send, TypeOK, InStep
<1>5. CASE Return(r)
  <2>1. wpc'[r] = "none" /\ former'[r] = NoState /\ pid'[r] = Nothing
    BY <1>0, <1>5 DEF Return, Dismiss, Send, TypeOK
  <2>2. CASE pc[r] = "wait" /\ wpc[r] = "done"
    <3>1. CASE Ends(r)
      <4>1. pc'[r] = "idle" /\ saved'[r] = NothingSaved
        BY <1>0, <3>1 DEF Ends, TypeOK
      <4>2. NothingSaved.stage = "runtime" /\ NothingSaved.rows["gateway"] = Untouched
        BY DEF NothingSaved, Kind
      <4>3. QED
        BY <2>1, <4>1, <4>2 DEF InStep
    <3>2. CASE ~ Ends(r)
      <4>1. /\ pc'[r] \in {"undo", "gateway"} /\ job'[r] = job[r]
            /\ saved'[r].stage = "registration" /\ saved'[r].rows = saved[r].rows
        BY <1>0, <1>5, <2>2, <3>2 DEF Return, TypeOK, Saved
      <4>2. QED
        BY <1>0, <2>1, <2>2, <4>1 DEF InStep
    <3>3. QED
      BY <3>1, <3>2
  <2>3. CASE ~ (pc[r] = "wait" /\ wpc[r] = "done")
    <3>1. /\ pc'[r] = AfterReturn[pc[r]] /\ job'[r] = job[r] /\ saved'[r] = saved[r]
      BY <1>0, <1>5, <2>3 DEF Return, TypeOK
    <3>2. QED
      BY <1>0, <1>5, <2>1, <2>3, <3>1 DEF Return, InStep
  <2>4. QED
    BY <2>2, <2>3
<1>6. CASE Timeout(r)
  BY <1>0, <1>6 DEF Timeout, TypeOK, InStep
<1>7. CASE Refuse(r)
  <2>1. saved'[r].stage = saved[r].stage
    BY <1>0, <1>7 DEF Refuse, Noted, TypeOK, Saved
  <2>2. pc'[r] = "undo" /\ job'[r] = job[r]
    BY <1>0, <1>7 DEF Refuse, TypeOK
  <2>3. wpc'[r] = wpc[r] /\ former'[r] = former[r] /\ pid'[r] = pid[r]
    BY <1>7 DEF Refuse
  <2>4. QED
    BY <1>0, <1>7, <2>1, <2>2, <2>3 DEF Refuse, InStep
<1>8. CASE \E k \in Kind : PutRow(r, k) \/ Lose(r, k) \/ Undo(r, k)
  <2>1. PICK k \in Kind : PutRow(r, k) \/ Lose(r, k) \/ Undo(r, k)
    BY <1>8
  <2>2. CASE k = "server" /\ PutRow(r, k)
    BY <1>0, <2>2, EndInStep DEF PutRow
  <2>3. CASE ~ (k = "server" /\ PutRow(r, k))
    <3>1. saved'[r].stage = saved[r].stage
      BY <1>0, <2>1, <2>3 DEF PutRow, Lose, Undo, Noted, TypeOK, Saved
    <3>2. /\ pc'[r] \in Registering /\ job'[r] = job[r]
          /\ pc[r] \in Registering \cup {"gateway"}
      BY <1>0, <2>1, <2>3 DEF PutRow, Lose, Undo, TypeOK, Kind
    <3>3. wpc'[r] = wpc[r] /\ former'[r] = former[r] /\ pid'[r] = pid[r]
      BY <2>1 DEF PutRow, Lose, Undo
    <3>4. QED
      BY <1>0, <3>1, <3>2, <3>3 DEF InStep
  <2>4. QED
    BY <2>2, <2>3
<1>9. CASE DropRow(r)
  BY <1>0, <1>9 DEF DropRow, TypeOK, InStep
<1>10. CASE Unlink(r)
  <2>1. /\ saved'[r].stage = saved[r].stage
        /\ saved'[r].rows = saved[r].rows
    BY <1>0, <1>10 DEF Unlink, TypeOK, Saved
  <2>2. QED
    BY <1>0, <1>10, <2>1 DEF Unlink, TypeOK, InStep
<1>11. CASE Unindex(r)
  BY <1>0, <1>11 DEF Unindex, TypeOK, InStep
<1>12. QED
  BY <1>1, <1>2, <1>3, <1>4, <1>5, <1>6, <1>7, <1>8, <1>9, <1>10, <1>11 DEF Executes

(* So does a step of its runtime command, a kill and a beginning.          *)
LEMMA WorkerInStep ==
  ASSUME StepInv, NEW r \in Runs,
         Works(r) \/ Kill(r) \/ KillWorker(r) \/ \E j \in Commands : Begin(r, j)
  PROVE  InStep(r)'
<1> USE JobFacts, TableFacts DEF In, Send, Goto, ApplyLabel, DeleteLabel, Waiting, Registering,
        Launching, executor, worker, host
<1>0. TypeOK /\ InStep(r)
  BY DEF StepInv
<1>1. CASE Look(r)
  BY <1>0, <1>1 DEF Look, TypeOK, InStep
<1>2. CASE InstallAgain(r) \/ Install(r) \/ Mark(r) \/ Stop(r)
  BY <1>0, <1>2 DEF InstallAgain, Install, Mark, Stop, TypeOK, InStep
<1>3. CASE Spawn(r)
  BY <1>0, <1>3 DEF Spawn, TypeOK, InStep
<1>4. CASE Ready(r) \/ LaunchFails(r)
  BY <1>0, <1>4 DEF Ready, LaunchFails, TypeOK, InStep
<1>5. CASE DirectoryGone(r) \/ StopKnown(r) \/ Erase(r)
  BY <1>0, <1>5 DEF DirectoryGone, StopKnown, Erase, TypeOK, InStep
<1>6. CASE Leave(r)
  BY <1>0, <1>6 DEF Leave, Dismiss, TypeOK, InStep
<1>7. CASE Kill(r)
  BY <1>0, <1>7, EndInStep DEF Kill
<1>8. CASE KillWorker(r)
  BY <1>0, <1>8 DEF KillWorker, TypeOK, InStep
<1>9. CASE \E j \in Commands : Begin(r, j)
  <2>1. PICK j \in Commands : Begin(r, j)
    BY <1>9
  <2>2. j.op \in {"apply", "delete"} /\ pc[r] = "idle" /\ wpc[r] = "none"
    BY <2>1, CommandAssumption DEF Begin, Busy
  <2>3. /\ pc'[r] = IF j.op = "apply" THEN "upsert" ELSE "unserver"
        /\ job'[r] = j /\ saved'[r] = saved[r] /\ wpc'[r] = wpc[r]
        /\ former'[r] = former[r] /\ pid'[r] = pid[r]
    BY <1>0, <2>1 DEF Begin, TypeOK
  <2>4. QED
    BY <1>0, <2>2, <2>3 DEF InStep
<1>10. QED
  BY <1>1, <1>2, <1>3, <1>4, <1>5, <1>6, <1>7, <1>8, <1>9 DEF Works

LEMMA StepInit == Init => StepInv
<1>1. SUFFICES ASSUME Init PROVE StepInv
  OBVIOUS
<1>2. NothingSaved.stage = "runtime" /\ NothingSaved.rows["gateway"] = Untouched
  BY DEF NothingSaved, Kind
<1>3. \A r \in Runs : InStep(r)
  BY <1>1, <1>2 DEF Init, InStep, ApplyLabel, DeleteLabel, Waiting, Registering, Launching
<1>4. QED
  BY <1>1, <1>3, TypeInit DEF StepInv

LEMMA StepStep == StepInv /\ [Next]_vars => StepInv'
<1>1. SUFFICES ASSUME StepInv, [Next]_vars PROVE \A q \in Runs : InStep(q)'
  BY TypeStep DEF StepInv
<1>2. ASSUME NEW r \in Runs, Moves(r), NEW q \in Runs PROVE InStep(q)'
  <2>1. CASE q = r
    BY <1>1, <1>2, <2>1, ExecutorInStep, WorkerInStep DEF Moves
  <2>2. CASE q # r
    BY <1>1, <1>2, <2>2, OthersStay, StillInStep DEF StepInv
  <2>3. QED
    BY <2>1, <2>2
<1>3. ASSUME \E p \in Pids : Bind(p) \/ Death(p), NEW q \in Runs PROVE InStep(q)'
  <2>1. StillIs(q)
    BY <1>3 DEF Bind, Death, StillIs, executor, worker
  <2>2. QED
    BY <1>1, <2>1, StillInStep DEF StepInv
<1>4. ASSUME UNCHANGED vars, NEW q \in Runs PROVE InStep(q)'
  BY <1>1, <1>4, StillInStep DEF StepInv, StillIs, vars, executor, worker
<1>5. QED
  BY <1>1, <1>2, <1>3, <1>4, NextMoves

(* The commands and the two processes of a run are in step.                *)
THEOREM InSteps == Spec => []StepInv
<1>1. QED
  BY StepInit, StepStep, PTL DEF Spec

-------------------------------------------------------------------------------
(* Who listens.                                                            *)

LEMMA KilledListen ==
  ASSUME TypeOK, ListenInv, NEW p \in Pids \cup {Nothing}, Killed(p)
  PROVE  ListenInv'
<1>1. SUFFICES ASSUME NEW n \in Ports, listener'[n] # Nothing
               PROVE  Alive(listener[n])' /\ PortOf[bridge'[listener'[n]].service] = n
  BY DEF ListenInv
<1>2. listener'[n] = listener[n] /\ listener[n] # p /\ listener[n] # Nothing
  BY <1>1 DEF Killed
<1>3. bridge'[listener[n]] = bridge[listener[n]]
  BY <1>2 DEF Killed, TypeOK
<1>4. QED
  BY <1>2, <1>3 DEF ListenInv, Alive

(* A step that neither launches nor ends a bridge, nor lets one listen.    *)
LEMMA RuntimeKept ==
  ASSUME NEW r \in Runs,
         \/ Executes(r) \/ Kill(r) \/ KillWorker(r) \/ \E j \in Commands : Begin(r, j)
         \/ Leave(r)
  PROVE  UNCHANGED runtime
<1>1. CASE Executes(r)
  BY <1>1 DEF Executes, At, WriteRecord, WriteIndex, Raise, Call, Return, Timeout, Refresh,
     Refuse, PutRow, Lose, Undo, Undone, Unrecord, Unindex, Report, DropRow, Unlink, Unlist
<1>2. QED
  BY <1>1 DEF Kill, KillWorker, Begin, Leave

LEMMA ListenStep ==
  ASSUME TypeOK, ListenInv, [Next]_vars
  PROVE  ListenInv'
<1>1. CASE UNCHANGED <<bridge, listener>>
  BY <1>1 DEF ListenInv, Alive
<1>2. ASSUME NEW r \in Runs, Works(r) PROVE ListenInv'
  <2>1. /\ former[r].pid \in Pids \cup {Nothing} /\ pid[r] \in Pids \cup {Nothing}
        /\ state[Service(r)].pid \in Pids \cup {Nothing}
    BY DEF TypeOK, State, Service, Job
  <2>2. CASE Spawn(r)
    <3> DEFINE p == CHOOSE p \in Unused : TRUE
    <3>1. p \in Pids /\ ~ Alive(p)
      BY <2>2 DEF Spawn, Unused
    <3>2. listener' = listener
      BY <2>2 DEF Spawn
    <3>3. \A q \in Pids : q # p => bridge'[q] = bridge[q]
      BY <2>2 DEF Spawn, TypeOK
    <3>4. \A n \in Ports : listener[n] # Nothing
                           => bridge'[listener[n]] = bridge[listener[n]]
      <4>1. \A n \in Ports : listener[n] # Nothing => listener[n] \in Pids /\ Alive(listener[n])
        BY DEF ListenInv, TypeOK
      <4>2. QED
        BY <3>1, <3>3, <4>1
    <3>5. QED
      BY <3>2, <3>4 DEF ListenInv, Alive
  <2>3. CASE Stop(r) \/ LaunchFails(r)
    BY <1>1, <2>1, <2>3, KilledListen DEF Stop, LaunchFails
  <2>4. CASE StopKnown(r)
    BY <1>1, <2>1, <2>4, KilledListen DEF StopKnown
  <2>5. CASE \/ Look(r) \/ InstallAgain(r) \/ Install(r) \/ Mark(r) \/ Ready(r)
             \/ DirectoryGone(r) \/ Erase(r) \/ Leave(r)
    BY <1>1, <2>5 DEF Look, InstallAgain, Install, Mark, Ready, DirectoryGone, Erase, Leave, runtime
  <2>6. QED
    BY <1>2, <2>2, <2>3, <2>4, <2>5 DEF Works
<1>3. ASSUME NEW p \in Pids, Bind(p) PROVE ListenInv'
  <2> DEFINE n == PortOf[bridge[p].service]
  <2>1. n \in Ports /\ bridge[p] # NoBridge /\ p # Nothing
    BY <1>3, PortAssumption DEF Bind, Alive, TypeOK, Bridge
  <2>2. CASE listener[n] = Nothing
    BY <1>3, <2>1, <2>2 DEF Bind, ListenInv, Alive, TypeOK
  <2>3. CASE listener[n] # Nothing
    <3>1. /\ bridge' = [bridge EXCEPT ![p] = NoBridge] /\ listener' = listener
          /\ listener[n] # p
      BY <1>3, <2>3 DEF Bind
    <3>2. \A m \in Ports : listener[m] # p
      BY <2>1, <3>1 DEF ListenInv
    <3>3. \A m \in Ports : listener[m] # Nothing => bridge'[listener[m]] = bridge[listener[m]]
      BY <3>1, <3>2 DEF TypeOK
    <3>4. QED
      BY <3>1, <3>3 DEF ListenInv, Alive
  <2>4. QED
    BY <2>2, <2>3
<1>4. ASSUME NEW p \in Pids, Death(p) PROVE ListenInv'
  BY <1>4, KilledListen DEF Death
<1>5. ASSUME NEW r \in Runs, Moves(r) PROVE ListenInv'
  BY <1>1, <1>2, <1>5, RuntimeKept DEF Moves, runtime
<1>6. QED
  BY <1>1, <1>3, <1>4, <1>5, NextMoves DEF vars, runtime

(* Who listens on a port is a live bridge whose port it is.                *)
THEOREM ListenersAreBridges == Spec => []ListenInv
<1>1. Init => ListenInv
  BY DEF Init, ListenInv
<1>2. QED
  BY <1>1, TypeInit, TypeStep, ListenStep, PTL DEF Spec

-------------------------------------------------------------------------------
(* Bridges.                                                                *)

(* A run that makes a step has begun, and only a beginning sets it to      *)
(* work.                                                                   *)
LEMMA WorkGoesOn ==
  ASSUME StepInv, NEW r \in Runs, Executes(r) \/ Works(r) \/ Kill(r) \/ KillWorker(r)
  PROVE  /\ r \in Busy /\ strayed \subseteq strayed'
         /\ Working(r)' => Working(r) /\ job'[r] = job[r]
<1> USE DEF At, In, Goto, Send, Over, Working, Busy, Ends
<1>0. TypeOK /\ InStep(r)
  BY DEF StepInv
<1>1. CASE \/ WriteRecord(r) \/ WriteIndex(r) \/ Raise(r) \/ Call(r)
           \/ Unrecord(r) \/ Unindex(r) \/ Report(r) \/ Unlink(r) \/ Unlist(r)
  BY <1>0, <1>1, TableFacts DEF TypeOK, WriteRecord, WriteIndex, Raise, Call, Unrecord, Unindex,
     Report, Unlink, Unlist, worker
<1>2. CASE Return(r)
  BY <1>0, <1>2 DEF TypeOK, Return, Dismiss
<1>3. CASE Timeout(r) \/ Refresh(r) \/ Refuse(r) \/ Undone(r) \/ DropRow(r)
  BY <1>0, <1>3, TableFacts DEF TypeOK, Timeout, Refresh, Refuse, Undone, DropRow, worker
<1>4. CASE \E k \in Kind : PutRow(r, k) \/ Lose(r, k) \/ Undo(r, k)
  BY <1>0, <1>4 DEF TypeOK, PutRow, Lose, Undo, worker, Kind
<1>5. CASE Works(r) /\ ~ Leave(r)
  BY <1>0, <1>5 DEF TypeOK, Works, Look, InstallAgain, Install, Mark, Stop, Spawn, Ready, LaunchFails,
       DirectoryGone, StopKnown, Erase, executor
<1>6. CASE Leave(r)
  BY <1>0, <1>6 DEF TypeOK, Leave, Dismiss, history
<1>7. CASE Kill(r) \/ KillWorker(r)
  BY <1>0, <1>7 DEF TypeOK, Kill, KillWorker, worker, executor
<1>8. QED
  BY <1>1, <1>2, <1>3, <1>4, <1>5, <1>6, <1>7 DEF Executes

LEMMA WorkingBusy ==
  ASSUME NEW r \in Runs, Working(r)
  PROVE  r \in Busy
BY DEF Working, Busy, Over

(* A run that meets none at its beginning is alone until another begins.   *)
LEMMA AloneStep ==
  ASSUME StepInv, \A r \in Runs : Alone(r), NEW r \in Runs, Moves(r), NEW q \in Runs
  PROVE  Alone(q)'
<1>0. TypeOK
  BY DEF StepInv
<1>1. SUFFICES ASSUME Working(q)', Port(q)' \notin strayed'
               PROVE  Busy' = {q}
  BY DEF Alone
<1>2. CASE \E j \in Commands : Begin(r, j)
  <2>1. PICK j \in Commands : Begin(r, j)
    BY <1>2
  <2>2. \A t \in Runs : t # r => StillIs(t)
    BY <1>0, OthersStay
  <2>3. /\ job'[r] = j /\ wpc'[r] = "none" /\ pc'[r] # "idle" /\ r \notin Busy
    BY <1>0, <2>1, CommandAssumption, JobFacts DEF Begin, TypeOK, Busy, worker
  <2>4. CASE Busy \ {r} = {}
    <3>1. Busy' = {r}
      BY <2>2, <2>3, <2>4 DEF Busy, StillIs
    <3>2. QED
      BY <1>1, <3>1 DEF Working, Busy, Over
  <2>5. CASE Busy \ {r} # {}
    <3>1. strayed' = strayed \cup {PortOf[j.service]} \cup {Port(g) : g \in Busy \ {r}}
      BY <2>1, <2>5 DEF Begin
    <3>2. q # r => q \in Busy
      BY <1>1, <2>2 DEF Working, Busy, Over, StillIs
    <3>3. Port(q)' = IF q = r THEN PortOf[j.service] ELSE Port(q)
      BY <2>2, <2>3 DEF Port, Service, StillIs
    <3>4. QED
      BY <1>1, <3>1, <3>2, <3>3
  <2>6. QED
    BY <2>4, <2>5
<1>3. CASE Executes(r) \/ Works(r) \/ Kill(r) \/ KillWorker(r)
  <2>1. /\ r \in Busy /\ strayed \subseteq strayed'
        /\ Working(r)' => Working(r) /\ job'[r] = job[r]
    BY <1>3, WorkGoesOn
  <2>2. \A t \in Runs : t # r => StillIs(t)
    BY <1>0, OthersStay
  <2>3. Working(q) /\ job'[q] = job[q]
    BY <1>1, <2>1, <2>2 DEF Working, StillIs, Over
  <2>4. Busy = {q}
    BY <1>1, <2>1, <2>3 DEF Alone, Port, Service
  <2>5. Busy' \subseteq Busy
    BY <2>1, <2>2 DEF Busy, StillIs
  <2>6. q \in Busy'
    BY <1>1 DEF Working, Busy, Over
  <2>7. QED
    BY <2>4, <2>5, <2>6
<1>4. QED
  BY <1>2, <1>3 DEF Moves

(* What a run's own step does to its bridge.                               *)
LEMMA OwnStep ==
  ASSUME StepInv, NEW r \in Runs, OwnBridge(r), Moves(r)
  PROVE  OwnBridge(r)'
<1> USE DEF Alive
<1>0. TypeOK /\ InStep(r)
  BY DEF StepInv
<1>1. SUFFICES ASSUME pid'[r] # Nothing, Alive(pid[r])'
               PROVE  /\ wpc'[r] \in {"ready", "reready"} => bridge'[pid'[r]].service = job'[r].service
                      /\ wpc'[r] = "failed" => PortOf[bridge'[pid'[r]].service] \in strayed'
  BY DEF OwnBridge, Service
<1>2. CASE Spawn(r)
  <2> DEFINE p == CHOOSE p \in Unused : TRUE
  <2>1. p \in Pids
    BY <1>2 DEF Spawn, Unused
  <2>2. pid'[r] = p /\ bridge'[p].service = Service(r) /\ wpc'[r] \in {"ready", "reready"}
    BY <1>0, <1>2, <2>1 DEF Spawn, TypeOK, In, Send
  <2>3. job'[r].service = Service(r)
    BY <1>2 DEF Spawn, In, executor, Service
  <2>4. QED
    BY <2>2, <2>3
<1>3. CASE KillWorker(r)
  <2>1. /\ pid'[r] = pid[r] /\ bridge' = bridge /\ wpc'[r] = "failed" /\ wpc[r] # "failed"
        /\ strayed' = strayed \cup {Port(r)}
    BY <1>0, <1>3 DEF KillWorker, TypeOK, Send, runtime
  <2>2. wpc[r] \in {"ready", "reready"} /\ bridge[pid[r]].service = Service(r)
    BY <1>0, <1>1, <2>1 DEF InStep, OwnBridge
  <2>3. QED
    BY <2>1, <2>2 DEF Port
<1>4. CASE Ready(r) \/ LaunchFails(r) \/ Return(r) \/ Leave(r)
  <2>1. pid'[r] = Nothing
    BY <1>0, <1>4 DEF Ready, LaunchFails, Return, Leave, Dismiss, TypeOK
  <2>2. QED
    BY <1>1, <2>1
<1>5. CASE \/ Look(r) \/ InstallAgain(r) \/ Install(r) \/ Mark(r) \/ Stop(r)
           \/ DirectoryGone(r) \/ StopKnown(r) \/ Erase(r)
  <2>1. pid'[r] = pid[r] /\ wpc[r] \notin {"ready", "reready", "failed"}
    BY <1>5 DEF Look, InstallAgain, Install, Mark, Stop, DirectoryGone, StopKnown, Erase, In
  <2>2. QED
    BY <1>0, <1>1, <2>1 DEF InStep
<1>6. CASE \/ Kill(r) \/ \E j \in Commands : Begin(r, j)
           \/ (Executes(r) /\ ~ Return(r))
  <2>1. pid'[r] = pid[r] /\ bridge' = bridge /\ strayed \subseteq strayed'
    <3>1. CASE Executes(r) /\ ~ Return(r)
      BY <3>1 DEF Executes, At, WriteRecord, WriteIndex, Raise, Call, Timeout, Refresh,
         Refuse, PutRow, Lose, Undo, Undone, Unrecord, Unindex, Report, DropRow, Unlink, Unlist,
         runtime, worker
    <3>2. QED
      BY <1>6, <3>1 DEF Kill, Begin, runtime, worker
  <2>2. wpc[r] \in {"ready", "reready", "failed"}
    BY <1>0, <1>1, <2>1 DEF InStep
  <2>3. wpc'[r] = wpc[r] /\ (wpc[r] # "failed" => job'[r] = job[r])
    <3>1. CASE Executes(r) /\ ~ Return(r)
      BY <1>0, <2>2, <3>1 DEF Executes, At, WriteRecord, WriteIndex, Raise, Call, Timeout, Refresh,
         Refuse, PutRow, Lose, Undo, Undone, Unrecord, Unindex, Report, DropRow, Unlink, Unlist,
         worker, Ends, InStep, Waiting, AfterCall
    <3>2. CASE Kill(r)
      BY <1>0, <2>2, <3>2 DEF Kill, Ends, worker, TypeOK
    <3>3. CASE \E j \in Commands : Begin(r, j)
      BY <1>0, <2>2, <3>3 DEF Begin, Busy
    <3>4. QED
      BY <1>6, <3>1, <3>2, <3>3
  <2>4. QED
    BY <1>1, <2>1, <2>2, <2>3 DEF OwnBridge, Service
<1>7. QED
  BY <1>2, <1>3, <1>4, <1>5, <1>6 DEF Moves, Works

(* What happens to a bridge when another run, or nobody, makes a step: it  *)
(* stays or ends.                                                          *)
LEMMA BridgesEnd ==
  ASSUME StepInv, [Next]_vars, NEW p \in Pids, Alive(p), Alive(p)'
  PROVE  bridge'[p] = bridge[p]
<1>1. ASSUME NEW r \in Runs, Works(r) PROVE bridge'[p] = bridge[p]
  <2>1. CASE Spawn(r)
    <3>1. (CHOOSE u \in Unused : TRUE) \in Pids /\ ~ Alive(CHOOSE u \in Unused : TRUE)
      BY <2>1 DEF Spawn, Unused
    <3>2. QED
      BY <2>1, <3>1 DEF Spawn, TypeOK, StepInv
  <2>2. CASE Stop(r) \/ LaunchFails(r) \/ StopKnown(r)
    BY <2>2 DEF Stop, LaunchFails, StopKnown, Killed, TypeOK, StepInv, Alive
  <2>3. CASE \/ Look(r) \/ InstallAgain(r) \/ Install(r) \/ Mark(r) \/ Ready(r)
             \/ DirectoryGone(r) \/ Erase(r) \/ Leave(r)
    BY <2>3 DEF Look, InstallAgain, Install, Mark, Ready, DirectoryGone, Erase, Leave, runtime
  <2>4. QED
    BY <1>1, <2>1, <2>2, <2>3 DEF Works
<1>2. ASSUME NEW n \in Pids, Bind(n) \/ Death(n) PROVE bridge'[p] = bridge[p]
  BY <1>2 DEF Bind, Death, Killed, TypeOK, StepInv, Alive
<1>3. QED
  BY <1>1, <1>2, RuntimeKept, NextMoves DEF Moves, vars, runtime

(* A bridge that comes is launched by a run, and was referred to by        *)
(* nothing.                                                                *)
LEMMA BridgesCome ==
  ASSUME StepInv, [Next]_vars, NEW p \in Pids, ~ Alive(p), Alive(p)'
  PROVE  \E r \in Runs : /\ Spawn(r) /\ p \in Unused /\ pid'[r] = p
                         /\ bridge'[p].service = Service(r)
<1>1. ASSUME NEW r \in Runs, Works(r)
      PROVE  /\ Spawn(r) /\ p \in Unused /\ pid'[r] = p /\ bridge'[p].service = Service(r)
  <2>1. CASE Spawn(r)
    <3>1. (CHOOSE u \in Unused : TRUE) \in Unused
      BY <2>1 DEF Spawn
    <3>2. (CHOOSE u \in Unused : TRUE) \in Pids
      BY <3>1 DEF Unused
    <3>3. (CHOOSE u \in Unused : TRUE) = p
      BY <2>1, <3>2 DEF Spawn, TypeOK, StepInv, Alive
    <3>4. QED
      BY <2>1, <3>1, <3>3 DEF Spawn, TypeOK, StepInv
  <2>2. CASE Stop(r) \/ LaunchFails(r) \/ StopKnown(r)
    BY <2>2 DEF Stop, LaunchFails, StopKnown, Killed, TypeOK, StepInv, Alive
  <2>3. CASE \/ Look(r) \/ InstallAgain(r) \/ Install(r) \/ Mark(r) \/ Ready(r)
             \/ DirectoryGone(r) \/ Erase(r) \/ Leave(r)
    BY <2>3 DEF Look, InstallAgain, Install, Mark, Ready, DirectoryGone, Erase, Leave, runtime, Alive
  <2>4. QED
    BY <1>1, <2>1, <2>2, <2>3 DEF Works
<1>2. ASSUME NEW n \in Pids, Bind(n) \/ Death(n) PROVE FALSE
  BY <1>2 DEF Bind, Death, Killed, TypeOK, StepInv, Alive
<1>3. CASE UNCHANGED bridge
  BY <1>3 DEF Alive
<1>4. QED
  BY <1>1, <1>2, <1>3, RuntimeKept, NextMoves DEF Moves, vars, runtime

(* A service whose state stays does not come to run by itself.             *)
LEMMA RunningStays ==
  ASSUME StepInv, [Next]_vars, NEW s \in Services, state'[s] = state[s], Running(s)'
  PROVE  Running(s)
<1> DEFINE p == state[s].pid
<1>1. p \in Pids /\ Alive(p)' /\ bridge'[p].service = s
  BY DEF StepInv, TypeOK, State, Running, Alive
<1>2. Alive(p)
  <2>1. p \notin Unused
    BY DEF Unused
  <2>2. QED
    BY <1>1, <2>1, BridgesCome
<1>3. bridge'[p] = bridge[p]
  BY <1>1, <1>2, BridgesEnd
<1>4. QED
  BY <1>1, <1>2, <1>3 DEF Running

(* Only the run itself makes the steps while it is alone.                  *)
LEMMA AloneMoves ==
  ASSUME StepInv, \A r \in Runs : Alone(r), NEW r \in Runs, Moves(r), NEW q \in Runs,
         wpc'[q] \notin Over, Port(q)' \notin strayed'
  PROVE  /\ q = r /\ Working(q) /\ job'[q] = job[q] /\ Port(q) \notin strayed
         /\ ~ \E j \in Commands : Begin(r, j)
<1>0. TypeOK
  BY DEF StepInv
<1>1. CASE \E j \in Commands : Begin(r, j)
  <2>1. PICK j \in Commands : Begin(r, j)
    BY <1>1
  <2>2. q # r
    BY <2>1 DEF Begin, Busy, worker, Over
  <2>3. q \in Busy \ {r} /\ Port(q)' = Port(q)
    BY <1>0, <2>2, OthersStay DEF Busy, StillIs, Over, Port, Service
  <2>4. QED
    BY <2>1, <2>3 DEF Begin
<1>2. CASE Executes(r) \/ Works(r) \/ Kill(r) \/ KillWorker(r)
  <2>1. /\ r \in Busy /\ strayed \subseteq strayed'
        /\ Working(r)' => Working(r) /\ job'[r] = job[r]
    BY <1>2, WorkGoesOn
  <2>2. Working(q) /\ job'[q] = job[q]
    BY <1>0, <2>1, OthersStay DEF Working, StillIs, Over
  <2>3. Port(q) \notin strayed
    BY <2>1, <2>2 DEF Port, Service
  <2>4. Busy = {q}
    BY <2>2, <2>3 DEF Alone
  <2>5. ~ \E j \in Commands : Begin(r, j)
    BY <2>1 DEF Begin
  <2>6. QED
    BY <2>1, <2>2, <2>3, <2>4, <2>5
<1>3. QED
  BY <1>1, <1>2 DEF Moves

(* Once a run has stopped the former runtime no bridge of its service runs. *)
LEMMA StopEnds ==
  ASSUME StepInv, NEW r \in Runs, FormerStopped(r), Port(r) \notin strayed, Stop(r),
         NEW s \in Services, s = Service(r)
  PROVE  ~ Running(s)'
<1>0. TypeOK /\ state' = state /\ wpc[r] = "stop"
  BY DEF StepInv, Stop, In
<1>1. SUFFICES ASSUME Running(s)' PROVE FALSE
  OBVIOUS
<1>2. PICK p \in Pids : p = state[s].pid
  BY <1>0, <1>1 DEF Running, Alive, TypeOK, State
<1>3. bridge'[p] # NoBridge /\ bridge'[p].service = s /\ p # Nothing
  BY <1>0, <1>1, <1>2 DEF Running, Alive
<1>4. bridge'[p] = bridge[p]
  BY <1>0, <1>3 DEF Stop, Killed, TypeOK
<1>5. former[r].pid = p
  BY <1>0, <1>2, <1>3, <1>4 DEF FormerStopped, Running, Alive
<1>6. bridge'[p] = NoBridge
  BY <1>0, <1>3, <1>4, <1>5 DEF Stop, Killed, Alive, TypeOK
<1>7. QED
  BY <1>3, <1>6

(* A run's own step keeps the former bridge stopped once it is.            *)
LEMMA FormerStep ==
  ASSUME StepInv, [Next]_vars, NEW r \in Runs, FormerStopped(r), Moves(r),
         job'[r] = job[r], Port(r) \notin strayed, ~ \E j \in Commands : Begin(r, j)
  PROVE  FormerStopped(r)'
<1>a. Service(r) \in Services
  BY DEF StepInv, TypeOK, Service, Job
<1>b. PICK s \in Services : s = Service(r)
  BY <1>a
<1>0. TypeOK /\ InStep(r)
  BY DEF StepInv
<1>1. Service(r)' = s
  BY <1>b DEF Service
<1>2. state'[s] = state[s] => (Running(s)' => Running(s))
  BY <1>0, RunningStays
<1>3. SUFFICES /\ wpc'[r] \in Replaced \cup {"erase", "partial"} => ~ Running(s)'
               /\ wpc'[r] \in {"install", "mark", "stop"} /\ Running(s)'
                  => former'[r].pid = state'[s].pid
  BY <1>1 DEF FormerStopped, Running, Alive, Service
<1>4. /\ wpc[r] \in Replaced \cup {"erase", "partial"} => ~ Running(s)
      /\ wpc[r] \in {"install", "mark", "stop"} /\ Running(s)
         => former[r].pid = state[s].pid
  BY <1>b DEF FormerStopped
<1>5. CASE Look(r)
  <2>1. state' = state /\ wpc'[r] \in {"done", "install", "failed"}
    BY <1>0, <1>5 DEF Look, In, Send, TypeOK, runtime
  <2>2. wpc'[r] = "install" /\ Running(s) => former'[r] = state[s]
    BY <1>0, <1>b, <1>5 DEF Look, In, Send, TypeOK
  <2>3. QED
    BY <1>2, <2>1, <2>2 DEF Replaced
<1>6. CASE InstallAgain(r) \/ Install(r) \/ Mark(r)
  <2>1. state' = state /\ former' = former
    BY <1>6 DEF InstallAgain, Install, Mark, runtime
  <2>2. /\ wpc'[r] \in {"install", "mark", "stop"} => wpc[r] \in {"install", "mark"}
        /\ wpc'[r] \in Replaced \cup {"erase", "partial"} => wpc[r] \in Replaced
    BY <1>0, <1>6, TableFacts DEF InstallAgain, Install, Mark, In, Send, TypeOK, Replaced
  <2>3. QED
    BY <1>2, <1>4, <2>1, <2>2
<1>7. CASE Stop(r)
  <2>1. wpc'[r] \in {"launch", "failed"}
    BY <1>0, <1>7 DEF Stop, In, Send, TypeOK
  <2>2. ~ Running(s)'
    BY <1>b, <1>7, StopEnds
  <2>3. QED
    BY <2>1, <2>2
<1>8. CASE Spawn(r) \/ LaunchFails(r) \/ DirectoryGone(r)
  <2>1. state' = state
    BY <1>8 DEF Spawn, LaunchFails, DirectoryGone, runtime
  <2>2. /\ wpc'[r] \notin {"install", "mark", "stop"}
        /\ wpc'[r] \in Replaced \cup {"erase", "partial"} => wpc[r] \in Replaced
    BY <1>0, <1>8 DEF Spawn, LaunchFails, DirectoryGone, In, Send, TypeOK, Replaced
  <2>3. QED
    BY <1>2, <1>4, <2>1, <2>2
<1>9. CASE Ready(r) \/ Erase(r) \/ Leave(r) \/ KillWorker(r)
  BY <1>0, <1>9 DEF Ready, Erase, Leave, KillWorker, Dismiss, In, Send, TypeOK, Replaced
<1>10. CASE StopKnown(r)
  <2>1. state' = state /\ wpc'[r] \in {"erase", "partial", "failed"}
    BY <1>0, <1>10 DEF StopKnown, In, Send, TypeOK
  <2>2. ASSUME Running(s)' PROVE FALSE
    <3>1. Running(s)
      BY <1>2, <2>1, <2>2
    <3>2. state[s].pid \in Pids /\ Killed(state[s].pid)
      BY <1>0, <1>b, <1>10, <3>1 DEF StopKnown, TypeOK, State, Running, Alive
    <3>3. bridge'[state[s].pid] = NoBridge
      BY <1>0, <3>2, ValueTypes DEF Killed, TypeOK
    <3>4. QED
      BY <2>1, <2>2, <3>3 DEF Running, Alive
  <2>3. QED
    BY <2>1, <2>2
<1>11. CASE Kill(r) \/ Executes(r)
  <2>1. state' = state
    BY <1>11, RuntimeKept DEF runtime
  <2>2. CASE wpc'[r] = wpc[r] /\ former'[r] = former[r]
    BY <1>2, <1>4, <2>1, <2>2
  <2>3. CASE ~ (wpc'[r] = wpc[r] /\ former'[r] = former[r])
    <3>1. Call(r) \/ Return(r)
      BY <1>11, <2>3 DEF Kill, Executes, WriteRecord, WriteIndex, Raise, Timeout, Refresh,
         Refuse, PutRow, Lose, Undo, Undone, Unrecord, Unindex, Report, DropRow, Unlink, Unlist, worker
    <3>2. wpc'[r] \in {"look", "clear", "none"}
      BY <1>0, <3>1 DEF Call, Return, Dismiss, Send, TypeOK
    <3>3. QED
      BY <3>2 DEF Replaced
  <2>4. QED
    BY <2>2, <2>3
<1>12. QED
  BY <1>5, <1>6, <1>7, <1>8, <1>9, <1>10, <1>11 DEF Moves, Works

(* A step of others leaves a run its own bridge.                           *)
LEMMA OthersOwn ==
  ASSUME StepInv, [Next]_vars, NEW q \in Runs, OwnBridge(q), StillIs(q), strayed \subseteq strayed'
  PROVE  OwnBridge(q)'
<1>1. SUFFICES ASSUME pid[q] # Nothing, Alive(pid[q])'
               PROVE  bridge'[pid[q]] = bridge[pid[q]] /\ Alive(pid[q])
  BY DEF OwnBridge, StillIs, Service, Alive
<1>2. pid[q] \in Pids /\ pid[q] \notin Unused
  BY <1>1 DEF StepInv, TypeOK, Unused
<1>3. PICK p \in Pids : p = pid[q]
  BY <1>2
<1>4. Alive(p)'
  BY <1>1, <1>3 DEF StillIs, Alive
<1>5. Alive(p)
  BY <1>2, <1>3, <1>4, BridgesCome
<1>6. QED
  BY <1>3, <1>4, <1>5, BridgesEnd

LEMMA StrayedGrows ==
  ASSUME StepInv, [Next]_vars
  PROVE  strayed \subseteq strayed'
<1>1. ASSUME NEW r \in Runs, Moves(r) PROVE strayed \subseteq strayed'
  BY <1>1, WorkGoesOn DEF Moves, Begin
<1>2. QED
  BY <1>1, NextMoves DEF Bind, Death, history, vars

(* When nobody moves, every run is where it was.                           *)
LEMMA NobodyMoves ==
  ASSUME (\E p \in Pids : Bind(p) \/ Death(p)) \/ UNCHANGED vars
  PROVE  /\ UNCHANGED <<executor, worker, state, strayed>>
         /\ \A q \in Runs : StillIs(q)
BY DEF Bind, Death, executor, worker, history, runtime, vars, StillIs

LEMMA OwnBridgeStep ==
  ASSUME StepInv, \A r \in Runs : OwnBridge(r), [Next]_vars, NEW q \in Runs
  PROVE  OwnBridge(q)'
<1>1. strayed \subseteq strayed' /\ TypeOK
  BY StrayedGrows DEF StepInv
<1>2. ASSUME NEW r \in Runs, Moves(r) PROVE OwnBridge(q)'
  <2>1. CASE q = r
    BY <1>2, <2>1, OwnStep
  <2>2. CASE q # r
    BY <1>1, <1>2, <2>2, OthersStay, OthersOwn
  <2>3. QED
    BY <2>1, <2>2
<1>3. CASE (\E p \in Pids : Bind(p) \/ Death(p)) \/ UNCHANGED vars
  BY <1>1, <1>3, NobodyMoves, OthersOwn
<1>4. QED
  BY <1>2, <1>3, NextMoves

LEMMA FormerStoppedStep ==
  ASSUME StepInv, \A r \in Runs : Alone(r) /\ FormerStopped(r), [Next]_vars, NEW q \in Runs
  PROVE  FormerStopped(q)'
<1>1. CASE wpc'[q] \in Over \/ Port(q)' \in strayed'
  BY <1>1 DEF FormerStopped, Over, Replaced
<1>2. CASE wpc'[q] \notin Over /\ Port(q)' \notin strayed'
  <2>1. ASSUME NEW r \in Runs, Moves(r) PROVE FormerStopped(q)'
    BY <1>2, <2>1, AloneMoves, FormerStep
  <2>2. CASE (\E p \in Pids : Bind(p) \/ Death(p)) \/ UNCHANGED vars
    <3>a. Service(q) \in Services
      BY DEF StepInv, TypeOK, Service, Job
    <3>b. PICK s \in Services : s = Service(q)
      BY <3>a
    <3>1. StillIs(q) /\ UNCHANGED <<state, strayed>>
      BY <2>2, NobodyMoves
    <3>2. Running(s)' => Running(s)
      BY <3>1, RunningStays
    <3>3. Service(q)' = s /\ (Running(Service(q))' <=> Running(s)')
      BY <3>1, <3>b DEF StillIs, Service, Running, Alive
    <3>4. QED
      BY <1>2, <3>1, <3>2, <3>3, <3>b DEF FormerStopped, StillIs, Port
  <2>3. QED
    BY <2>1, <2>2, NextMoves
<1>3. QED
  BY <1>1, <1>2

LEMMA AloneKept ==
  ASSUME StepInv, \A r \in Runs : Alone(r), [Next]_vars, NEW q \in Runs
  PROVE  Alone(q)'
<1>1. CASE (\E p \in Pids : Bind(p) \/ Death(p)) \/ UNCHANGED vars
  BY <1>1, NobodyMoves DEF Alone, Working, Over, Busy, Port, Service, executor, worker
<1>2. QED
  BY <1>1, AloneStep, NextMoves

(* No step leaves a bridge that nothing refers to on a port that none has  *)
(* strayed on.                                                             *)
LEMMA AccountedStep ==
  ASSUME StepInv, BridgeInv, [Next]_vars
  PROVE  BridgesAccounted'
<1>0. TypeOK
  BY DEF StepInv
<1>1. SUFFICES ASSUME NEW p \in Pids, Alive(p)', PortOf[bridge'[p].service] \notin strayed'
               PROVE  state'[bridge'[p].service].pid = p \/ \E r \in Runs : pid'[r] = p
  BY DEF BridgesAccounted, Alive
<1>2. CASE ~ Alive(p)
  BY <1>1, <1>2, BridgesCome
<1>3. CASE Alive(p)
  <2>1. bridge'[p] = bridge[p] /\ strayed \subseteq strayed'
    BY <1>1, <1>3, BridgesEnd, StrayedGrows
  <2> DEFINE s == bridge[p].service
  <2>2. s \in Services
    BY <1>0, <1>3 DEF TypeOK, Alive, Bridge
  <2>3. PortOf[s] \notin strayed
    BY <1>1, <2>1
  <2>4. state[s].pid = p \/ \E r \in Runs : pid[r] = p
    BY <1>3, <2>3 DEF BridgeInv, BridgesAccounted
  <2>5. ASSUME NEW r \in Runs, pid[r] = p, ~ \E t \in Runs : pid'[t] = p
        PROVE  state'[s].pid = p
    <3>1. ASSUME NEW q \in Runs, Moves(q) PROVE state'[s].pid = p
      <4>1. q = r
        BY <1>0, <2>5, <3>1, OthersStay DEF StillIs
      <4>2. Ready(r) \/ LaunchFails(r) \/ Return(r) \/ Leave(r) \/ Spawn(r)
        <5>1. pid' # pid
          BY <2>5
        <5>2. CASE Executes(r) /\ ~ Return(r)
          BY <5>1, <5>2 DEF Executes, WriteRecord, WriteIndex, Raise, Call, Timeout, Refresh,
             Refuse, PutRow, Lose, Undo, Undone, Unrecord, Unindex, Report, DropRow, Unlink,
             Unlist, worker
        <5>3. CASE Kill(r) \/ KillWorker(r) \/ \E j \in Commands : Begin(r, j)
          BY <5>1, <5>3 DEF Kill, KillWorker, Begin, worker
        <5>4. QED
          BY <3>1, <4>1, <5>1, <5>2, <5>3 DEF Moves, Works, Look, InstallAgain, Install, Mark, Stop,
             DirectoryGone, StopKnown, Erase
      <4>3. InStep(r) /\ OwnBridge(r) /\ pid[r] # Nothing /\ Alive(pid[r])
        BY <1>3, <2>5 DEF StepInv, BridgeInv, Alive
      <4>4. CASE Ready(r)
        <5>1. s = Service(r)
          BY <2>5, <4>3, <4>4 DEF OwnBridge, Ready, In
        <5>2. QED
          BY <1>0, <2>2, <2>5, <4>4, <5>1 DEF Ready, TypeOK
      <4>5. CASE LaunchFails(r)
        BY <1>0, <1>1, <2>5, <4>3, <4>5 DEF LaunchFails, Killed, Alive, TypeOK
      <4>6. CASE Return(r) \/ Leave(r)
        <5>1. wpc[r] = "failed"
          BY <4>3, <4>6 DEF InStep, Return, Leave
        <5>2. PortOf[s] \in strayed
          BY <2>5, <4>3, <5>1 DEF OwnBridge
        <5>3. QED
          BY <2>3, <5>2
      <4>7. CASE Spawn(r)
        BY <4>3, <4>7 DEF InStep, Spawn, In
      <4>8. QED
        BY <4>2, <4>4, <4>5, <4>6, <4>7
    <3>2. CASE (\E n \in Pids : Bind(n) \/ Death(n)) \/ UNCHANGED vars
      BY <2>5, <3>2, NobodyMoves DEF StillIs
    <3>3. QED
      BY <3>1, <3>2, NextMoves
  <2>6. ASSUME state[s].pid = p PROVE state'[s].pid = p
    <3>0. Running(s)
      BY <1>3, <2>6 DEF Running
    <3>1. CASE state'[s] = state[s]
      BY <2>6, <3>1
    <3>2. CASE state'[s] # state[s]
      <4>1. PICK r \in Runs : Moves(r)
        BY <3>2, NobodyMoves, NextMoves
      <4>2. Ready(r) \/ Erase(r)
        BY <3>2, <4>1, RuntimeKept DEF Moves, Works, Look, InstallAgain, Install, Mark, Stop,
           Spawn, LaunchFails, DirectoryGone, StopKnown, runtime
      <4>3. s = Service(r) /\ wpc[r] \in Replaced \cup {"erase", "partial"}
        BY <1>0, <2>2, <3>2, <4>2 DEF Ready, Erase, In, TypeOK, Replaced
      <4>4. FALSE
        BY <2>3, <3>0, <4>3 DEF BridgeInv, FormerStopped, Port
      <4>5. QED
        BY <4>4
    <3>3. QED
      BY <3>1, <3>2
  <2>7. QED
    BY <2>1, <2>4, <2>5, <2>6
<1>4. QED
  BY <1>2, <1>3

LEMMA BridgeInit == Init => BridgeInv
<1>1. SUFFICES ASSUME Init PROVE BridgeInv
  OBVIOUS
<1>2. \A r \in Runs : Alone(r) /\ OwnBridge(r) /\ FormerStopped(r)
  BY <1>1 DEF Init, Alone, OwnBridge, FormerStopped, Working, Over, Replaced
<1>3. BridgesAccounted
  BY <1>1 DEF Init, BridgesAccounted, Alive
<1>4. QED
  BY <1>2, <1>3 DEF BridgeInv

LEMMA BridgeStep == StepInv /\ BridgeInv /\ [Next]_vars => BridgeInv'
<1>1. SUFFICES ASSUME StepInv, BridgeInv, [Next]_vars PROVE BridgeInv'
  OBVIOUS
<1>2. \A r \in Runs : Alone(r) /\ OwnBridge(r) /\ FormerStopped(r)
  BY <1>1 DEF BridgeInv
<1>3. \A r \in Runs : Alone(r)' /\ OwnBridge(r)' /\ FormerStopped(r)'
  BY <1>1, <1>2, AloneKept, OwnBridgeStep, FormerStoppedStep
<1>4. BridgesAccounted'
  BY <1>1, AccountedStep
<1>5. QED
  BY <1>3, <1>4 DEF BridgeInv

LEMMA Bridges == Spec => [](StepInv /\ BridgeInv)
<1>1. QED
  BY StepInit, StepStep, BridgeInit, BridgeStep, PTL DEF Spec

(* Every bridge is known of: it is the one of its service's runtime state  *)
(* or the one a runtime command is about to record, however runs overlap,  *)
(* unless one has strayed on its port.                                     *)
THEOREM BridgesKnown == Spec => []BridgesAccounted
<1>1. BridgeInv => BridgesAccounted
  BY DEF BridgeInv
<1>2. QED
  BY <1>1, Bridges, PTL

-------------------------------------------------------------------------------
(* The gateway.                                                            *)

LEMMA BlindGrows ==
  ASSUME [Next]_vars
  PROVE  blind \subseteq blind'
<1>1. ASSUME NEW r \in Runs, Executes(r) PROVE blind \subseteq blind'
  BY <1>1 DEF Executes, WriteRecord, WriteIndex, Raise, Call, Return, Timeout, Refresh,
     Refuse, PutRow, Lose, Undo, Undone, Unrecord, Unindex, Report, DropRow, Unlink, Unlist,
     Reindex, host
<1>2. ASSUME NEW r \in Runs, Works(r) PROVE blind \subseteq blind'
  BY <1>2 DEF Works, Look, InstallAgain, Install, Mark, Stop, Spawn, Ready, LaunchFails,
     DirectoryGone, StopKnown, Erase, Leave, In, host
<1>3. ASSUME NEW r \in Runs, Kill(r) \/ KillWorker(r) \/ \E j \in Commands : Begin(r, j)
      PROVE  blind \subseteq blind'
  BY <1>3 DEF Kill, KillWorker, Begin, host
<1>4. QED
  BY <1>1, <1>2, <1>3, NextMoves DEF Moves, Bind, Death, host, vars

(* A run that works has worked on the same command before, or begins.      *)
LEMMA Going ==
  ASSUME StepInv, [Next]_vars, NEW q \in Runs, Working(q)'
  PROVE  (Working(q) /\ job'[q] = job[q]) \/ \E j \in Commands : Begin(q, j)
<1>0. TypeOK
  BY DEF StepInv
<1>1. ASSUME NEW r \in Runs, Moves(r), q # r PROVE Working(q) /\ job'[q] = job[q]
  BY <1>0, <1>1, OthersStay DEF StillIs, Working, Over
<1>2. ASSUME Moves(q) PROVE (Working(q) /\ job'[q] = job[q]) \/ \E j \in Commands : Begin(q, j)
  BY <1>2, WorkGoesOn DEF Moves
<1>3. CASE (\E p \in Pids : Bind(p) \/ Death(p)) \/ UNCHANGED vars
  BY <1>3, NobodyMoves DEF StillIs, Working, Over
<1>4. QED
  BY <1>1, <1>2, <1>3, NextMoves

(* Where a run begins.                                                     *)
LEMMA Beginning ==
  ASSUME StepInv, NEW q \in Runs, NEW j \in Commands, Begin(q, j)
  PROVE  /\ pc'[q] \in {"upsert", "unserver"} /\ wpc'[q] = "none" /\ job'[q] = j
         /\ saved'[q].rows["gateway"] = Untouched /\ ~ Working(q) /\ ~ Passed(q)'
<1>1. /\ pc'[q] \in {"upsert", "unserver"} /\ wpc'[q] = "none" /\ job'[q] = j
      /\ saved'[q] = saved[q] /\ pc[q] = "idle" /\ wpc[q] = "none"
  BY DEF StepInv, TypeOK, Begin, Busy, worker
<1>2. saved[q].rows["gateway"] = Untouched
  BY <1>1 DEF StepInv, InStep, Registering
<1>3. QED
  BY <1>1, <1>2 DEF Working, Passed, Over, Launching

LEMMA PassedWorks ==
  ASSUME NEW q \in Runs, Passed(q)
  PROVE  Working(q)
BY DEF Passed, Working, Over, Launching

(* Only by looking does a run get past the look.                           *)
LEMMA PassedNew ==
  ASSUME StepInv, [Next]_vars, NEW q \in Runs, Passed(q)', ~ Passed(q)
  PROVE  Look(q) /\ wpc'[q] \in {"install", "done"}
<1> USE DEF Launching
<1>0. TypeOK /\ InStep(q)
  BY DEF StepInv
<1>1. ASSUME NEW r \in Runs, Moves(r), q # r PROVE FALSE
  BY <1>0, <1>1, OthersStay DEF StillIs, Passed
<1>2. ASSUME Moves(q) PROVE Look(q) /\ wpc'[q] \in {"install", "done"}
  <2> USE DEF At, In, Goto, Send, Passed
  <2>1. CASE Look(q)
    BY <1>0, <2>1 DEF Look, TypeOK, executor
  <2>2. CASE \/ InstallAgain(q) \/ Install(q) \/ Mark(q) \/ Stop(q) \/ Spawn(q) \/ Ready(q)
             \/ LaunchFails(q) \/ DirectoryGone(q) \/ StopKnown(q)
    BY <1>0, <2>2, TableFacts DEF InstallAgain, Install, Mark, Stop, Spawn, Ready, LaunchFails,
       DirectoryGone, StopKnown, TypeOK, executor
  <2>3. CASE Erase(q)
    BY <1>0, <2>3 DEF Erase, TypeOK, executor, InStep
  <2>4. CASE Leave(q) \/ Kill(q) \/ KillWorker(q)
    BY <1>0, <2>4 DEF Leave, Kill, KillWorker, Dismiss, TypeOK, executor, worker, Ends
  <2>5. CASE \E j \in Commands : Begin(q, j)
    BY <2>5, Beginning
  <2>6. CASE \/ WriteRecord(q) \/ WriteIndex(q) \/ Raise(q) \/ Timeout(q) \/ Refresh(q) \/ Refuse(q)
             \/ Undone(q) \/ Unrecord(q) \/ Unindex(q) \/ Report(q) \/ DropRow(q)
             \/ Unlink(q) \/ Unlist(q)
    BY <1>0, <2>6, TableFacts DEF WriteRecord, WriteIndex, Raise, Timeout, Refresh, Refuse,
       Undone, Unrecord, Unindex, Report, DropRow, Unlink, Unlist, TypeOK, worker, Ends
  <2>7. CASE Call(q)
    BY <1>0, <2>7, TableFacts DEF Call, TypeOK
  <2>8. CASE Return(q)
    BY <1>0, <2>8, TableFacts DEF Return, Dismiss, Ends, TypeOK
  <2>9. CASE \E k \in Kind : PutRow(q, k) \/ Lose(q, k) \/ Undo(q, k)
    <3>1. PICK k \in Kind : PutRow(q, k) \/ Lose(q, k) \/ Undo(q, k)
      BY <2>9
    <3>2. k \in {"gateway", "resource", "server"} /\ wpc'[q] = wpc[q]
      BY <3>1 DEF Kind, PutRow, Lose, Undo, worker
    <3>3. pc'[q] = pc[q] \/ pc'[q] \in {"refresh", "server", "undo", "idle"}
      BY <1>0, <3>1, <3>2, TableFacts DEF PutRow, Lose, Undo, Ends, TypeOK
    <3>4. QED
      BY <3>2, <3>3
  <2>10. QED
    BY <1>2, <2>1, <2>2, <2>3, <2>4, <2>5, <2>6, <2>7, <2>8, <2>9 DEF Moves, Works, Executes
<1>3. CASE (\E p \in Pids : Bind(p) \/ Death(p)) \/ UNCHANGED vars
  BY <1>3, NobodyMoves DEF StillIs, Passed
<1>4. QED
  BY <1>1, <1>2, <1>3, NextMoves

(* Two runs of one service at once: conflicts may be missed.               *)
LEMMA UnsharedStep ==
  ASSUME StepInv, Unshared, [Next]_vars
  PROVE  Unshared'
<1>1. SUFFICES ASSUME NEW r \in Runs, NEW q \in Runs, r # q, Working(r)', Working(q)',
                      Service(r)' = Service(q)'
               PROVE  Port(r)' \in blind'
  BY DEF Unshared
<1>2. blind \subseteq blind'
  BY BlindGrows
<1>3. ASSUME NEW g \in Runs, NEW h \in Runs, g # h, NEW j \in Commands, Begin(g, j), Working(h)',
             Service(g)' = Service(h)'
      PROVE  Port(g)' \in blind'
  <2>1. job'[g] = j /\ StillIs(h)
    BY <1>3, Beginning, OthersStay DEF StepInv, Moves
  <2>2. h \in Busy \ {g} /\ Service(h) = j.service
    BY <1>3, <2>1 DEF Working, Busy, Over, StillIs, Service
  <2>3. PortOf[j.service] \in blind'
    BY <1>3, <2>2 DEF Begin
  <2>4. QED
    BY <2>1, <2>3 DEF Port, Service
<1>4. CASE Working(r) /\ job'[r] = job[r] /\ Working(q) /\ job'[q] = job[q]
  BY <1>1, <1>2, <1>4 DEF Unshared, Port, Service
<1>5. Port(r)' = Port(q)'
  BY <1>1 DEF Port, Service
<1>6. QED
  BY <1>1, <1>3, <1>4, <1>5, Going

(* A runtime command is given up on at the wait only.                      *)
LEMMA OrphanedStep ==
  ASSUME StepInv, Orphaned, [Next]_vars
  PROVE  Orphaned'
<1>1. SUFFICES ASSUME NEW q \in Runs, wpc'[q] \notin Over, pc'[q] \in {"unrecord", "unindex"}
               PROVE  Port(q)' \in blind'
  BY DEF Orphaned
<1>2. blind \subseteq blind' /\ TypeOK /\ InStep(q)
  BY BlindGrows DEF StepInv
<1>3. Working(q) /\ job'[q] = job[q]
  BY <1>1, Going, Beginning DEF Working
<1>4. CASE wpc[q] \notin Over /\ pc[q] \in {"unrecord", "unindex"}
  BY <1>2, <1>3, <1>4 DEF Orphaned, Port, Service
<1>5. CASE ~ (wpc[q] \notin Over /\ pc[q] \in {"unrecord", "unindex"})
  <2>1. ~ StillIs(q)
    BY <1>1, <1>5 DEF StillIs
  <2>2. Moves(q)
    BY <1>2, <2>1, OthersStay, NobodyMoves, NextMoves
  <2>3. CASE Works(q)
    <3>1. wpc[q] \notin Over
      BY <1>1, <1>2, <2>3 DEF Works, Look, InstallAgain, Install, Mark, Stop, Spawn, Ready,
         LaunchFails, DirectoryGone, StopKnown, Erase, Leave, Dismiss, In, Send, Over, TypeOK
    <3>2. pc'[q] = pc[q]
      BY <2>3 DEF Works, Look, InstallAgain, Install, Mark, Stop, Spawn, Ready,
         LaunchFails, DirectoryGone, StopKnown, Erase, Leave, In, executor
    <3>3. QED
      BY <1>1, <1>5, <3>1, <3>2
  <2>4. CASE Kill(q) \/ KillWorker(q) \/ \E j \in Commands : Begin(q, j)
    BY <1>1, <1>2, <2>4, Beginning DEF Kill, KillWorker, Ends, Goto, Send, TypeOK, Over
  <2>5. CASE Executes(q)
    <3>1. CASE Timeout(q)
      <4>1. pc[q] = "wait"
        BY <1>1, <1>2, <3>1, TableFacts DEF Timeout, Goto, TypeOK
      <4>2. QED
        BY <1>3, <3>1, <4>1 DEF Timeout, Port, Service
    <3>2. CASE Call(q)
      BY <1>1, <1>2, <3>2, TableFacts DEF Call, Goto, At, TypeOK
    <3>3. CASE Return(q)
      BY <1>1, <1>2, <3>3 DEF Return, Dismiss, Send, TypeOK, Over
    <3>4. CASE Undone(q)
      <4>1. pc[q] = "undo" /\ wpc'[q] = wpc[q]
        BY <3>4 DEF Undone, At, worker
      <4>2. QED
        BY <1>1, <1>2, <4>1 DEF InStep, Waiting, Over
    <3>5. CASE Unrecord(q)
      BY <1>1, <1>5, <3>5 DEF Unrecord, At, worker
    <3>6. CASE \/ WriteRecord(q) \/ WriteIndex(q) \/ Raise(q) \/ Refresh(q) \/ Refuse(q)
               \/ Unindex(q) \/ Report(q) \/ DropRow(q) \/ Unlink(q) \/ Unlist(q)
      BY <1>1, <1>2, <3>6, TableFacts DEF WriteRecord, WriteIndex, Raise, Refresh, Refuse,
         Unindex, Report, DropRow, Unlink, Unlist, Ends, Goto, At, TypeOK
    <3>7. CASE \E k \in Kind : PutRow(q, k) \/ Lose(q, k) \/ Undo(q, k)
      <4>1. PICK k \in Kind : PutRow(q, k) \/ Lose(q, k) \/ Undo(q, k)
        BY <3>7
      <4>2. pc'[q] = pc[q] \/ pc'[q] \in {"refresh", "server", "undo", "idle"}
        BY <1>2, <4>1, TableFacts DEF PutRow, Lose, Undo, Ends, Goto, At, TypeOK, Kind
      <4>3. wpc'[q] = wpc[q]
        BY <4>1 DEF PutRow, Lose, Undo, worker
      <4>4. QED
        BY <1>1, <1>5, <4>2, <4>3
    <3>8. QED
      BY <2>5, <3>1, <3>2, <3>3, <3>4, <3>5, <3>6, <3>7 DEF Executes
  <2>6. QED
    BY <2>2, <2>3, <2>4, <2>5 DEF Moves
<1>6. QED
  BY <1>4, <1>5

(* Who takes the record of a service away, or leaves it out of the index.  *)
LEMMA RecordTaken ==
  ASSUME StepInv, [Next]_vars, NEW s \in Services, Recorded(s), ~ Recorded(s)'
  PROVE  \/ PortOf[s] \in blind'
         \/ \E q \in Runs : /\ Service(q) = s /\ pc[q] # "idle"
                            /\ Unrecord(q) \/ Unindex(q) \/ Unlink(q) \/ Unlist(q)
<1>0. TypeOK
  BY DEF StepInv
<1>1. index[s] # Nothing /\ record[s] # Nothing /\ (index'[s] = Nothing \/ record'[s] = Nothing)
  BY DEF Recorded
<1>2. PICK q \in Runs : \/ WriteRecord(q) \/ WriteIndex(q) \/ Unrecord(q) \/ Unindex(q)
                        \/ Unlink(q) \/ Unlist(q)
  <2>1. ~ UNCHANGED <<record, index>>
    BY <1>1
  <2>2. ~ UNCHANGED host
    BY <2>1 DEF host
  <2>3. PICK q \in Runs : Moves(q)
    BY <2>2, NextMoves DEF Bind, Death, vars
  <2>4. CASE Executes(q)
    BY <2>1, <2>2, <2>4 DEF Executes, Raise, Call, Return, Timeout, Refresh, Refuse, PutRow, Lose, Undo,
       Undone, Report, DropRow
  <2>5. CASE Works(q)
    BY <2>2, <2>5 DEF Works, Look, InstallAgain, Install, Mark, Stop, Spawn, Ready, LaunchFails,
       DirectoryGone, StopKnown, Erase, Leave, In
  <2>6. QED
    BY <2>1, <2>2, <2>3, <2>4, <2>5 DEF Moves, Kill, KillWorker, Begin
<1>3. InStep(q) /\ saved[q].index \in Files
  BY DEF StepInv, TypeOK, Saved
<1>4. CASE Service(q) = s
  <2>1. pc[q] \in {"upsert", "index"} => job[q].version # Nothing
    BY <1>0, <1>3, JobFacts, DistinctAssumption DEF InStep, ApplyLabel, TypeOK
  <2>2. ~ WriteRecord(q)
    BY <1>0, <1>1, <1>4, <2>1 DEF WriteRecord, At, TypeOK, Files
  <2>3. ~ WriteIndex(q)
    BY <1>0, <1>1, <1>3, <1>4, <2>1 DEF WriteIndex, Reindex, At, TypeOK, Files
  <2>4. QED
    BY <1>2, <1>4, <2>2, <2>3 DEF Unrecord, Unindex, Unlink, Unlist, At
<1>5. CASE Service(q) # s
  <2>1. record'[s] = record[s]
    BY <1>0, <1>2, <1>5 DEF WriteRecord, WriteIndex, Unrecord, Unindex, Unlink, Unlist, TypeOK, Files
  <2>2. WriteIndex(q) \/ Unindex(q) \/ Unlist(q)
    BY <1>1, <1>2, <2>1 DEF WriteRecord, Unrecord, Unlink
  <2>3. PICK entries : Reindex(q, entries)
    BY <2>2 DEF WriteIndex, Unindex, Unlist
  <2>4. index'[s] = Nothing /\ entries[s] = Nothing
    BY <1>1, <2>1, <2>3 DEF Reindex
  <2>5. QED
    BY <1>1, <1>5, <2>3, <2>4 DEF Reindex
<1>6. QED
  BY <1>4, <1>5

(* A run that has passed the look is recorded, or its port is blind.       *)
LEMMA PassedRecordedStep ==
  ASSUME StepInv, Unshared, Orphaned, PassedRecorded, [Next]_vars
  PROVE  PassedRecorded'
<1>1. SUFFICES ASSUME NEW r \in Runs, Passed(r)'
               PROVE  Port(r)' \in blind' \/ Recorded(Service(r))'
  BY DEF PassedRecorded
<1>2. blind \subseteq blind' /\ TypeOK
  BY BlindGrows DEF StepInv
<1>3. Working(r) /\ job'[r] = job[r]
  <2>1. Working(r)'
    BY <1>1 DEF Passed, Working, Over, Launching
  <2>2. QED
    BY <1>1, <2>1, Going, Beginning
<1>a. Service(r) \in Services
  BY <1>2 DEF TypeOK, Service, Job
<1>b. PICK s \in Services : s = Service(r)
  BY <1>a
<1>4. Service(r)' = s /\ Port(r)' = PortOf[s] /\ Port(r) = PortOf[s]
  BY <1>3, <1>b DEF Service, Port
<1>5. SUFFICES PortOf[s] \in blind' \/ Recorded(s)'
  BY <1>4 DEF Recorded, Service
<1>6. CASE ~ Passed(r)
  <2>1. Look(r) /\ wpc'[r] \in {"install", "done"}
    BY <1>1, <1>6, PassedNew
  <2>2. Recorded(s)
    BY <1>2, <1>b, <2>1 DEF Look, Send, In, TypeOK, Recorded
  <2>3. UNCHANGED <<index, record>>
    BY <2>1 DEF Look, In, host
  <2>4. QED
    BY <2>2, <2>3 DEF Recorded
<1>7. CASE Passed(r)
  <2>1. Port(r) \in blind \/ Recorded(s)
    BY <1>7, <1>b DEF PassedRecorded
  <2>2. SUFFICES ASSUME Recorded(s), ~ Recorded(s)', PortOf[s] \notin blind' PROVE FALSE
    BY <1>2, <1>4, <2>1
  <2>3. PICK q \in Runs : /\ Service(q) = s /\ pc[q] # "idle"
                          /\ Unrecord(q) \/ Unindex(q) \/ Unlink(q) \/ Unlist(q)
    BY <2>2, RecordTaken
  <2>4. CASE q # r
    BY <1>2, <1>3, <1>4, <1>b, <2>2, <2>3, <2>4 DEF Unshared, Working
  <2>5. CASE q = r
    <3>1. CASE Unrecord(r) \/ Unindex(r)
      <4>1. pc[r] \in {"unrecord", "unindex"} /\ wpc[r] \notin Over
        BY <1>7, <3>1 DEF Unrecord, Unindex, At, Passed, Launching, Over
      <4>2. QED
        BY <1>2, <1>4, <2>2, <4>1 DEF Orphaned
    <3>2. CASE Unlink(r) \/ Unlist(r)
      <4>1. pc[r] \in DeleteLabel /\ pc[r] \notin {"wait", "gateway"}
        BY <3>2 DEF Unlink, Unlist, At, DeleteLabel
      <4>2. QED
        BY <1>7, <4>1 DEF StepInv, InStep, Passed
    <3>3. QED
      BY <2>3, <2>5, <3>1, <3>2
  <2>6. QED
    BY <2>4, <2>5
<1>8. QED
  BY <1>6, <1>7

(* Who changes the gateway row of a service, and to what.                  *)
LEMMA RowChanged ==
  ASSUME StepInv, [Next]_vars, NEW s \in Services, rows'["gateway"][s] # rows["gateway"][s]
  PROVE  \E q \in Runs :
           /\ Service(q) = s /\ Working(q)
           /\ \/ pc[q] = "gateway" /\ rows'["gateway"][s] # Nothing
              \/ /\ Undo(q, "gateway") /\ rows'["gateway"][s] = saved[q].rows["gateway"]
                 /\ saved[q].rows["gateway"] # Untouched
              \/ DropRow(q) /\ rows'["gateway"][s] = Nothing
<1>0. TypeOK
  BY DEF StepInv
<1>1. PICK q \in Runs : Executes(q)
  <2>1. ~ UNCHANGED rows
    OBVIOUS
  <2>2. PICK q \in Runs : Moves(q)
    BY <2>1, NextMoves DEF Bind, Death, vars
  <2>3. ~ Works(q)
    BY <2>1 DEF Works, Look, InstallAgain, Install, Mark, Stop, Spawn, Ready, LaunchFails,
       DirectoryGone, StopKnown, Erase, Leave, In
  <2>4. QED
    BY <2>1, <2>2, <2>3 DEF Moves, Kill, KillWorker, Begin
<1>2. CASE DropRow(q)
  <2>1. rows' = [rows EXCEPT ![Dropped[pc[q]]][Service(q)] = Nothing]
    BY <1>2 DEF DropRow
  <2>2. Dropped[pc[q]] = "gateway" /\ Service(q) = s
    BY <1>0, <2>1 DEF TypeOK, Kind, Files
  <2>3. rows'["gateway"][s] = Nothing /\ pc[q] # "idle"
    BY <1>0, <1>2, <2>1, <2>2, TableFacts DEF TypeOK, Kind, Files, DropRow, At
  <2>4. QED
    BY <1>2, <2>2, <2>3 DEF Working
<1>3. CASE ~ DropRow(q)
  <2>1. PICK k \in Kind : PutRow(q, k) \/ Lose(q, k) \/ Undo(q, k)
    BY <1>1, <1>3 DEF Executes, WriteRecord, WriteIndex, Raise, Call, Return, Timeout, Refresh, Refuse,
       Undone, Unrecord, Unindex, Report, Unlink, Unlist
  <2>2. CASE PutRow(q, k) \/ Lose(q, k)
    <3>1. rows' = [rows EXCEPT ![k][Service(q)] = job[q].version] /\ pc[q] = k
      BY <2>2 DEF PutRow, Lose, Put, At
    <3>2. k = "gateway" /\ Service(q) = s
      BY <1>0, <3>1 DEF TypeOK, Kind, Files
    <3>3. job[q].version # Nothing
      BY <1>0, <3>1, <3>2, JobFacts, DistinctAssumption DEF StepInv, InStep, ApplyLabel, TypeOK
    <3>4. rows'["gateway"][s] = job[q].version
      BY <1>0, <3>1, <3>2 DEF TypeOK, Kind, Files
    <3>5. QED
      BY <3>1, <3>2, <3>3, <3>4 DEF Working
  <2>3. CASE Undo(q, k)
    <3>1. rows' = [rows EXCEPT ![k][Service(q)] = saved[q].rows[k]]
      BY <2>3 DEF Undo
    <3>2. k = "gateway" /\ Service(q) = s
      BY <1>0, <3>1 DEF TypeOK, Kind, Files
    <3>3. rows'["gateway"][s] = saved[q].rows["gateway"]
      BY <1>0, <3>1, <3>2 DEF TypeOK, Kind, Files
    <3>4. saved[q].rows["gateway"] # Untouched /\ pc[q] # "idle"
      BY <2>3, <3>2 DEF Undo, First, ToUndo, At
    <3>5. QED
      BY <2>3, <3>2, <3>3, <3>4 DEF Working
  <2>4. QED
    BY <2>1, <2>2, <2>3
<1>4. QED
  BY <1>2, <1>3

(* What a run notes of the gateway row.                                    *)
LEMMA NoteChanged ==
  ASSUME StepInv, [Next]_vars, NEW r \in Runs,
         saved'[r].rows["gateway"] # saved[r].rows["gateway"],
         saved'[r].rows["gateway"] \notin {Untouched, Nothing}
  PROVE  pc[r] = "gateway" /\ rows'["gateway"][Service(r)] # Nothing
<1>0. TypeOK /\ InStep(r) /\ saved[r] \in Saved /\ Service(r) \in Services
  BY DEF StepInv, TypeOK, Service, Job
<1>1. Moves(r)
  <2>1. ~ StillIs(r)
    BY DEF StillIs
  <2>2. QED
    BY <1>0, <2>1, OthersStay, NobodyMoves, NextMoves
<1>2. ~ Ends(r)
  BY <1>0 DEF Ends, NothingSaved, Kind, TypeOK
<1>3. \/ Refuse(r)
      \/ \E k \in Kind : PutRow(r, k) \/ Undo(r, k)
  <2>1. saved' # saved
    OBVIOUS
  <2>2. ~ (Works(r) \/ Kill(r) \/ KillWorker(r) \/ \E j \in Commands : Begin(r, j))
    BY <1>2, <2>1 DEF Works, Look, InstallAgain, Install, Mark, Stop, Spawn, Ready, LaunchFails,
       DirectoryGone, StopKnown, Erase, Leave, In, executor, Kill, KillWorker, Begin
  <2>3. ~ (WriteRecord(r) \/ Unlink(r) \/ Return(r))
    <3>1. WriteRecord(r) => saved'[r].rows = saved[r].rows
      BY <1>0 DEF WriteRecord, Saved, TypeOK
    <3>2. Unlink(r) => saved'[r].rows = saved[r].rows
      BY <1>0 DEF Unlink, Saved, TypeOK
    <3>3. Return(r) => saved' = saved \/ saved' = [saved EXCEPT ![r].stage = "registration"]
      BY <1>2 DEF Return
    <3>4. Return(r) => saved'[r].rows = saved[r].rows
      BY <1>0, <3>3 DEF Saved, TypeOK
    <3>5. QED
      BY <3>1, <3>2, <3>4
  <2>4. QED
    BY <1>1, <1>2, <2>1, <2>2, <2>3 DEF Moves, Executes, WriteIndex, Raise, Call, Timeout, Refresh,
       Lose, Undone, Unrecord, Unindex, Report, DropRow, Unlist
<1>4. CASE Refuse(r)
  <2>1. saved' = Noted(r, pc[r]) /\ pc[r] \in Kind /\ rows[pc[r]][Service(r)] # Nothing /\ rows' = rows
    BY <1>4 DEF Refuse, At, Kind
  <2>2. pc[r] = "gateway"
    BY <1>0, <2>1 DEF Noted, TypeOK, Saved, Kind
  <2>3. QED
    BY <2>1, <2>2
<1>5. CASE \E k \in Kind : PutRow(r, k)
  <2>1. PICK k \in Kind : PutRow(r, k)
    BY <1>5
  <2>2. saved' = Noted(r, k) /\ pc[r] = k /\ rows' = [rows EXCEPT ![k][Service(r)] = job[r].version]
    BY <1>2, <2>1 DEF PutRow, At, Put
  <2>3. k = "gateway"
    BY <1>0, <2>2 DEF Noted, TypeOK, Saved, Kind
  <2>4. job[r].version # Nothing
    BY <1>0, <2>2, <2>3, JobFacts, DistinctAssumption DEF InStep, ApplyLabel, TypeOK
  <2>5. QED
    BY <1>0, <2>2, <2>3, <2>4 DEF TypeOK, Kind, Files
<1>6. CASE \E k \in Kind : Undo(r, k)
  <2>1. PICK k \in Kind : Undo(r, k)
    BY <1>6
  <2>2. saved' = [saved EXCEPT ![r].rows[k] = Untouched]
    BY <2>1 DEF Undo
  <2>3. QED
    BY <1>0, <2>2 DEF TypeOK, Saved, Kind
<1>7. QED
  BY <1>3, <1>4, <1>5, <1>6

(* A row that a run has noted is there until it puts it back.              *)
LEMMA NoticedStep ==
  ASSUME StepInv, StepInv', Unshared, Noticed, [Next]_vars
  PROVE  Noticed'
<1>1. SUFFICES ASSUME NEW r \in Runs, saved'[r].rows["gateway"] \notin {Untouched, Nothing}
               PROVE  Port(r)' \in blind' \/ rows'["gateway"][Service(r)'] # Nothing
  BY DEF Noticed
<1>2. blind \subseteq blind' /\ TypeOK
  BY BlindGrows DEF StepInv
<1>3. Working(r) /\ job'[r] = job[r]
  <2>1. Working(r)'
    BY <1>1 DEF StepInv, InStep, Working, Registering
  <2>2. QED
    BY <1>1, <2>1, Going, Beginning
<1>a. Service(r) \in Services
  BY <1>2 DEF TypeOK, Service, Job
<1>b. PICK s \in Services : s = Service(r)
  BY <1>a
<1>4. Service(r)' = s /\ Port(r)' = PortOf[s] /\ Port(r) = PortOf[s]
  BY <1>3, <1>b DEF Service, Port
<1>5. CASE saved'[r].rows["gateway"] # saved[r].rows["gateway"]
  BY <1>1, <1>4, <1>5, <1>b, NoteChanged
<1>6. CASE saved'[r].rows["gateway"] = saved[r].rows["gateway"]
  <2>1. Port(r) \in blind \/ rows["gateway"][s] # Nothing
    BY <1>1, <1>6, <1>b DEF Noticed
  <2>2. SUFFICES ASSUME rows["gateway"][s] # Nothing, rows'["gateway"][s] = Nothing, PortOf[s] \notin blind
                 PROVE  FALSE
    BY <1>2, <1>4, <2>1
  <2>3. PICK q \in Runs : /\ Service(q) = s /\ Working(q)
                          /\ Undo(q, "gateway") \/ DropRow(q)
    BY <2>2, RowChanged
  <2>4. CASE q # r
    BY <1>3, <1>4, <1>b, <2>2, <2>3, <2>4 DEF Unshared
  <2>5. CASE q = r /\ Undo(q, "gateway")
    <3>1. saved'[r].rows["gateway"] = Untouched
      BY <1>2, <2>5 DEF Undo, TypeOK, Saved, Kind
    <3>2. QED
      BY <1>1, <3>1
  <2>6. CASE q = r /\ DropRow(q)
    <3>1. pc[r] \notin Registering
      BY <2>6, TableFacts DEF DropRow, At, Registering
    <3>2. QED
      BY <1>1, <1>6, <3>1 DEF StepInv, InStep
  <2>7. QED
    BY <2>3, <2>4, <2>5, <2>6
<1>7. QED
  BY <1>5, <1>6

(* A service becomes active by a look that has met no conflict.            *)
LEMMA ActiveNew ==
  ASSUME StepInv, [Next]_vars, NEW s \in Services, Active(s)', ~ Active(s)
  PROVE  \E r \in Runs : Look(r) /\ Service(r) = s /\ wpc'[r] = "install" /\ ~ Conflict(s)
<1>0. TypeOK
  BY DEF StepInv
<1>1. ~ Running(s)
  BY DEF Active
<1>2. CASE Running(s)'
  <2>1. state'[s] # state[s]
    BY <1>1, <1>2, RunningStays
  <2>2. PICK r \in Runs : Moves(r)
    BY <2>1, NobodyMoves, NextMoves
  <2>3. Ready(r) \/ Erase(r)
    BY <2>1, <2>2, RuntimeKept DEF Moves, Works, Look, InstallAgain, Install, Mark, Stop,
       Spawn, LaunchFails, DirectoryGone, StopKnown, runtime
  <2>4. s = Service(r)
    BY <1>0, <2>1, <2>3 DEF Ready, Erase, TypeOK
  <2>5. CASE Ready(r)
    <3>1. Passed(r)
      BY <2>5 DEF Ready, In, Passed, Launching
    <3>2. QED
      BY <2>4, <3>1 DEF Active
  <2>6. CASE Erase(r)
    <3>1. state'[s].pid = Nothing
      BY <1>0, <2>4, <2>6 DEF Erase, TypeOK, NoState
    <3>2. QED
      BY <1>2, <3>1 DEF Running, Alive
  <2>7. QED
    BY <2>3, <2>5, <2>6
<1>3. CASE ~ Running(s)'
  <2>1. PICK r \in Runs : Service(r)' = s /\ Passed(r)'
    BY <1>3 DEF Active, Service
  <2>2. Service(r) = s
    <3>1. Working(r)'
      BY <2>1 DEF Passed, Working, Over, Launching
    <3>2. QED
      BY <2>1, <3>1, Going, Beginning DEF Service
  <2>3. ~ Passed(r)
    BY <2>2 DEF Active
  <2>4. Look(r) /\ wpc'[r] \in {"install", "done"}
    BY <2>1, <2>3, PassedNew
  <2>5. wpc'[r] = "install" /\ ~ Conflict(s)
    BY <1>0, <1>1, <2>2, <2>4 DEF Look, Send, In, TypeOK
  <2>6. QED
    BY <2>2, <2>4, <2>5
<1>4. QED
  BY <1>2, <1>3

(* Of two services with one port one is active at most.                    *)
LEMMA OneActiveStep ==
  ASSUME StepInv, PassedRecorded, OneActive, [Next]_vars
  PROVE  OneActive'
<1>0. TypeOK /\ blind \subseteq blind'
  BY BlindGrows DEF StepInv
<1>1. SUFFICES ASSUME NEW s \in Services, NEW t \in Services, Rivals(s, t)', Active(s)', Active(t)'
               PROVE  FALSE
  BY DEF OneActive
<1>2. Rivals(s, t) /\ Rivals(t, s)
  BY <1>0, <1>1 DEF Rivals
<1>3. ASSUME NEW a \in Services, NEW b \in Services, Rivals(a, b), Active(a)', ~ Active(a), Active(b)'
      PROVE  FALSE
  <2>1. PICK r \in Runs : Look(r) /\ Service(r) = a /\ wpc'[r] = "install" /\ ~ Conflict(a)
    BY <1>3, ActiveNew
  <2>2. ~ Running(b) /\ ~ Recorded(b)
    BY <1>3, <2>1 DEF Conflict, Rivals, Recorded
  <2>3. ~ Active(b)
    <3>1. ASSUME NEW q \in Runs, Service(q) = b, Passed(q) PROVE FALSE
      BY <1>3, <2>2, <3>1 DEF PassedRecorded, Rivals, Port
    <3>2. QED
      BY <2>2, <3>1 DEF Active
  <2>4. PICK q \in Runs : Look(q) /\ Service(q) = b /\ wpc'[q] = "install"
    BY <1>3, <2>3, ActiveNew
  <2>5. q # r
    BY <1>3, <2>1, <2>4 DEF Rivals
  <2>6. wpc'[q] = wpc[q] /\ wpc[q] = "look"
    BY <1>0, <2>1, <2>4, <2>5 DEF Look, Send, In, TypeOK
  <2>7. QED
    BY <2>4, <2>6
<1>4. QED
  BY <1>1, <1>2, <1>3 DEF OneActive

(* A row comes into being from a run that stands at the gateway, when what *)
(* is put back was there.                                                  *)
LEMMA RowNew ==
  ASSUME StepInv, Noticed, [Next]_vars, NEW s \in Services, PortOf[s] \notin blind,
         rows["gateway"][s] = Nothing, rows'["gateway"][s] # Nothing
  PROVE  \E q \in Runs : Service(q) = s /\ pc[q] = "gateway"
<1>1. PICK q \in Runs : /\ Service(q) = s
                        /\ \/ pc[q] = "gateway"
                           \/ saved[q].rows["gateway"] \notin {Untouched, Nothing}
  BY RowChanged
<1>2. \A g \in Runs : saved[g].rows["gateway"] \notin {Untouched, Nothing} => Service(g) # s
  BY DEF Noticed, Port
<1>3. QED
  BY <1>1, <1>2

(* A run comes to the gateway when no row of another service has its port. *)
LEMMA GatewayNew ==
  ASSUME StepInv, [Next]_vars, NEW r \in Runs, pc'[r] = "gateway", pc[r] # "gateway"
  PROVE  /\ Service(r)' = Service(r) /\ Passed(r) /\ ~ UrlTaken(Service(r))
<1>0. TypeOK
  BY DEF StepInv
<1>1. Working(r)' /\ ~ \E j \in Commands : Begin(r, j)
  BY Beginning DEF Working
<1>2. job'[r] = job[r]
  BY <1>1, Going
<1>3. Moves(r)
  <2>1. ~ StillIs(r)
    BY DEF StillIs
  <2>2. QED
    BY <1>0, <2>1, OthersStay, NobodyMoves, NextMoves
<1>4. Return(r)
  <2>1. ~ (Works(r) \/ Kill(r) \/ KillWorker(r))
    BY <1>0 DEF Works, Look, InstallAgain, Install, Mark, Stop, Spawn, Ready, LaunchFails,
       DirectoryGone, StopKnown, Erase, Leave, In, executor, Kill, KillWorker, Ends, Goto, TypeOK
  <2>2. ~ \E k \in Kind : PutRow(r, k) \/ Lose(r, k) \/ Undo(r, k)
    <3>1. ASSUME NEW k \in Kind, PutRow(r, k) \/ Lose(r, k) \/ Undo(r, k) PROVE FALSE
      <4>1. pc'[r] = pc[r] \/ pc'[r] \in {"refresh", "server", "undo", "idle"}
        BY <1>0, <3>1, TableFacts DEF PutRow, Lose, Undo, Ends, Goto, At, TypeOK, Kind
      <4>2. QED
        BY <4>1
    <3>2. QED
      BY <3>1
  <2>3. QED
    BY <1>0, <1>1, <1>3, <2>1, <2>2, TableFacts DEF Moves, Executes, WriteRecord, WriteIndex, Raise, Call,
       Timeout, Refresh, Refuse, Undone, Unrecord, Unindex, Report, DropRow, Unlink, Unlist, Ends,
       Goto, At, TypeOK
<1>5. pc[r] = "wait" /\ wpc[r] = "done" /\ ~ UrlTaken(Service(r))
  BY <1>0, <1>4, TableFacts DEF Return, At, Goto, Ends, TypeOK
<1>6. QED
  BY <1>2, <1>5 DEF Service, Passed

(* A run that stands at the gateway makes its service active.              *)
LEMMA OneRowStep ==
  ASSUME StepInv, Noticed, OneActive, OneRow, [Next]_vars
  PROVE  OneRow'
<1>0. TypeOK /\ blind \subseteq blind'
  BY BlindGrows DEF StepInv
<1>1. SUFFICES ASSUME NEW s \in Services, NEW t \in Services, Rivals(s, t)', rows'["gateway"][s] # Nothing
               PROVE  /\ rows'["gateway"][t] = Nothing
                      /\ \A r \in Runs : Service(r)' = t => pc'[r] # "gateway"
  BY DEF OneRow, Service
<1>2. Rivals(s, t) /\ Rivals(t, s) /\ PortOf[s] \notin blind /\ PortOf[t] \notin blind
  BY <1>0, <1>1 DEF Rivals
<1>3. ASSUME NEW r \in Runs, Service(r)' = t, pc'[r] = "gateway"
      PROVE  Service(r) = t /\ Passed(r) /\ (pc[r] = "gateway" \/ rows["gateway"][s] = Nothing)
  <2>1. CASE pc[r] = "gateway"
    <3>1. Working(r)' /\ ~ \E j \in Commands : Begin(r, j)
      BY <1>3, Beginning DEF Working
    <3>2. job'[r] = job[r]
      BY <3>1, Going
    <3>3. QED
      BY <1>3, <2>1, <3>2 DEF Service, Passed
  <2>2. CASE pc[r] # "gateway"
    BY <1>2, <1>3, <2>2, GatewayNew DEF UrlTaken, Rivals
  <2>3. QED
    BY <2>1, <2>2
<1>4. CASE rows["gateway"][s] # Nothing
  <2>1. /\ rows["gateway"][t] = Nothing
        /\ \A r \in Runs : Service(r) = t => pc[r] # "gateway"
    BY <1>2, <1>4 DEF OneRow
  <2>2. QED
    BY <1>2, <1>3, <1>4, <2>1, RowNew
<1>5. CASE rows["gateway"][s] = Nothing
  <2>1. PICK q \in Runs : Service(q) = s /\ pc[q] = "gateway"
    BY <1>1, <1>2, <1>5, RowNew
  <2>2. \A r \in Runs : Service(r) = t => ~ Passed(r)
    BY <1>2, <2>1 DEF OneActive, Active, Passed
  <2>3. rows["gateway"][t] = Nothing
    BY <1>2, <2>1 DEF OneRow
  <2>4. rows'["gateway"][t] = Nothing
    BY <1>2, <2>2, <2>3, RowNew DEF Passed
  <2>5. QED
    BY <1>3, <2>2, <2>4
<1>6. QED
  BY <1>4, <1>5

LEMMA GatewayInit == Init => GatewayInv
<1>1. SUFFICES ASSUME Init PROVE GatewayInv
  OBVIOUS
<1>2. \A r \in Runs : ~ Working(r) /\ ~ Passed(r) /\ saved[r] = NothingSaved
                      /\ pc[r] = "idle"
  BY <1>1 DEF Init, Working, Passed, Over, Launching
<1>3. NothingSaved.rows["gateway"] = Untouched
  BY DEF NothingSaved, Kind
<1>4. Unshared /\ Orphaned /\ PassedRecorded /\ Noticed
  BY <1>2, <1>3 DEF Unshared, Orphaned, PassedRecorded, Noticed
<1>5. \A s \in Services : ~ Running(s) /\ rows["gateway"][s] = Nothing
  BY <1>1 DEF Init, Running, Alive, NoState, Kind
<1>6. OneActive /\ OneRow
  BY <1>2, <1>5 DEF OneActive, Active, OneRow
<1>7. QED
  BY <1>4, <1>6 DEF GatewayInv

LEMMA GatewayStep == StepInv /\ StepInv' /\ GatewayInv /\ [Next]_vars => GatewayInv'
BY UnsharedStep, OrphanedStep, PassedRecordedStep, NoticedStep, OneActiveStep, OneRowStep DEF GatewayInv

(* Two services whose endpoints have one port are never both registered at *)
(* the gateway, however runs overlap, fail and are given up on, while      *)
(* nothing has blinded the look for conflicts on that port.                *)
THEOREM OneGateway == Spec => []OneGatewayPerPort
<1>1. GatewayInv => OneGatewayPerPort
  BY DEF GatewayInv, OneRow, Rivals, OneGatewayPerPort
<1>2. QED
  BY <1>1, StepInit, StepStep, GatewayInit, GatewayStep, PTL DEF Spec

-------------------------------------------------------------------------------
(* Quiet runs.                                                             *)

LEMMA NowTypes ==
  ASSUME TypeOK
  PROVE  Now \in Origin /\ Blank \in Origin
<1>1. \A s \in Services : Served(s) \in Content \cup {Torn}
  <2>1. SUFFICES ASSUME NEW s \in Services PROVE Served(s) \in Content \cup {Torn}
    OBVIOUS
  <2>2. listener[PortOf[s]] \in Pids \cup {Nothing}
    BY PortAssumption DEF TypeOK
  <2>3. CASE listener[PortOf[s]] = Nothing
    BY <2>3 DEF Served, Content
  <2>4. CASE listener[PortOf[s]] # Nothing
    BY <2>2, <2>4 DEF Served, Content, TypeOK, Bridge, NoBridge
  <2>5. QED
    BY <2>3, <2>4
<1>2. [s \in Services |-> Served(s)] \in [Services -> Content \cup {Torn, Died}]
  BY <1>1
<1>3. Now \in Origin
  BY <1>2 DEF Now, Origin, TypeOK
<1>4. [s \in Services |-> Nothing] \in Files /\ [s \in Services |-> Nothing] \in [Services -> Content \cup {Torn, Died}]
  BY DEF Files, Content
<1>5. [k \in Kind |-> [s \in Services |-> Nothing]] \in [Kind -> Files]
  BY <1>4
<1>6. QED
  BY <1>3, <1>4, <1>5 DEF Blank, Origin

(* What a step of a run does to what is noted of the beginnings.           *)
LEMMA OriginMoves ==
  ASSUME NEW r \in Runs, Moves(r)
  PROVE  \/ origin' = origin
         \/ origin' = [origin EXCEPT ![r] = Blank] /\ pc' = [pc EXCEPT ![r] = "idle"]
         \/ origin' = [origin EXCEPT ![r] = Now] /\ \E j \in Commands : Begin(r, j)
<1>1. CASE Executes(r)
  BY <1>1 DEF Executes, WriteRecord, WriteIndex, Raise, Call, Return, Timeout, Refresh,
     Refuse, PutRow, Lose, Undo, Undone, Unrecord, Unindex, Report, DropRow, Unlink, Unlist,
     Ends, Goto
<1>2. CASE Works(r)
  BY <1>2 DEF Works, Look, InstallAgain, Install, Mark, Stop, Spawn, Ready, LaunchFails,
     DirectoryGone, StopKnown, Erase, Leave, In, history
<1>3. QED
  BY <1>1, <1>2 DEF Moves, Kill, KillWorker, Begin, Ends, Goto

LEMMA OriginStep ==
  ASSUME TypeOK, OriginInv, [Next]_vars
  PROVE  OriginInv'
<1>1. ASSUME NEW r \in Runs, Moves(r) PROVE OriginInv'
  BY <1>1, OriginMoves, NowTypes DEF OriginInv
<1>2. ASSUME NEW p \in Pids, Death(p) PROVE OriginInv'
  <2>1. \A r \in Runs : \A s : \A v \in {Torn, Died} : [origin[r] EXCEPT !.served[s] = v] \in Origin
    BY DEF OriginInv, Origin
  <2>2. QED
    BY <1>2, <2>1 DEF Death, OriginInv
<1>3. QED
  BY <1>1, <1>2, NextMoves DEF Bind, history, OriginInv, vars

(* Only a beginning may set a run at rest.                                 *)
LEMMA DisturbedGrows ==
  ASSUME NEW r \in Runs, Executes(r) \/ Works(r) \/ Kill(r) \/ KillWorker(r)
  PROVE  disturbed \subseteq disturbed'
<1>1. CASE Executes(r)
  BY <1>1 DEF Executes, At, WriteRecord, WriteIndex, Raise, Call, Return, Timeout, Refresh,
     Refuse, PutRow, Lose, Undo, Undone, Unrecord, Unindex, Report, DropRow, Unlink, Unlist
<1>2. CASE Works(r)
  BY <1>2 DEF Works, Look, InstallAgain, Install, Mark, Stop, Spawn, Ready, LaunchFails,
     DirectoryGone, StopKnown, Erase, Leave, In, history
<1>3. QED
  BY <1>1, <1>2 DEF Kill, KillWorker

(* A run that is quiet after a step has just begun alone, or made the step *)
(* itself, or nobody has.                                                  *)
LEMMA QuietMoves ==
  ASSUME StepInv, OriginInv, \A g \in Runs : Solo(g), [Next]_vars, NEW r \in Runs, Quiet(r)'
  PROVE  \/ \E j \in Commands : Begin(r, j) /\ Busy = {}
         \/ /\ Quiet(r) /\ Moves(r) /\ ~ \E j \in Commands : Begin(r, j)
            /\ origin'[r] = origin[r] /\ job'[r] = job[r]
         \/ Quiet(r) /\ ((\E p \in Pids : Bind(p) \/ Death(p)) \/ UNCHANGED vars)
<1>0. TypeOK
  BY DEF StepInv
<1>1. ASSUME NEW j \in Commands, Begin(r, j) PROVE Busy = {}
  <2>1. CASE Busy \ {r} = {}
    BY <1>1, <2>1 DEF Begin
  <2>2. CASE Busy \ {r} # {}
    BY <1>1, <2>2 DEF Begin, Quiet
  <2>3. QED
    BY <2>1, <2>2
<1>2. ASSUME NEW q \in Runs, Moves(q), q # r PROVE FALSE
  <2>1. StillIs(r)
    BY <1>0, <1>2, OthersStay
  <2>2. CASE \E j \in Commands : Begin(q, j)
    <3>1. PICK j \in Commands : Begin(q, j)
      BY <2>2
    <3>2. r \in Busy \ {q}
      BY <1>2, <2>1 DEF Busy, StillIs, Quiet
    <3>3. QED
      BY <3>1, <3>2 DEF Begin, Quiet
  <2>3. CASE Executes(q) \/ Works(q) \/ Kill(q) \/ KillWorker(q)
    <3>1. Quiet(r)
      BY <2>1, <2>3, DisturbedGrows DEF Quiet, StillIs
    <3>2. q \in Busy
      BY <2>3, WorkGoesOn
    <3>3. QED
      BY <1>2, <3>1, <3>2 DEF Solo
  <2>4. QED
    BY <1>2, <2>2, <2>3 DEF Moves
<1>3. ASSUME Moves(r), ~ \E j \in Commands : Begin(r, j)
      PROVE  Quiet(r) /\ origin'[r] = origin[r] /\ job'[r] = job[r]
  <2>1. Executes(r) \/ Works(r) \/ Kill(r) \/ KillWorker(r)
    BY <1>3 DEF Moves
  <2>2. disturbed \subseteq disturbed'
    BY <2>1, DisturbedGrows
  <2>3. job'[r] = job[r]
    BY <2>1, WorkGoesOn DEF Quiet, Working
  <2>4. pc[r] # "idle"
    <3>1. CASE Works(r)
      BY <3>1 DEF Works, Look, InstallAgain, Install, Mark, Stop, Spawn, Ready, LaunchFails,
         DirectoryGone, StopKnown, Erase, Leave, In, executor, Quiet
    <3>2. CASE KillWorker(r) \/ Kill(r)
      BY <3>2 DEF KillWorker, Kill, executor, Quiet
    <3>3. CASE Executes(r)
      BY <3>3, TableFacts DEF Executes, WriteRecord, WriteIndex, Raise, Call, Return, Timeout, Refresh,
         Refuse, PutRow, Lose, Undo, Undone, Unrecord, Unindex, Report, DropRow, Unlink, Unlist, At, Kind
    <3>4. QED
      BY <2>1, <3>1, <3>2, <3>3
  <2>5. origin' = origin
    BY <1>0, <1>3, OriginMoves DEF Quiet, TypeOK
  <2>6. QED
    BY <2>2, <2>3, <2>4, <2>5 DEF Quiet
<1>4. ASSUME (\E p \in Pids : Bind(p) \/ Death(p)) \/ UNCHANGED vars PROVE Quiet(r)
  BY <1>4 DEF Bind, Death, executor, history, vars, Quiet
<1>5. QED
  BY <1>1, <1>2, <1>3, <1>4, NextMoves

LEMMA SoloStep ==
  ASSUME StepInv, OriginInv, \A g \in Runs : Solo(g), [Next]_vars, NEW r \in Runs
  PROVE  Solo(r)'
<1>0. TypeOK /\ InStep(r)
  BY DEF StepInv
<1>1. SUFFICES ASSUME Quiet(r)' PROVE Busy' = {r} /\ (wpc'[r] # "none" => pc'[r] \in Waiting)
  BY DEF Solo
<1>2. ASSUME NEW j \in Commands, Begin(r, j), Busy = {}
      PROVE  Busy' = {r} /\ (wpc'[r] # "none" => pc'[r] \in Waiting)
  BY <1>0, <1>2, Beginning, OthersStay DEF Moves, Busy, StillIs
<1>3. ASSUME Quiet(r), Moves(r), ~ \E j \in Commands : Begin(r, j)
      PROVE  Busy' = {r} /\ (wpc'[r] # "none" => pc'[r] \in Waiting)
  <2>1. Busy = {r} /\ (wpc[r] # "none" => pc[r] \in Waiting)
    BY <1>3 DEF Solo
  <2>2. Busy' = {r}
    BY <1>0, <1>1, <1>3, <2>1, OthersStay DEF Busy, StillIs, Quiet
  <2>3. CASE Works(r) \/ KillWorker(r) \/ Kill(r)
    BY <1>0, <1>1, <2>1, <2>2, <2>3 DEF Works, Look, InstallAgain, Install, Mark, Stop, Spawn, Ready,
       LaunchFails, DirectoryGone, StopKnown, Erase, Leave, Dismiss, In, Send, executor, KillWorker,
       Kill, Ends, Goto, Quiet, TypeOK
  <2>4. CASE Executes(r)
    <3>1. ~ Timeout(r)
      BY <1>0, <1>1 DEF Timeout, Quiet, TypeOK
    <3>2. CASE Call(r)
      BY <1>0, <2>2, <3>2, TableFacts DEF Call, Goto, At, TypeOK, Waiting
    <3>3. CASE Return(r)
      BY <1>0, <2>2, <3>3 DEF Return, Dismiss, Send, TypeOK
    <3>4. CASE ~ (Call(r) \/ Return(r))
      <4>1. wpc'[r] = wpc[r] /\ pc[r] \notin Waiting
        BY <2>4, <3>1, <3>4, TableFacts DEF Executes, At, WriteRecord, WriteIndex, Raise, Refresh,
           Refuse, PutRow, Lose, Undo, Undone, Unrecord, Unindex, Report, DropRow, Unlink, Unlist,
           worker, Kind, Waiting
      <4>2. QED
        BY <2>1, <2>2, <4>1
    <3>5. QED
      BY <3>2, <3>3, <3>4
  <2>5. QED
    BY <1>3, <2>3, <2>4 DEF Moves
<1>4. ASSUME Quiet(r), (\E p \in Pids : Bind(p) \/ Death(p)) \/ UNCHANGED vars
      PROVE  Busy' = {r} /\ (wpc'[r] # "none" => pc'[r] \in Waiting)
  BY <1>4, NobodyMoves DEF Solo, Busy, executor, worker
<1>5. QED
  BY <1>1, <1>2, <1>3, <1>4, QuietMoves

(* When nobody moves, all but the bridges and what was served is as it was. *)
LEMMA NobodyHost ==
  ASSUME OriginInv, (\E p \in Pids : Bind(p) \/ Death(p)) \/ UNCHANGED vars
  PROVE  /\ UNCHANGED <<host, rows, state, marker, tree, executor, worker, disturbed, strayed, spoilt>>
         /\ \A r \in Runs : /\ origin'[r].record = origin[r].record
                            /\ origin'[r].index = origin[r].index
                            /\ origin'[r].rows = origin[r].rows
<1>1. ASSUME NEW p \in Pids, Bind(p)
      PROVE  /\ UNCHANGED <<host, rows, state, marker, tree, executor, worker, disturbed, strayed, spoilt>>
             /\ origin' = origin
  BY <1>1 DEF Bind, history
<1>2. ASSUME UNCHANGED vars
      PROVE  /\ UNCHANGED <<host, rows, state, marker, tree, executor, worker, disturbed, strayed, spoilt>>
             /\ origin' = origin
  BY <1>2 DEF vars, history, runtime
<1>3. ASSUME NEW p \in Pids, Death(p)
      PROVE  /\ UNCHANGED <<host, rows, state, marker, tree, executor, worker, disturbed, strayed, spoilt>>
             /\ \A r \in Runs : /\ origin'[r].record = origin[r].record
                                /\ origin'[r].index = origin[r].index
                                /\ origin'[r].rows = origin[r].rows
  <2>1. /\ UNCHANGED <<host, rows, state, marker, tree, executor, worker, disturbed, strayed, spoilt>>
        /\ origin' = [r \in Runs |-> IF pc[r] = "idle" THEN origin[r]
                                 ELSE [origin[r] EXCEPT !.served[bridge[p].service] =
                                         IF BroughtUp(r) THEN Died ELSE Torn]]
    BY <1>3 DEF Death
  <2>2. QED
    BY <2>1 DEF OriginInv, Origin
<1>4. QED
  BY <1>1, <1>2, <1>3

(* What a run notes it notes in the order of its writes.                    *)
LEMMA UnnotedStep ==
  ASSUME StepInv, [Next]_vars, NEW q \in Runs, Unnoted(q)
  PROVE  Unnoted(q)'
<1>0. TypeOK /\ saved[q] \in Saved
  BY DEF StepInv, TypeOK
<1>1. CASE StillIs(q)
  BY <1>1 DEF Unnoted, StillIs
<1>2. CASE ~ StillIs(q)
  <2>1. Moves(q)
    BY <1>0, <1>2, OthersStay, NobodyMoves, NextMoves
  <2>2. CASE Ends(q)
    BY <1>0, <2>2 DEF Ends, NothingSaved, TypeOK, Unnoted
  <2>3. CASE ~ Ends(q) /\ (Works(q) \/ KillWorker(q) \/ Kill(q))
    BY <2>3 DEF Works, Look, InstallAgain, Install, Mark, Stop, Spawn, Ready,
       LaunchFails, DirectoryGone, StopKnown, Erase, Leave, In, executor, KillWorker, Kill, Unnoted
  <2>4. CASE \E j \in Commands : Begin(q, j)
    <3>1. pc[q] = "idle" /\ saved' = saved
      BY <2>4 DEF Begin, Busy
    <3>2. QED
      BY <3>1 DEF Unnoted
  <2>5. CASE WriteRecord(q) \/ Unlink(q)
    <3>1. WriteRecord(q) => saved'[q].rows = saved[q].rows /\ pc[q] = "upsert"
      BY <1>0 DEF WriteRecord, At, Saved, TypeOK
    <3>2. Unlink(q) => saved'[q].rows = saved[q].rows /\ pc[q] = "unlink"
      BY <1>0 DEF Unlink, At, Saved, TypeOK
    <3>3. QED
      BY <2>5, <3>1, <3>2 DEF Unnoted
  <2>6. CASE Return(q) /\ ~ Ends(q)
    <3>1. saved' = saved \/ saved' = [saved EXCEPT ![q].stage = "registration"]
      BY <2>6 DEF Return
    <3>2. saved'[q].rows = saved[q].rows /\ pc[q] \in {"wait", "settle", "gone"}
      BY <1>0, <2>6, <3>1 DEF Saved, TypeOK, Return, At
    <3>3. QED
      BY <3>2 DEF Unnoted
  <2>7. CASE \/ WriteIndex(q) \/ Call(q) \/ Timeout(q) \/ Unrecord(q) \/ Unindex(q)
             \/ DropRow(q)
    <3>1. saved' = saved /\ pc[q] \notin {"undo", "refresh", "resource", "server"}
      BY <2>7, TableFacts DEF WriteIndex, Call, Timeout, Unrecord, Unindex, DropRow, At
    <3>2. QED
      BY <3>1 DEF Unnoted
  <2>8. CASE Refresh(q)
    BY <1>0, <2>8 DEF Refresh, At, Goto, TypeOK, Unnoted
  <2>9. CASE Refuse(q)
    BY <1>0, <2>9 DEF Refuse, Goto, TypeOK, Unnoted
  <2>10. CASE Undone(q)
    BY <2>10 DEF Undone, ToUndo, Unnoted
  <2>11. CASE ~ Ends(q) /\ \E k \in Kind : PutRow(q, k) \/ Lose(q, k) \/ Undo(q, k)
    <3>1. PICK k \in Kind : PutRow(q, k) \/ Lose(q, k) \/ Undo(q, k)
      BY <2>11
    <3>2. CASE Lose(q, k)
      BY <1>0, <3>2 DEF Lose, Goto, TypeOK, Unnoted
    <3>3. CASE Undo(q, k)
      BY <1>0, <3>3 DEF Undo, At, TypeOK, Unnoted
    <3>4. CASE PutRow(q, k)
      <4>1. /\ pc[q] = k /\ pc'[q] = NextLabel[k] /\ k \in {"gateway", "resource"}
            /\ saved' = saved \/ saved' = [saved EXCEPT ![q].rows[k] = rows[k][Service(q)]]
        BY <1>0, <2>11, <3>4 DEF PutRow, At, Goto, TypeOK, Kind, Noted
      <4>2. \A l \in Kind : l # k => saved'[q].rows[l] = saved[q].rows[l]
        BY <1>0, <4>1 DEF TypeOK, Saved
      <4>3. QED
        BY <4>1, <4>2, TableFacts DEF Unnoted, Kind
    <3>5. QED
      BY <3>1, <3>2, <3>3, <3>4
  <2>12. QED
    BY <2>1, <2>2, <2>3, <2>4, <2>5, <2>6, <2>7, <2>8, <2>9, <2>10, <2>11
       DEF Moves, Executes, Raise, Report, Unlist
<1>3. QED
  BY <1>1, <1>2

(* Which command a run is at.                                              *)
LEMMA LabelKind ==
  ASSUME StepInv, NEW r \in Runs, pc[r] # "idle"
  PROVE  /\ pc[r] \in ApplyLabel \cup DeleteLabel
         /\ job[r].op = "apply" <=> pc[r] \in ApplyLabel
         /\ job[r].op = "delete" <=> pc[r] \in DeleteLabel
  BY DEF StepInv, TypeOK, InStep, Label, ApplyLabel, DeleteLabel

(* A delete takes away the rows, the runtime, the record and the entry.    *)
LEMMA DeletingStep ==
  ASSUME StepInv, StepInv', OriginInv, \A g \in Runs : Solo(g), [Next]_vars, NEW r \in Runs, Deleting(r)
  PROVE  Deleting(r)'
<1>0. TypeOK /\ InStep(r) /\ origin[r] \in Origin
  BY DEF StepInv, OriginInv
<1>1. SUFFICES ASSUME Quiet(r)', pc'[r] \in DeleteLabel PROVE Deleting(r)'
  BY DEF Deleting
<1>a. Service(r)' \in Services
  BY DEF StepInv, TypeOK, Service, Job
<1>b. PICK s \in Services : s = Service(r)'
  BY <1>a
<1>2. ASSUME NEW j \in Commands, Begin(r, j) PROVE Deleting(r)'
  <2>1. pc'[r] = "unserver" /\ wpc'[r] = "none"
    BY <1>1, <1>2, Beginning DEF DeleteLabel
  <2>2. origin'[r].index = index /\ index' = index
    BY <1>2 DEF Begin, OriginInv, Now
  <2>3. QED
    BY <2>1, <2>2 DEF Deleting
<1>3. ASSUME Quiet(r), Moves(r), ~ \E j \in Commands : Begin(r, j), origin'[r] = origin[r], job'[r] = job[r]
      PROVE  Deleting(r)'
  <2>1. pc[r] \in DeleteLabel /\ Service(r) = s
    <3>1. job'[r].op = "delete"
      BY <1>1 DEF StepInv, InStep
    <3>2. QED
      BY <1>3, <1>b, <3>1, LabelKind DEF Quiet, Service
  <2>2. /\ r \in clean =>
             /\ pc[r] # "unserver" => rows["server"][s] = Nothing
             /\ pc[r] \notin {"unserver", "unresource"} => rows["resource"][s] = Nothing
             /\ pc[r] \notin {"unserver", "unresource", "ungateway"} => rows["gateway"][s] = Nothing
             /\ pc[r] \in {"unlink", "unlist"} => state[s] = NoState
        /\ wpc[r] = "done" => state[s] = NoState
        /\ pc[r] # "unlist" => origin[r].index[s] = index[s]
        /\ pc[r] = "unlist" => (record[s] # Nothing => origin[r].index[s] = Nothing)
    BY <1>3, <2>1 DEF Deleting
  <2>3. wpc[r] # "none" => pc[r] = "gone"
    BY <1>3, <2>1 DEF Solo, Waiting, DeleteLabel
  <2>4. SUFFICES
             /\ r \in clean' =>
                  /\ pc'[r] # "unserver" => rows'["server"][s] = Nothing
                  /\ pc'[r] \notin {"unserver", "unresource"} => rows'["resource"][s] = Nothing
                  /\ pc'[r] \notin {"unserver", "unresource", "ungateway"} => rows'["gateway"][s] = Nothing
                  /\ pc'[r] \in {"unlink", "unlist"} => state'[s] = NoState
             /\ wpc'[r] = "done" => state'[s] = NoState
             /\ pc'[r] # "unlist" => origin'[r].index[s] = index'[s]
             /\ pc'[r] = "unlist" => (record'[s] # Nothing => origin'[r].index[s] = Nothing)
    BY <1>b DEF Deleting, Service
  <2>5. CASE DropRow(r)
    <3>1. /\ UNCHANGED <<index, record, state>> /\ wpc'[r] = wpc[r]
          /\ pc[r] \in {"unserver", "unresource", "ungateway"} /\ pc'[r] = AfterDrop[pc[r]]
          /\ \/ rows' = [rows EXCEPT ![Dropped[pc[r]]][s] = Nothing] /\ clean' = clean
             \/ r \notin clean'
      BY <1>0, <2>1, <2>5, TableFacts DEF DropRow, At, Goto, host, worker, runtime, TypeOK
    <3>2. r \in clean' =>
            /\ rows'[Dropped[pc[r]]][s] = Nothing
            /\ \A k \in Kind \ {Dropped[pc[r]]} : rows'[k][s] = rows[k][s]
            /\ r \in clean
      <4>1. Dropped[pc[r]] \in Kind
        BY <3>1, TableFacts DEF Kind
      <4>2. QED
        BY <1>0, <3>1, <4>1 DEF TypeOK, Files
    <3>3. QED
      BY <1>3, <2>2, <2>3, <3>1, <3>2, TableFacts DEF Kind
  <2>6. CASE Call(r)
    <3>1. /\ UNCHANGED <<index, record, state, rows, clean>> /\ pc[r] = "discard" /\ pc'[r] = "gone"
          /\ wpc'[r] \in {"look", "clear"}
      BY <1>0, <2>1, <2>6, TableFacts DEF Call, At, Goto, host, runtime, TypeOK, DeleteLabel, Send
    <3>2. QED
      BY <1>3, <2>2, <3>1
  <2>7. CASE Return(r)
    <3>1. /\ UNCHANGED <<index, record, state, rows>> /\ pc[r] = "gone" /\ pc'[r] = "unlink"
          /\ wpc'[r] = "none"
          /\ r \in clean' => r \in clean /\ wpc[r] = "done"
      BY <1>0, <2>1, <2>7, TableFacts DEF Return, Dismiss, At, Goto, host, runtime, TypeOK, DeleteLabel, Send
    <3>2. QED
      BY <1>3, <2>2, <3>1
  <2>8. CASE Unlink(r)
    <3>1. /\ UNCHANGED <<index, state, rows, clean>> /\ pc[r] = "unlink" /\ pc'[r] = "unlist"
          /\ wpc'[r] = wpc[r]
          /\ index[s] # Nothing => record'[s] = Nothing
      BY <1>0, <2>1, <2>8 DEF Unlink, At, Goto, host, runtime, worker, TypeOK, Files
    <3>2. QED
      BY <1>3, <2>2, <2>3, <3>1
  <2>9. CASE Works(r)
    <3>1. UNCHANGED <<index, record, rows, clean, pc>>
      BY <2>9 DEF Works, Look, InstallAgain, Install, Mark, Stop, Spawn, Ready, LaunchFails,
         DirectoryGone, StopKnown, Erase, Leave, In, host, executor
    <3>2. pc[r] = "gone"
      BY <2>3, <2>9 DEF Works, Look, InstallAgain, Install, Mark, Stop, Spawn, Ready, LaunchFails,
         DirectoryGone, StopKnown, Erase, Leave, In
    <3>3. wpc'[r] = "done" => state'[s] = NoState
      BY <1>0, <2>1, <2>9 DEF Works, Look, InstallAgain, Install, Mark, Stop, Spawn, Ready, LaunchFails,
         DirectoryGone, StopKnown, Erase, Leave, Dismiss, In, Send, InStep, Launching, TypeOK
    <3>4. QED
      BY <1>3, <2>2, <3>1, <3>2, <3>3
  <2>10. CASE KillWorker(r) \/ Timeout(r)
    BY <1>1, <2>10 DEF KillWorker, Timeout, Quiet
  <2>11. CASE Kill(r) \/ Raise(r) \/ Report(r) \/ Unlist(r)
    BY <1>0, <1>1, <2>11 DEF Kill, Raise, Report, Unlist, Ends, Goto, TypeOK, Quiet
  <2>12. CASE \/ WriteRecord(r) \/ WriteIndex(r) \/ Refresh(r) \/ Refuse(r) \/ Undone(r) \/ Unrecord(r)
              \/ Unindex(r) \/ \E k \in Kind : PutRow(r, k) \/ Lose(r, k) \/ Undo(r, k)
    BY <2>1, <2>12 DEF WriteRecord, WriteIndex, Refresh, Refuse, Undone, Unrecord, Unindex,
       PutRow, Lose, Undo, At, DeleteLabel, Kind
  <2>13. QED
    BY <1>3, <2>5, <2>6, <2>7, <2>8, <2>9, <2>10, <2>11, <2>12 DEF Moves, Executes
<1>4. ASSUME Quiet(r), (\E p \in Pids : Bind(p) \/ Death(p)) \/ UNCHANGED vars PROVE Deleting(r)'
  <2>1. /\ UNCHANGED <<index, record, rows, state, pc, wpc, job, clean>>
        /\ origin'[r].index = origin[r].index
    BY <1>4, NobodyHost DEF host, executor, worker
  <2>2. QED
    BY <1>4, <2>1 DEF Deleting, Quiet, Service
<1>5. QED
  BY <1>1, <1>2, <1>3, <1>4, QuietMoves

(* An apply writes its record and its entry over what there was, and a     *)
(* rollback puts that back.                                                *)
LEMMA WrittenStep ==
  ASSUME StepInv, StepInv', OriginInv, \A g \in Runs : Solo(g), [Next]_vars, NEW r \in Runs, Written(r)
  PROVE  Written(r)'
<1>0. TypeOK /\ InStep(r) /\ origin[r] \in Origin /\ saved[r] \in Saved
  BY DEF StepInv, OriginInv, TypeOK
<1>1. SUFFICES ASSUME Quiet(r)', pc'[r] \in ApplyLabel PROVE Written(r)'
  BY DEF Written
<1>a. Service(r)' \in Services
  BY DEF StepInv, TypeOK, Service, Job
<1>b. PICK s \in Services : s = Service(r)'
  BY <1>a
<1>2. ASSUME NEW j \in Commands, Begin(r, j) PROVE Written(r)'
  <2>1. pc'[r] = "upsert"
    BY <1>1, <1>2, Beginning DEF ApplyLabel
  <2>2. /\ origin'[r].index = index /\ index' = index
        /\ origin'[r].record = record /\ record' = record
    BY <1>2 DEF Begin, OriginInv, Now
  <2>3. QED
    BY <2>1, <2>2 DEF Written
<1>3. ASSUME Quiet(r), Moves(r), ~ \E j \in Commands : Begin(r, j), origin'[r] = origin[r], job'[r] = job[r]
      PROVE  Written(r)'
  <2> DEFINE v == job[r].version
             o == origin[r]
  <2>1. pc[r] \in ApplyLabel /\ Service(r) = s
    <3>1. job'[r].op = "apply"
      BY <1>1 DEF StepInv, InStep
    <3>2. QED
      BY <1>3, <1>b, <3>1, LabelKind DEF Quiet, Service
  <2>2. /\ record = IF pc[r] \in {"upsert", "unindex", "reset", "settle", "report"}
                    THEN o.record ELSE [o.record EXCEPT ![s] = v]
        /\ index = IF pc[r] \in {"upsert", "index", "reset", "settle", "report"}
                   THEN o.index ELSE [o.index EXCEPT ![s] = v]
        /\ pc[r] # "upsert" => saved[r].record = o.record[s] /\ saved[r].index = o.index
    BY <1>3, <2>1 DEF Written
  <2>3. SUFFICES
          /\ record' = IF pc'[r] \in {"upsert", "unindex", "reset", "settle", "report"}
                       THEN o.record ELSE [o.record EXCEPT ![s] = v]
          /\ index' = IF pc'[r] \in {"upsert", "index", "reset", "settle", "report"}
                      THEN o.index ELSE [o.index EXCEPT ![s] = v]
          /\ pc'[r] # "upsert" => saved'[r].record = o.record[s] /\ saved'[r].index = o.index
    BY <1>3, <1>b DEF Written, Service
  <2>o. o.record \in Files /\ o.index \in Files
    BY <1>0 DEF Origin
  <2> HIDE DEF v, o
  <2>4. CASE WriteRecord(r)
    <3>1. /\ pc[r] = "upsert" /\ pc'[r] = "index" /\ index' = index
          /\ record' = [record EXCEPT ![s] = v]
      BY <1>0, <2>1, <2>4 DEF WriteRecord, At, Goto, TypeOK, v
    <3>2. saved'[r].record = record[s] /\ saved'[r].index = index
      BY <1>0, <2>1, <2>4 DEF WriteRecord, TypeOK, Saved
    <3>3. QED
      BY <2>2, <3>1, <3>2
  <2>5. CASE WriteIndex(r)
    <3>1. /\ pc[r] = "index" /\ pc'[r] = "runtime" /\ record' = record /\ saved' = saved
          /\ index' = [saved[r].index EXCEPT ![s] = v]
      BY <1>0, <2>1, <2>5 DEF WriteIndex, Reindex, At, Goto, TypeOK, v
    <3>2. QED
      BY <2>2, <3>1
  <2>6. CASE Unrecord(r)
    <3>1. /\ pc[r] = "unrecord" /\ pc'[r] = "unindex" /\ index' = index /\ saved' = saved
          /\ record' = [record EXCEPT ![s] = saved[r].record]
      BY <1>0, <2>1, <2>6 DEF Unrecord, At, Goto, TypeOK
    <3>2. record' = [[o.record EXCEPT ![s] = v] EXCEPT ![s] = o.record[s]]
      BY <2>2, <3>1
    <3>3. record' = o.record
      BY <2>o, <3>2 DEF Files
    <3>4. QED
      BY <2>2, <3>1, <3>3
  <2>7. CASE Unindex(r)
    <3>1. /\ pc[r] = "unindex" /\ pc'[r] \in {"reset", "report"} /\ record' = record /\ saved' = saved
          /\ index' = IF Empty(saved[r].index) THEN [index EXCEPT ![s] = Nothing] ELSE saved[r].index
      BY <1>0, <2>1, <2>7 DEF Unindex, Reindex, At, Goto, TypeOK
    <3>2. CASE Empty(o.index)
      <4>1. index' = [[o.index EXCEPT ![s] = v] EXCEPT ![s] = Nothing]
        BY <2>2, <3>1, <3>2
      <4>2. o.index[s] = Nothing
        BY <3>2 DEF Empty
      <4>3. index' = o.index
        BY <2>o, <4>1, <4>2 DEF Files
      <4>4. QED
        BY <2>2, <3>1, <4>3
    <3>3. CASE ~ Empty(o.index)
      BY <2>2, <3>1, <3>3
    <3>4. QED
      BY <3>2, <3>3
  <2>8. CASE Call(r)
    <3>1. /\ UNCHANGED <<record, index, saved>>
          /\ \/ pc[r] = "runtime" /\ pc'[r] = "wait"
             \/ pc[r] = "reset" /\ pc'[r] = "settle"
      BY <1>0, <2>1, <2>8, TableFacts DEF Call, At, Goto, host, TypeOK, ApplyLabel
    <3>2. QED
      BY <2>2, <3>1
  <2>9. CASE Return(r)
    <3>1. /\ UNCHANGED <<record, index>> /\ ~ Ends(r)
          /\ \/ pc[r] = "wait" /\ pc'[r] \in {"undo", "gateway", "unrecord"}
             \/ pc[r] = "settle" /\ pc'[r] = "report"
      BY <1>0, <1>1, <2>1, <2>9, TableFacts DEF Return, At, Goto, Ends, host, TypeOK, ApplyLabel, Quiet
    <3>2. saved' = saved \/ saved' = [saved EXCEPT ![r].stage = "registration"]
      BY <2>9, <3>1 DEF Return
    <3>3. saved'[r].record = saved[r].record /\ saved'[r].index = saved[r].index
      BY <1>0, <3>2 DEF TypeOK, Saved
    <3>4. QED
      BY <2>2, <3>1, <3>3
  <2>10. CASE Refresh(r) \/ Undone(r)
    <3>1. /\ UNCHANGED <<record, index, saved>>
          /\ pc[r] \in {"refresh", "undo"} /\ pc'[r] \in {"resource", "unrecord"}
      BY <1>0, <2>10 DEF Refresh, Undone, At, Goto, host, TypeOK
    <3>2. QED
      BY <2>2, <3>1
  <2>11. CASE Refuse(r)
    <3>1. /\ UNCHANGED <<record, index>> /\ pc'[r] = "undo"
          /\ pc[r] \in {"gateway", "refresh", "resource", "server"}
          /\ saved' = saved \/ saved' = [saved EXCEPT ![r].rows[pc[r]] = rows[pc[r]][Service(r)]]
      BY <1>0, <2>11 DEF Refuse, At, Goto, host, TypeOK, Noted
    <3>2. saved'[r].record = saved[r].record /\ saved'[r].index = saved[r].index
      BY <1>0, <3>1 DEF TypeOK, Saved
    <3>3. QED
      BY <2>2, <3>1, <3>2
  <2>12. CASE \E k \in Kind : PutRow(r, k)
    <3>1. PICK k \in Kind : PutRow(r, k)
      BY <2>12
    <3>2. ~ Ends(r)
      BY <1>0, <1>1 DEF Ends, Goto, Quiet, TypeOK
    <3>3. /\ UNCHANGED <<record, index>> /\ pc'[r] \in {"refresh", "server"}
          /\ pc[r] \in {"gateway", "resource"}
          /\ saved' = saved \/ saved' = [saved EXCEPT ![r].rows[k] = rows[k][Service(r)]]
      BY <1>0, <3>1, <3>2, TableFacts DEF PutRow, At, Goto, host, TypeOK, Noted, Kind
    <3>4. saved'[r].record = saved[r].record /\ saved'[r].index = saved[r].index
      BY <1>0, <3>3 DEF TypeOK, Saved
    <3>5. QED
      BY <2>2, <3>3, <3>4
  <2>13. CASE \E k \in Kind : Undo(r, k)
    <3>1. PICK k \in Kind : Undo(r, k)
      BY <2>13
    <3>2. /\ UNCHANGED <<record, index, pc>> /\ pc[r] = "undo"
          /\ saved' = [saved EXCEPT ![r].rows[k] = Untouched]
      BY <1>0, <3>1 DEF Undo, At, host
    <3>3. saved'[r].record = saved[r].record /\ saved'[r].index = saved[r].index
      BY <1>0, <3>2 DEF TypeOK, Saved
    <3>4. QED
      BY <2>2, <3>2, <3>3
  <2>14. CASE Works(r)
    <3>1. UNCHANGED <<index, record, saved, pc>>
      BY <2>14 DEF Works, Look, InstallAgain, Install, Mark, Stop, Spawn, Ready, LaunchFails,
         DirectoryGone, StopKnown, Erase, Leave, In, host, executor
    <3>2. QED
      BY <2>2, <3>1
  <2>15. CASE KillWorker(r) \/ Timeout(r) \/ \E k \in Kind : Lose(r, k)
    BY <1>1, <2>15 DEF KillWorker, Timeout, Lose, Quiet
  <2>16. CASE Kill(r) \/ Raise(r) \/ Report(r) \/ Unlist(r)
    BY <1>0, <1>1, <2>16 DEF Kill, Raise, Report, Unlist, Ends, Goto, TypeOK, Quiet
  <2>17. CASE DropRow(r) \/ Unlink(r)
    BY <2>1, <2>17, TableFacts DEF DropRow, Unlink, At, ApplyLabel
  <2>18. QED
    BY <1>3, <2>4, <2>5, <2>6, <2>7, <2>8, <2>9, <2>10, <2>11, <2>12, <2>13, <2>14, <2>15, <2>16, <2>17
       DEF Moves, Executes
<1>4. ASSUME Quiet(r), (\E p \in Pids : Bind(p) \/ Death(p)) \/ UNCHANGED vars PROVE Written(r)'
  <2>1. /\ UNCHANGED <<index, record, saved, pc, job>>
        /\ origin'[r].index = origin[r].index /\ origin'[r].record = origin[r].record
    BY <1>4, NobodyHost DEF host, executor
  <2>2. QED
    BY <1>4, <2>1 DEF Written, Quiet, Service
<1>5. QED
  BY <1>1, <1>2, <1>3, <1>4, QuietMoves

(* The rows that an apply changes are its own, and while none of its       *)
(* rollbacks has failed each is as it was or noted as it was.              *)
LEMMA RegisteredStep ==
  ASSUME StepInv, StepInv', OriginInv, \A g \in Runs : Solo(g), [Next]_vars, NEW r \in Runs,
         Unnoted(r), Registered(r)
  PROVE  Registered(r)'
<1>0. /\ TypeOK /\ InStep(r) /\ origin[r] \in Origin /\ saved[r] \in Saved
      /\ saved[r].rows \in [Kind -> Content \cup {Untouched}]
  BY DEF StepInv, OriginInv, TypeOK, Saved
<1>1. SUFFICES ASSUME Quiet(r)', pc'[r] \in ApplyLabel PROVE Registered(r)'
  BY DEF Registered
<1>a. Service(r)' \in Services
  BY DEF StepInv, TypeOK, Service, Job
<1>b. PICK s \in Services : s = Service(r)'
  BY <1>a
<1>2. ASSUME NEW j \in Commands, Begin(r, j) PROVE Registered(r)'
  <2>1. pc'[r] = "upsert" /\ saved' = saved /\ pc[r] = "idle"
    BY <1>1, <1>2, Beginning DEF ApplyLabel, Begin, Busy
  <2>2. origin'[r].rows = rows /\ rows' = rows
    BY <1>2 DEF Begin, OriginInv, Now
  <2>3. \A k \in Kind : saved'[r].rows[k] = Untouched
    BY <2>1 DEF Unnoted
  <2>4. QED
    BY <2>1, <2>2, <2>3 DEF Registered
<1>3. ASSUME Quiet(r), Moves(r), ~ \E j \in Commands : Begin(r, j), origin'[r] = origin[r], job'[r] = job[r]
      PROVE  Registered(r)'
  <2> DEFINE v == job[r].version
             o == origin[r]
  <2>1. pc[r] \in ApplyLabel /\ Service(r) = s
    <3>1. job'[r].op = "apply"
      BY <1>1 DEF StepInv, InStep
    <3>2. QED
      BY <1>3, <1>b, <3>1, LabelKind DEF Quiet, Service
  <2>2. /\ pc[r] \in {"refresh", "resource", "server"} => rows["gateway"][s] = v
        /\ pc[r] = "server" => rows["resource"][s] = v
        /\ \A k \in Kind :
             /\ \A t \in Services \ {s} : rows[k][t] = o.rows[k][t]
             /\ r \in clean =>
                  IF saved[r].rows[k] = Untouched THEN rows[k][s] = o.rows[k][s]
                  ELSE saved[r].rows[k] = o.rows[k][s]
    BY <1>3, <2>1 DEF Registered
  <2>3. SUFFICES
          /\ pc'[r] \in {"refresh", "resource", "server"} => rows'["gateway"][s] = v
          /\ pc'[r] = "server" => rows'["resource"][s] = v
          /\ \A k \in Kind :
               /\ \A t \in Services \ {s} : rows'[k][t] = o.rows[k][t]
               /\ r \in clean' =>
                    IF saved'[r].rows[k] = Untouched THEN rows'[k][s] = o.rows[k][s]
                    ELSE saved'[r].rows[k] = o.rows[k][s]
    BY <1>3, <1>b DEF Registered, Service
  <2>v. v \in Versions
    BY <1>0, <2>1, JobFacts DEF InStep, TypeOK
  <2>c. \A k \in Kind : rows[k][s] \in Content /\ rows[k][s] # Untouched
    BY <1>0, DistinctAssumption DEF TypeOK, Files, Content
  <2> HIDE DEF v, o
  <2>4. CASE /\ UNCHANGED rows /\ saved'[r].rows = saved[r].rows
             /\ r \in clean' => r \in clean
             /\ pc'[r] \in {"refresh", "resource", "server"}
                => pc[r] \in {"refresh", "resource", "server"} /\ (pc'[r] = "server" => pc[r] = "server")
    BY <2>2, <2>4
  <2>5. CASE \E k \in Kind : PutRow(r, k)
    <3>1. PICK k \in Kind : PutRow(r, k)
      BY <2>5
    <3>2. ~ Ends(r)
      BY <1>0, <1>1 DEF Ends, Goto, Quiet, TypeOK
    <3>3. /\ rows' = [rows EXCEPT ![k][s] = v] /\ pc'[r] = NextLabel[k]
          /\ clean' = clean
          /\ pc[r] = k /\ k \in {"gateway", "resource"}
          /\ IF InPlace(r, k) THEN saved' = saved
             ELSE saved' = [saved EXCEPT ![r].rows[k] = rows[k][s]]
      BY <1>0, <2>1, <3>1, <3>2 DEF PutRow, Put, At, Goto, TypeOK, Noted, Kind, v
    <3>4. saved[r].rows[k] = Untouched
      BY <3>3 DEF Unnoted
    <3>5. /\ \A l \in Kind \ {k} : rows'[l] = rows[l] /\ saved'[r].rows[l] = saved[r].rows[l]
          /\ \A t \in Services \ {s} : rows'[k][t] = rows[k][t]
          /\ rows'[k][s] = v
      BY <1>0, <3>3 DEF TypeOK, Files, Saved
    <3>6. CASE InPlace(r, k)
      <4>1. rows'[k][s] = rows[k][s] /\ saved'[r].rows[k] = Untouched
        BY <2>1, <3>3, <3>4, <3>5, <3>6 DEF InPlace, v
      <4>2. QED
        BY <2>2, <3>3, <3>4, <3>5, <4>1, TableFacts DEF Kind
    <3>7. CASE ~ InPlace(r, k)
      <4>1. saved'[r].rows[k] = rows[k][s]
        BY <1>0, <3>3, <3>7 DEF TypeOK, Saved
      <4>2. QED
        BY <2>2, <2>c, <3>3, <3>4, <3>5, <4>1, TableFacts DEF Kind
    <3>8. QED
      BY <3>6, <3>7
  <2>6. CASE Refuse(r)
    <3>1. /\ UNCHANGED <<rows, clean>> /\ pc'[r] = "undo"
          /\ \/ saved' = saved
             \/ /\ saved' = [saved EXCEPT ![r].rows[pc[r]] = rows[pc[r]][s]]
                /\ pc[r] \in Kind
      BY <1>0, <2>1, <2>6 DEF Refuse, At, Goto, TypeOK, Noted, Kind
    <3>2. CASE saved' = saved
      BY <2>2, <3>1, <3>2
    <3>3. CASE saved' # saved
      <4>1. PICK k \in Kind : k = pc[r]
        BY <3>1, <3>3
      <4>2. saved[r].rows[k] = Untouched
        BY <4>1 DEF Unnoted, Kind
      <4>3. /\ saved'[r].rows[k] = rows[k][s]
            /\ \A l \in Kind \ {k} : saved'[r].rows[l] = saved[r].rows[l]
        BY <1>0, <3>1, <3>3, <4>1 DEF TypeOK, Saved
      <4>4. QED
        BY <2>2, <2>c, <3>1, <4>2, <4>3
    <3>4. QED
      BY <3>2, <3>3
  <2>7. CASE \E k \in Kind : Undo(r, k)
    <3>1. PICK k \in Kind : Undo(r, k)
      BY <2>7
    <3>2. /\ pc'[r] = "undo" /\ saved[r].rows[k] # Untouched
          /\ saved' = [saved EXCEPT ![r].rows[k] = Untouched]
          /\ \/ rows' = [rows EXCEPT ![k][s] = saved[r].rows[k]] /\ clean' = clean
             \/ r \notin clean' /\ rows' = rows
      BY <2>1, <3>1 DEF Undo, At, First, ToUndo
    <3>3. /\ saved'[r].rows[k] = Untouched
          /\ \A l \in Kind \ {k} : saved'[r].rows[l] = saved[r].rows[l] /\ rows'[l] = rows[l]
          /\ \A t \in Services \ {s} : rows'[k][t] = rows[k][t]
          /\ r \in clean' => r \in clean /\ rows'[k][s] = saved[r].rows[k]
      BY <1>0, <3>2 DEF TypeOK, Saved, Files
    <3>4. QED
      BY <2>2, <3>2, <3>3
  <2>8. CASE WriteRecord(r)
    <3>1. UNCHANGED <<rows, clean>> /\ pc'[r] = "index" /\ saved'[r].rows = saved[r].rows
      BY <1>0, <2>8 DEF WriteRecord, Goto, TypeOK, Saved
    <3>2. QED
      BY <2>4, <3>1
  <2>9. CASE Return(r)
    <3>1. /\ UNCHANGED rows /\ (r \in clean' => r \in clean)
          /\ pc'[r] \notin {"refresh", "resource", "server"}
          /\ saved' = saved \/ saved' = [saved EXCEPT ![r].stage = "registration"]
      BY <1>0, <1>1, <2>1, <2>9, TableFacts DEF Return, At, Goto, Ends, TypeOK, ApplyLabel, Quiet
    <3>2. saved'[r].rows = saved[r].rows
      BY <1>0, <3>1 DEF TypeOK, Saved
    <3>3. QED
      BY <2>4, <3>1, <3>2
  <2>10. CASE Refresh(r)
    <3>1. UNCHANGED <<rows, clean, saved>> /\ pc'[r] = "resource" /\ pc[r] = "refresh"
      BY <1>0, <2>10 DEF Refresh, At, Goto, TypeOK
    <3>2. QED
      BY <2>4, <3>1
  <2>11. CASE \/ WriteIndex(r) \/ Undone(r) \/ Unrecord(r) \/ Unindex(r) \/ Call(r)
    <3>1. UNCHANGED <<rows, clean, saved>> /\ pc'[r] \notin {"refresh", "resource", "server"}
      BY <1>0, <2>11, TableFacts DEF WriteIndex, Undone, Unrecord, Unindex, Call, At, Goto, TypeOK
    <3>2. QED
      BY <2>4, <3>1
  <2>14. CASE Works(r)
    <3>1. UNCHANGED <<rows, saved, pc, clean>>
      BY <2>14 DEF Works, Look, InstallAgain, Install, Mark, Stop, Spawn, Ready, LaunchFails,
         DirectoryGone, StopKnown, Erase, Leave, In, host, executor
    <3>2. QED
      BY <2>4, <3>1
  <2>15. CASE KillWorker(r) \/ Timeout(r) \/ \E k \in Kind : Lose(r, k)
    BY <1>1, <2>15 DEF KillWorker, Timeout, Lose, Quiet
  <2>16. CASE Kill(r) \/ Raise(r) \/ Report(r) \/ Unlist(r)
    BY <1>0, <1>1, <2>16 DEF Kill, Raise, Report, Unlist, Ends, Goto, TypeOK, Quiet
  <2>17. CASE DropRow(r) \/ Unlink(r)
    BY <2>1, <2>17, TableFacts DEF DropRow, Unlink, At, ApplyLabel
  <2>18. QED
    BY <1>3, <2>5, <2>6, <2>7, <2>8, <2>9, <2>10, <2>11, <2>14, <2>15, <2>16, <2>17
       DEF Moves, Executes
<1>4. ASSUME Quiet(r), (\E p \in Pids : Bind(p) \/ Death(p)) \/ UNCHANGED vars PROVE Registered(r)'
  <2>1. UNCHANGED <<rows, saved, pc, job, clean>> /\ origin'[r].rows = origin[r].rows
    BY <1>4, NobodyHost DEF host, executor
  <2>2. QED
    BY <1>4, <2>1 DEF Registered, Quiet, Service
<1>5. QED
  BY <1>1, <1>2, <1>3, <1>4, QuietMoves

(* A runtime command brings up the version of the record, and a restored   *)
(* nothing is brought about by removal.                                    *)
LEMMA AimedStep ==
  ASSUME StepInv, StepInv', OriginInv, \A g \in Runs : Solo(g), [Next]_vars, NEW r \in Runs,
         Solo(r)', Written(r), Aimed(r)
  PROVE  Aimed(r)'
<1>0. TypeOK /\ InStep(r)
  BY DEF StepInv
<1>1. SUFFICES ASSUME Quiet(r)' PROVE Aimed(r)'
  BY DEF Aimed
<1>a. Service(r)' \in Services
  BY DEF StepInv, TypeOK, Service, Job
<1>b. PICK s \in Services : s = Service(r)'
  BY <1>a
<1>2. ASSUME NEW j \in Commands, Begin(r, j) PROVE Aimed(r)'
  <2>1. wpc'[r] = "none"
    BY <1>1, <1>2, Beginning
  <2>2. QED
    BY <2>1 DEF Aimed, Bringing
<1>3. ASSUME Quiet(r), Moves(r), ~ \E j \in Commands : Begin(r, j), origin'[r] = origin[r], job'[r] = job[r]
      PROVE  Aimed(r)'
  <2>1. Service(r) = s
    BY <1>3, <1>b DEF Service
  <2>2. /\ wpc[r] \in Bringing => want[r] = record[s]
        /\ pc[r] = "settle" /\ wpc[r] \in {"clear", "erase", "partial"} => origin[r].record[s] = Nothing
        /\ wpc[r] # "none" => pc[r] \in Waiting
    BY <1>3, <2>1 DEF Aimed, Solo
  <2>3. SUFFICES /\ wpc'[r] \in Bringing => want'[r] = record'[s]
                 /\ pc'[r] = "settle" /\ wpc'[r] \in {"clear", "erase", "partial"} => origin[r].record[s] = Nothing
    BY <1>3, <1>b DEF Aimed, Service
  <2>4. CASE Works(r)
    <3>1. UNCHANGED <<record, pc>>
      BY <2>4 DEF Works, Look, InstallAgain, Install, Mark, Stop, Spawn, Ready, LaunchFails,
         DirectoryGone, StopKnown, Erase, Leave, In, host, executor
    <3>2. CASE Look(r)
      <4>1. wpc'[r] = "install" => want'[r] = record[s]
        BY <1>0, <2>1, <3>2 DEF Look, In, Send, TypeOK
      <4>2. wpc'[r] \in {"done", "install", "failed"}
        BY <1>0, <3>2 DEF Look, In, Send, TypeOK
      <4>3. QED
        BY <3>1, <4>1, <4>2 DEF Bringing
    <3>3. CASE ~ Look(r)
      <4>1. wpc'[r] \in Bringing => wpc[r] \in Bringing /\ want'[r] = want[r]
        BY <1>0, <2>4, <3>3, TableFacts DEF Works, InstallAgain, Install, Mark, Stop, Spawn, Ready,
           LaunchFails, DirectoryGone, StopKnown, Erase, Leave, Dismiss, In, Send, TypeOK, Bringing
      <4>2. wpc'[r] \in {"clear", "erase", "partial"} => wpc[r] \in {"clear", "erase", "partial"}
        BY <1>0, <2>4, <3>3, TableFacts DEF Works, InstallAgain, Install, Mark, Stop, Spawn, Ready,
           LaunchFails, DirectoryGone, StopKnown, Erase, Leave, Dismiss, In, Send, TypeOK
      <4>3. QED
        BY <2>2, <3>1, <4>1, <4>2
    <3>4. QED
      BY <3>2, <3>3
  <2>5. CASE KillWorker(r) \/ Kill(r) \/ Timeout(r)
    BY <1>0, <1>1, <2>5 DEF KillWorker, Kill, Timeout, Ends, Goto, Quiet, TypeOK
  <2>6. CASE Call(r)
    <3>1. /\ wpc'[r] \in {"look", "clear"}
          /\ pc'[r] = "settle" /\ wpc'[r] = "clear" => pc[r] = "reset" /\ saved[r].record = Nothing
      BY <1>0, <2>6, TableFacts DEF Call, At, Goto, Send, TypeOK
    <3>2. pc[r] = "reset" => saved[r].record = origin[r].record[s]
      BY <1>3, <2>1 DEF Written, ApplyLabel
    <3>3. QED
      BY <3>1, <3>2 DEF Bringing
  <2>7. CASE Return(r)
    <3>1. wpc'[r] = "none"
      BY <1>0, <2>7 DEF Return, Dismiss, Send, TypeOK
    <3>2. QED
      BY <3>1 DEF Bringing
  <2>8. CASE Executes(r) /\ ~ (Timeout(r) \/ Call(r) \/ Return(r))
    <3>1. wpc'[r] = wpc[r] /\ pc[r] \notin Waiting
      BY <2>8, TableFacts DEF Executes, At, WriteRecord, WriteIndex, Raise, Refresh,
         Refuse, PutRow, Lose, Undo, Undone, Unrecord, Unindex, Report, DropRow, Unlink, Unlist,
         worker, Kind, Waiting
    <3>2. QED
      BY <2>2, <3>1 DEF Bringing
  <2>9. QED
    BY <1>3, <2>4, <2>5, <2>6, <2>7, <2>8 DEF Moves
<1>4. ASSUME Quiet(r), (\E p \in Pids : Bind(p) \/ Death(p)) \/ UNCHANGED vars PROVE Aimed(r)'
  <2>1. UNCHANGED <<record, wpc, want, pc, job>> /\ origin'[r].record = origin[r].record
    BY <1>4, NobodyHost DEF host, executor, worker
  <2>2. QED
    BY <1>4, <2>1 DEF Aimed, Quiet, Service
<1>5. QED
  BY <1>1, <1>2, <1>3, <1>4, QuietMoves

-------------------------------------------------------------------------------
(* What is installed and what is served.                                   *)

(* The tree and the marker of a service.                                   *)
LEMMA MarkedStep ==
  ASSUME StepInv, Marked, \A r \in Runs : Installed(r), [Next]_vars
  PROVE  Marked'
<1>0. TypeOK
  BY DEF StepInv
<1>1. SUFFICES ASSUME NEW s \in Services, s \notin spoilt', PortOf[s] \notin strayed'
               PROVE  tree'[s] = marker'[s]
  BY DEF Marked
<1>2. strayed \subseteq strayed'
  BY StrayedGrows
<1>3. CASE tree'[s] = tree[s] /\ marker'[s] = marker[s] /\ (s \in spoilt => s \in spoilt')
  BY <1>1, <1>2, <1>3 DEF Marked
<1>4. ASSUME NEW r \in Runs, Works(r) PROVE tree'[s] = marker'[s]
  <2>1. CASE Install(r)
    <3>1. \A t \in Services \ {Service(r)} : tree'[t] = tree[t]
      BY <1>0, <2>1 DEF Install, TypeOK
    <3>2. UNCHANGED marker /\ spoilt' = IF tree' = tree THEN spoilt ELSE spoilt \cup {Service(r)}
      BY <2>1 DEF Install
    <3>3. tree'[s] = tree[s] /\ s \notin spoilt
      BY <1>1, <3>1, <3>2
    <3>4. QED
      BY <1>3, <3>2, <3>3
  <2>2. CASE Mark(r)
    <3>1. /\ tree' = tree /\ wpc[r] \in {"mark", "remark"}
          /\ marker' = [marker EXCEPT ![Service(r)] = Aim(r)] /\ spoilt' = spoilt \ {Service(r)}
      BY <2>2 DEF Mark, In
    <3>2. CASE s = Service(r)
      <4>1. tree[s] = Aim(r)
        BY <1>1, <1>2, <3>1, <3>2 DEF Installed, Port
      <4>2. QED
        BY <1>0, <3>1, <3>2, <4>1 DEF TypeOK, Files
    <3>3. CASE s # Service(r)
      BY <1>0, <1>3, <3>1, <3>3 DEF TypeOK, Files
    <3>4. QED
      BY <3>2, <3>3
  <2>3. CASE Erase(r)
    BY <1>0, <1>3, <2>3 DEF Erase, TypeOK, Files
  <2>4. CASE \/ Look(r) \/ InstallAgain(r) \/ Stop(r) \/ Spawn(r) \/ Ready(r) \/ LaunchFails(r)
             \/ DirectoryGone(r) \/ StopKnown(r) \/ Leave(r)
    BY <1>3, <2>4 DEF Look, InstallAgain, Stop, Spawn, Ready, LaunchFails, DirectoryGone, StopKnown,
       Leave, runtime, history
  <2>5. QED
    BY <1>4, <2>1, <2>2, <2>3, <2>4 DEF Works
<1>5. ASSUME NEW r \in Runs, Executes(r) \/ Kill(r) \/ KillWorker(r) \/ \E j \in Commands : Begin(r, j)
      PROVE  tree'[s] = marker'[s]
  <2>1. UNCHANGED runtime
    BY <1>5, RuntimeKept
  <2>2. UNCHANGED spoilt
    <3>1. CASE Executes(r)
      BY <3>1 DEF Executes, At, WriteRecord, WriteIndex, Raise, Call, Return, Timeout, Refresh,
         Refuse, PutRow, Lose, Undo, Undone, Unrecord, Unindex, Report, DropRow, Unlink, Unlist
    <3>2. QED
      BY <1>5, <3>1 DEF Kill, KillWorker, Begin
  <2>3. QED
    BY <1>3, <2>1, <2>2 DEF runtime
<1>6. CASE (\E p \in Pids : Bind(p) \/ Death(p)) \/ UNCHANGED vars
  BY <1>3, <1>6 DEF Bind, Death, history, vars, runtime
<1>7. QED
  BY <1>4, <1>5, <1>6, NextMoves DEF Moves

(* A runtime command installs and launches what it aims at.                *)
LEMMA InstalledStep ==
  ASSUME StepInv, \A r \in Runs : Alone(r), Marked, [Next]_vars, NEW q \in Runs, Installed(q)
  PROVE  Installed(q)'
<1>0. TypeOK /\ InStep(q)
  BY DEF StepInv
<1>a. Service(q)' \in Services
  BY <1>0, TypeStep DEF TypeOK, Service, Job
<1>b. PICK s \in Services : s = Service(q)'
  BY <1>a
<1>1. SUFFICES ASSUME wpc'[q] \notin Over, Port(q)' \notin strayed' PROVE Installed(q)'
  BY DEF Installed, Over
<1>2. ASSUME Moves(q), job'[q] = job[q], Port(q) \notin strayed, ~ \E j \in Commands : Begin(q, j)
      PROVE  Installed(q)'
  <2>1. Service(q) = s /\ PortOf[s] \notin strayed
    BY <1>2, <1>b DEF Service, Port
  <2>2. /\ wpc[q] \in {"mark", "remark"} => tree[s] = Aim(q)
        /\ wpc[q] \in {"stop", "launch", "relaunch"} /\ s \notin spoilt => tree[s] = Aim(q)
        /\ wpc[q] \in {"ready", "reready"} /\ s \notin spoilt /\ Alive(pid[q])
           => bridge[pid[q]].version = Aim(q)
    BY <2>1 DEF Installed, Port
  <2> DEFINE aim == IF wpc'[q] \in {"back", "remark", "relaunch", "reready"}
                    THEN former'[q].version ELSE want'[q]
  <2>3. SUFFICES
          /\ wpc'[q] \in {"mark", "remark"} => tree'[s] = aim
          /\ wpc'[q] \in {"stop", "launch", "relaunch"} /\ s \notin spoilt' => tree'[s] = aim
          /\ wpc'[q] \in {"ready", "reready"} /\ s \notin spoilt' /\ Alive(pid[q])'
             => bridge'[pid'[q]].version = aim
    BY <1>b DEF Installed, Service, Aim
  <2>4. CASE Install(q)
    <3>1. /\ wpc[q] \in {"install", "back"} /\ UNCHANGED <<want, former>>
          /\ \/ /\ tree' = [tree EXCEPT ![s] = Aim(q)]
                /\ wpc'[q] = IF wpc[q] = "install" THEN "mark" ELSE "remark"
             \/ wpc'[q] = "failed"
      BY <1>0, <2>1, <2>4 DEF Install, In, Send, TypeOK
    <3>2. tree' = [tree EXCEPT ![s] = Aim(q)] => tree'[s] = Aim(q)
      BY <1>0 DEF TypeOK
    <3>3. QED
      BY <3>1, <3>2 DEF Aim
  <2>5. CASE InstallAgain(q)
    <3>1. /\ UNCHANGED <<tree, want, former, spoilt>>
          /\ \/ wpc[q] = "install" /\ wpc'[q] = "stop"
             \/ wpc[q] = "back" /\ wpc'[q] = "relaunch"
          /\ marker[s] = Aim(q)
      BY <1>0, <2>1, <2>5, TableFacts DEF InstallAgain, In, Send, TypeOK, runtime
    <3>2. s \notin spoilt => tree[s] = Aim(q)
      BY <2>1, <3>1 DEF Marked
    <3>3. QED
      BY <3>1, <3>2 DEF Aim
  <2>6. CASE Mark(q)
    <3>1. /\ UNCHANGED <<tree, want, former>>
          /\ \/ wpc[q] = "mark" /\ wpc'[q] = "stop"
             \/ wpc[q] = "remark" /\ wpc'[q] = "relaunch"
      BY <1>0, <2>6, TableFacts DEF Mark, In, Send, TypeOK
    <3>2. QED
      BY <2>2, <3>1 DEF Aim
  <2>7. CASE Stop(q)
    <3>1. /\ UNCHANGED <<tree, want, spoilt>> /\ wpc[q] = "stop"
          /\ wpc'[q] \in {"launch", "failed"}
      BY <1>0, <2>7 DEF Stop, In, Send, TypeOK
    <3>2. QED
      BY <2>2, <3>1 DEF Aim
  <2>8. CASE Spawn(q)
    <3>1. PICK p \in Pids : /\ p = CHOOSE u \in Unused : TRUE
      BY <2>8 DEF Spawn, Unused
    <3>2. /\ UNCHANGED <<tree, want, former, spoilt>>
          /\ \/ wpc[q] = "launch" /\ wpc'[q] = "ready"
             \/ wpc[q] = "relaunch" /\ wpc'[q] = "reready"
          /\ bridge' = [bridge EXCEPT ![p] = [service |-> s, version |-> tree[s]]]
          /\ pid'[q] = p
      BY <1>0, <2>1, <2>8, <3>1 DEF Spawn, In, Send, TypeOK
    <3>3. bridge'[p].version = tree[s]
      BY <1>0, <3>2 DEF TypeOK
    <3>4. QED
      BY <2>2, <3>2, <3>3 DEF Aim
  <2>9. CASE LaunchFails(q) \/ DirectoryGone(q) \/ Ready(q) \/ Look(q) \/ StopKnown(q) \/ Erase(q)
             \/ Leave(q) \/ KillWorker(q) \/ Call(q) \/ Return(q)
    <3>1. wpc'[q] \in {"back", "failed", "done", "install", "erase", "partial", "none", "look", "clear"}
      BY <1>0, <2>9 DEF LaunchFails, DirectoryGone, Ready, Look, StopKnown, Erase, Leave, KillWorker,
         Call, Return, Dismiss, In, Send, TypeOK
    <3>2. QED
      BY <3>1
  <2>10. CASE Kill(q) \/ (Executes(q) /\ ~ Call(q) /\ ~ Return(q))
    <3>1. UNCHANGED runtime
      BY <2>10, RuntimeKept
    <3>2. UNCHANGED <<worker, spoilt>>
      BY <2>10 DEF Kill, Executes, At, WriteRecord, WriteIndex, Raise, Timeout, Refresh,
         Refuse, PutRow, Lose, Undo, Undone, Unrecord, Unindex, Report, DropRow, Unlink, Unlist
    <3>3. QED
      BY <2>2, <3>1, <3>2 DEF runtime, worker, Aim, Alive
  <2>11. QED
    BY <1>2, <2>4, <2>5, <2>6, <2>7, <2>8, <2>9, <2>10 DEF Moves, Works
<1>3. CASE (\E p \in Pids : Bind(p) \/ Death(p)) \/ UNCHANGED vars
  <2>1. UNCHANGED <<tree, spoilt, wpc, want, former, pid, strayed, job>>
    BY <1>3 DEF Bind, Death, executor, worker, history, runtime, vars
  <2>2. Alive(pid[q])' => Alive(pid[q]) /\ bridge'[pid[q]] = bridge[pid[q]]
    <3>1. SUFFICES ASSUME Alive(pid[q])' PROVE Alive(pid[q]) /\ bridge'[pid[q]] = bridge[pid[q]]
      OBVIOUS
    <3>2. PICK p \in Pids : p = pid[q]
      BY <1>0, <2>1, <3>1 DEF TypeOK, Alive
    <3>3. Alive(p)' /\ p \notin Unused
      BY <2>1, <3>1, <3>2 DEF Alive, Unused
    <3>4. Alive(p)
      BY <3>3, BridgesCome
    <3>5. bridge'[p] = bridge[p]
      BY <3>3, <3>4, BridgesEnd
    <3>6. QED
      BY <3>2, <3>4, <3>5
  <2>3. QED
    BY <2>1, <2>2 DEF Installed, Port, Service, Aim
<1>4. QED
  BY <1>1, <1>2, <1>3, AloneMoves, NextMoves

(* A run writes no runtime state but the one of its service.               *)
LEMMA StateMoves ==
  ASSUME StepInv, NEW r \in Runs, Moves(r), NEW t \in Services, state'[t] # state[t]
  PROVE  /\ t = Service(r)
         /\ Ready(r) \/ (Erase(r) /\ state'[t] = NoState)
<1>1. UNCHANGED state \/ Ready(r) \/ Erase(r)
  <2>1. CASE Works(r)
    BY <2>1 DEF Works, Look, InstallAgain, Install, Mark, Stop, Spawn, LaunchFails, DirectoryGone,
       StopKnown, Leave, runtime
  <2>2. QED
    BY <2>1, RuntimeKept DEF Moves, runtime
<1>2. QED
  BY <1>1 DEF Ready, Erase, StepInv, TypeOK

(* While a run brings up its service no rival comes up.                    *)
LEMMA RivalsStoppedStep ==
  ASSUME StepInv, \A r \in Runs : Alone(r), [Next]_vars, NEW q \in Runs, RivalsStopped(q)
  PROVE  RivalsStopped(q)'
<1>0. TypeOK /\ InStep(q)
  BY DEF StepInv
<1>1. SUFFICES ASSUME wpc'[q] \in Launching, Port(q)' \notin strayed',
                      NEW t \in Services \ {Service(q)'}, PortOf[t] = Port(q)', Running(t)'
               PROVE  FALSE
  BY DEF RivalsStopped, Running, Alive, Port, Service
<1>2. wpc'[q] \notin Over
  BY <1>1 DEF Over, Launching
<1>3. ASSUME Moves(q), job'[q] = job[q], Port(q) \notin strayed, ~ \E j \in Commands : Begin(q, j)
      PROVE  FALSE
  <2>1. Service(q)' = Service(q) /\ Port(q)' = Port(q)
    BY <1>3 DEF Service, Port
  <2>2. Running(t)
    BY <1>1, <1>3, <2>1, StateMoves, RunningStays
  <2>3. wpc[q] \notin Launching
    BY <1>1, <1>3, <2>1, <2>2 DEF RivalsStopped
  <2>4. Look(q) /\ ~ Conflict(Service(q))
    <3>1. CASE Look(q)
      BY <1>0, <1>1, <3>1 DEF Look, In, Send, TypeOK, Launching
    <3>2. CASE Works(q) /\ ~ Look(q)
      BY <1>0, <1>1, <2>3, <3>2, TableFacts DEF Works, InstallAgain, Install, Mark, Stop, Spawn,
         Ready, LaunchFails, DirectoryGone, StopKnown, Erase, Leave, Dismiss, In, Send, TypeOK, Launching
    <3>3. CASE Kill(q) \/ KillWorker(q)
      BY <1>0, <1>1, <2>3, <3>3 DEF Kill, KillWorker, Send, TypeOK, Launching, worker
    <3>4. CASE Executes(q)
      <4>1. wpc'[q] = wpc[q] \/ wpc'[q] \in {"look", "clear", "none"}
        BY <1>0, <3>4 DEF Executes, WriteRecord, WriteIndex, Raise, Call, Return, Timeout, Refresh,
           Refuse, PutRow, Lose, Undo, Undone, Unrecord, Unindex, Report, DropRow, Unlink, Unlist,
           Dismiss, Send, TypeOK, worker
      <4>2. QED
        BY <1>1, <2>3, <4>1 DEF Launching
    <3>5. QED
      BY <1>3, <3>1, <3>2, <3>3, <3>4 DEF Moves
  <2>5. QED
    BY <1>1, <2>1, <2>2, <2>4 DEF Conflict, Port
<1>4. CASE (\E p \in Pids : Bind(p) \/ Death(p)) \/ UNCHANGED vars
  <2>1. UNCHANGED <<state, wpc, job, strayed>>
    BY <1>4, NobodyMoves DEF executor, worker
  <2>2. Running(t)
    BY <1>1, <2>1, RunningStays
  <2>3. QED
    BY <1>1, <2>1, <2>2 DEF RivalsStopped, Port, Service
<1>5. QED
  BY <1>1, <1>2, <1>3, <1>4, AloneMoves, NextMoves

(* Who listens goes on listening while it lives.                           *)
LEMMA ListenerKept ==
  ASSUME StepInv, [Next]_vars, NEW n \in Ports, NEW p \in Pids, listener[n] = p, Alive(p)'
  PROVE  listener'[n] = p
<1>0. TypeOK
  BY DEF StepInv
<1>1. ASSUME NEW x \in Pids \cup {Nothing}, Killed(x) PROVE listener'[n] = p
  <2>1. x # p
    BY <1>0, <1>1, ValueTypes DEF Killed, Alive, TypeOK
  <2>2. QED
    BY <1>1, <2>1 DEF Killed
<1>2. ASSUME NEW r \in Runs, Works(r) PROVE listener'[n] = p
  <2>1. CASE Stop(r) \/ LaunchFails(r)
    <3>1. former[r].pid \in Pids \cup {Nothing} /\ pid[r] \in Pids \cup {Nothing}
      BY <1>0 DEF TypeOK, State
    <3>2. QED
      BY <1>1, <2>1, <3>1 DEF Stop, LaunchFails
  <2>2. CASE StopKnown(r)
    <3>1. state[Service(r)].pid \in Pids \cup {Nothing}
      BY <1>0 DEF TypeOK, State, Service, Job
    <3>2. QED
      BY <1>1, <2>2, <3>1 DEF StopKnown
  <2>3. QED
    BY <1>2, <2>1, <2>2 DEF Works, Look, InstallAgain, Install, Mark, Spawn, Ready, DirectoryGone,
       Erase, Leave, runtime
<1>3. ASSUME NEW x \in Pids, Bind(x) PROVE listener'[n] = p
  BY <1>0, <1>3, ValueTypes DEF Bind, TypeOK
<1>4. QED
  BY <1>1, <1>2, <1>3, NextMoves, RuntimeKept DEF Moves, runtime, vars, Death

(* The bridge of a runtime state listens: by the time a state is written   *)
(* who listens on the port is the bridge that has been launched for it.    *)
LEMMA ListensStep ==
  ASSUME StepInv, BridgeInv, ListenInv, \A r \in Runs : RivalsStopped(r), Listens, [Next]_vars
  PROVE  Listens'
<1>0. TypeOK
  BY DEF StepInv
<1>1. SUFFICES ASSUME NEW s \in Services, Running(s)', PortOf[s] \notin strayed'
               PROVE  listener'[PortOf[s]] = state'[s].pid
  BY DEF Listens
<1>2. PortOf[s] \in Ports /\ PortOf[s] \notin strayed
  BY <1>1, StrayedGrows, PortAssumption
<1>3. CASE state'[s] = state[s]
  <2>1. Running(s)
    BY <1>1, <1>3, RunningStays
  <2>2. listener[PortOf[s]] = state[s].pid
    BY <1>2, <2>1 DEF Listens
  <2>3. state[s].pid \in Pids /\ Alive(state[s].pid)'
    BY <1>0, <1>1, <1>3 DEF Running, Alive, TypeOK, State
  <2>4. QED
    BY <1>2, <1>3, <2>2, <2>3, ListenerKept
<1>4. CASE state'[s] # state[s]
  <2>1. PICK r \in Runs : /\ s = Service(r)
                          /\ Ready(r) \/ (Erase(r) /\ state'[s] = NoState)
    BY <1>4, StateMoves, NextMoves, NobodyMoves
  <2>2. CASE Erase(r) /\ state'[s] = NoState
    BY <1>1, <2>2 DEF Running, Alive, NoState
  <2>3. CASE Ready(r)
    <3>1. /\ wpc[r] \in {"ready", "reready"} /\ Alive(pid[r])
          /\ listener[PortOf[s]] # Nothing /\ listener' = listener
          /\ state'[s].pid = pid[r]
      BY <1>0, <2>1, <2>3 DEF Ready, In, Port, TypeOK
    <3>2. PICK x \in Pids : x = listener[PortOf[s]]
      BY <1>0, <1>2, <3>1 DEF TypeOK
    <3>3. Alive(x) /\ PortOf[bridge[x].service] = PortOf[s]
      BY <1>2, <3>1, <3>2 DEF ListenInv
    <3>4. PICK t \in Services : t = bridge[x].service
      BY <1>0, <3>3 DEF TypeOK, Alive, Bridge
    <3>5. CASE state[t].pid = x
      <4>1. Running(t)
        BY <3>3, <3>4, <3>5 DEF Running
      <4>2. FormerStopped(r) /\ RivalsStopped(r)
        BY DEF BridgeInv
      <4>3. ~ Running(s)
        BY <1>2, <2>1, <3>1, <4>2 DEF FormerStopped, Replaced, Port
      <4>4. t # s => ~ Running(t)
        BY <1>2, <2>1, <3>1, <3>3, <3>4, <4>2 DEF RivalsStopped, Launching, Port
      <4>5. QED
        BY <4>1, <4>3, <4>4
    <3>6. CASE \E q \in Runs : pid[q] = x
      <4>1. PICK q \in Runs : pid[q] = x
        BY <3>6
      <4>2. q \in Busy
        BY <4>1, ValueTypes DEF StepInv, InStep, Busy
      <4>3. Busy = {r}
        BY <1>2, <2>1, <3>1 DEF BridgeInv, Alone, Working, Over, Port
      <4>4. QED
        BY <3>1, <3>2, <4>1, <4>2, <4>3
    <3>7. QED
      BY <1>2, <3>3, <3>4, <3>5, <3>6 DEF BridgeInv, BridgesAccounted
  <2>4. QED
    BY <2>1, <2>2, <2>3
<1>5. QED
  BY <1>3, <1>4

(* A marker that may not tell its tree is written or removed by its run.   *)
LEMMA SpoiltMoves ==
  ASSUME [Next]_vars, NEW s \in Services, s \in spoilt, s \notin spoilt'
  PROVE  \E r \in Runs : (Mark(r) \/ Erase(r)) /\ Service(r) = s
<1>1. ASSUME NEW r \in Runs, Moves(r), ~ Mark(r), ~ Erase(r) PROVE s \in spoilt'
  <2>1. CASE Executes(r)
    BY <2>1 DEF Executes, At, WriteRecord, WriteIndex, Raise, Call, Return, Timeout, Refresh,
       Refuse, PutRow, Lose, Undo, Undone, Unrecord, Unindex, Report, DropRow, Unlink, Unlist
  <2>2. CASE Works(r)
    BY <1>1, <2>2 DEF Works, Look, InstallAgain, Install, Stop, Spawn, Ready, LaunchFails,
       DirectoryGone, StopKnown, Leave, history
  <2>3. QED
    BY <1>1, <2>1, <2>2 DEF Moves, Kill, KillWorker, Begin
<1>2. ASSUME NEW r \in Runs, Mark(r) \/ Erase(r) PROVE Service(r) = s
  BY <1>2 DEF Mark, Erase
<1>3. QED
  BY <1>1, <1>2, NextMoves DEF Bind, Death, history, vars

(* The bridge of a runtime state runs what the state tells.                *)
LEMMA ToldStep ==
  ASSUME StepInv, BridgeInv, BridgeInv', \A r \in Runs : Installed(r), Told, [Next]_vars
  PROVE  Told'
<1>0. TypeOK
  BY DEF StepInv
<1>1. SUFFICES ASSUME NEW s \in Services, Running(s)', s \notin spoilt', PortOf[s] \notin strayed',
                      \A r \in Runs : Service(r)' = s => wpc'[r] # "stop"
               PROVE  bridge'[state'[s].pid].version = state'[s].version
  BY DEF Told
<1>2. PortOf[s] \notin strayed
  BY <1>1, StrayedGrows
<1>3. CASE state'[s] = state[s]
  <2>1. Running(s)
    BY <1>1, <1>3, RunningStays
  <2>2. /\ state[s].pid \in Pids /\ Alive(state[s].pid)' /\ Alive(state[s].pid)
    BY <1>0, <1>1, <1>3, <2>1 DEF Running, Alive, TypeOK, State
  <2>3. bridge'[state[s].pid] = bridge[state[s].pid]
    <3>1. PICK p \in Pids : p = state[s].pid
      BY <2>2
    <3>2. Alive(p) /\ Alive(p)'
      BY <1>3, <2>2, <3>1 DEF Alive
    <3>3. QED
      BY <3>1, <3>2, BridgesEnd
  <2>4. s \notin spoilt
    <3>1. SUFFICES ASSUME s \in spoilt PROVE FALSE
      OBVIOUS
    <3>2. PICK r \in Runs : (Mark(r) \/ Erase(r)) /\ Service(r) = s
      BY <1>1, <3>1, SpoiltMoves
    <3>3. CASE Mark(r)
      <4>1. \/ wpc[r] = "remark"
            \/ wpc'[r] = "stop" /\ job'[r] = job[r]
        BY <1>0, <3>3, TableFacts DEF Mark, In, Send, TypeOK, executor
      <4>2. CASE wpc[r] = "remark"
        BY <1>2, <2>1, <3>2, <4>2 DEF BridgeInv, FormerStopped, Replaced, Port
      <4>3. QED
        BY <1>1, <3>2, <4>1, <4>2 DEF Service
    <3>4. CASE Erase(r)
      <4>1. state'[s] = NoState
        BY <1>0, <3>2, <3>4 DEF Erase, TypeOK
      <4>2. QED
        BY <1>1, <4>1 DEF Running, Alive, NoState
    <3>5. QED
      BY <3>2, <3>3, <3>4
  <2>5. ASSUME NEW r \in Runs, Service(r) = s, wpc[r] = "stop" PROVE FALSE
    <3>1. ~ StillIs(r)
      BY <1>1, <2>5 DEF StillIs, Service
    <3>2. Moves(r)
      BY <1>0, <3>1, NextMoves, NobodyMoves, OthersStay
    <3>3. CASE Stop(r)
      <4>1. FormerStopped(r) /\ Port(r) \notin strayed /\ UNCHANGED strayed
        BY <1>1, <1>2, <2>1, <2>5, <3>3 DEF BridgeInv, Port, Stop, In
      <4>2. QED
        BY <1>0, <1>1, <2>5, <3>3, <4>1, StopEnds
    <3>4. CASE KillWorker(r)
      BY <1>1, <2>5, <3>4 DEF KillWorker, Port
    <3>5. CASE Works(r) /\ ~ Stop(r)
      BY <2>5, <3>5 DEF Works, Look, InstallAgain, Install, Mark, Spawn, Ready, LaunchFails,
         DirectoryGone, StopKnown, Erase, Leave, In
    <3>6. CASE Kill(r) \/ Executes(r)
      <4>1. wpc'[r] = wpc[r]
        BY <2>5, <3>6, TableFacts DEF Kill, Executes, WriteRecord, WriteIndex, Raise, Call, Return,
           Timeout, Refresh, Refuse, PutRow, Lose, Undo, Undone, Unrecord, Unindex, Report, DropRow,
           Unlink, Unlist, At, worker, StepInv, InStep, Waiting
      <4>2. Working(r)'
        BY <2>5, <4>1 DEF Working, Over
      <4>3. job'[r] = job[r]
        BY <3>6, <4>2, WorkGoesOn
      <4>4. QED
        BY <1>1, <2>5, <4>1, <4>3 DEF Service
    <3>7. QED
      BY <2>5, <3>2, <3>3, <3>4, <3>5, <3>6 DEF Moves, Begin, Busy
  <2>6. QED
    BY <1>2, <1>3, <2>1, <2>3, <2>4, <2>5 DEF Told
<1>4. CASE state'[s] # state[s]
  <2>1. PICK r \in Runs : /\ s = Service(r)
                          /\ Ready(r) \/ (Erase(r) /\ state'[s] = NoState)
    BY <1>4, StateMoves, NextMoves, NobodyMoves
  <2>2. CASE Erase(r) /\ state'[s] = NoState
    BY <1>1, <2>2 DEF Running, Alive, NoState
  <2>3. CASE Ready(r)
    <3>1. /\ wpc[r] \in {"ready", "reready"} /\ Alive(pid[r]) /\ UNCHANGED <<bridge, spoilt>>
          /\ state'[s] = [version |-> Aim(r), pid |-> pid[r]]
      BY <1>0, <2>1, <2>3 DEF Ready, In, TypeOK
    <3>2. bridge[pid[r]].version = Aim(r)
      BY <1>1, <1>2, <2>1, <3>1 DEF Installed, Port
    <3>3. QED
      BY <3>1, <3>2
  <2>4. QED
    BY <2>1, <2>2, <2>3
<1>5. QED
  BY <1>3, <1>4

(* The runtime command that is done has brought up the version of the      *)
(* record, and one that restores serves the version there was.             *)
LEMMA BroughtStep ==
  ASSUME StepInv, StepInv', OriginInv, \A g \in Runs : Solo(g), [Next]_vars, NEW r \in Runs,
         Written(r), Aimed(r), OwnBridge(r), Listens, Brought(r)
  PROVE  Brought(r)'
<1>0. TypeOK /\ InStep(r) /\ origin[r] \in Origin
  BY DEF StepInv, OriginInv
<1>1. SUFFICES ASSUME Quiet(r)', pc'[r] \in ApplyLabel PROVE Brought(r)'
  BY DEF Brought
<1>a. Service(r)' \in Services
  BY DEF StepInv, TypeOK, Service, Job
<1>b. PICK s \in Services : s = Service(r)'
  BY <1>a
<1>2. ASSUME NEW j \in Commands, Begin(r, j) PROVE Brought(r)'
  <2>1. pc'[r] = "upsert"
    BY <1>1, <1>2, Beginning DEF ApplyLabel
  <2>2. QED
    BY <2>1 DEF Brought
<1>3. ASSUME Quiet(r), Moves(r), ~ \E j \in Commands : Begin(r, j), origin'[r] = origin[r], job'[r] = job[r]
      PROVE  Brought(r)'
  <2> DEFINE v == job[r].version
             o == origin[r]
  <2>1. pc[r] \in ApplyLabel /\ Service(r) = s
    <3>1. job'[r].op = "apply"
      BY <1>1 DEF StepInv, InStep
    <3>2. QED
      BY <1>3, <1>b, <3>1, LabelKind DEF Quiet, Service
  <2>2. /\ (pc[r] = "wait" /\ wpc[r] = "done")
              \/ pc[r] \in {"gateway", "refresh", "resource", "server"}
           => /\ state[s].version = v
              /\ o.served[s] # Died /\ PortOf[s] \notin strayed => Running(s)
        /\ /\ (pc[r] = "settle" /\ wpc[r] = "done")
                 \/ (pc[r] = "report" /\ r \in clean /\ saved[r].stage = "registration")
           /\ o.record[s] # Nothing /\ o.served[s] \notin {Torn, Died} /\ PortOf[s] \notin strayed
           => state[s].version = o.record[s] /\ Running(s)
    BY <1>3, <2>1 DEF Brought
  <2>3. SUFFICES
          /\ (pc'[r] = "wait" /\ wpc'[r] = "done")
                \/ pc'[r] \in {"gateway", "refresh", "resource", "server"}
             => /\ state'[s].version = v
                /\ o.served[s] # Died /\ PortOf[s] \notin strayed' => Running(s)'
          /\ /\ (pc'[r] = "settle" /\ wpc'[r] = "done")
                   \/ (pc'[r] = "report" /\ r \in clean' /\ saved'[r].stage = "registration")
             /\ o.record[s] # Nothing /\ o.served[s] \notin {Torn, Died} /\ PortOf[s] \notin strayed'
             => state'[s].version = o.record[s] /\ Running(s)'
    BY <1>3, <1>b DEF Brought, Service, Running, Alive
  <2>4. strayed \subseteq strayed'
    BY StrayedGrows
  <2>5. /\ pc[r] = "wait" => record[s] = v
        /\ pc[r] = "settle" => record[s] = o.record[s]
        /\ wpc[r] \in Bringing => want[r] = record[s]
        /\ pc[r] = "settle" /\ wpc[r] \in {"clear", "erase", "partial"} => o.record[s] = Nothing
        /\ wpc[r] # "none" => pc[r] \in Waiting
    <3>1. o.record \in Files
      BY <1>0 DEF Origin
    <3>2. QED
      BY <1>3, <2>1, <3>1 DEF Written, Aimed, Solo, ApplyLabel, Files
  <2> HIDE DEF v, o
  <2>6. CASE Works(r)
    <3>1. pc' = pc /\ wpc[r] # "none"
      BY <2>6 DEF Works, Look, InstallAgain, Install, Mark, Stop, Spawn, Ready, LaunchFails,
         DirectoryGone, StopKnown, Erase, Leave, In, host, executor
    <3>2. pc[r] \in {"wait", "settle"}
      BY <2>1, <2>5, <3>1 DEF Waiting, ApplyLabel
    <3>3. CASE Look(r)
      <4>1. UNCHANGED <<state, bridge>>
        BY <3>3 DEF Look, runtime
      <4>2. wpc'[r] = "done" => state[s].version = record[s] /\ Running(s)
        BY <1>0, <2>1, <3>3 DEF Look, In, Send, TypeOK
      <4>3. Running(s)' = Running(s)
        BY <4>1 DEF Running, Alive
      <4>4. QED
        BY <2>5, <3>1, <3>2, <4>1, <4>2, <4>3
    <3>4. CASE Ready(r)
      <4>1. /\ bridge' = bridge /\ Alive(pid[r]) /\ wpc[r] \in {"ready", "reready"}
            /\ wpc'[r] = "done" => wpc[r] = "ready"
            /\ state'[s] = [version |-> Aim(r), pid |-> pid[r]]
        BY <1>0, <2>1, <3>4 DEF Ready, In, Send, TypeOK
      <4>2. wpc[r] = "ready" => state'[s].version = record[s]
        BY <2>5, <4>1 DEF Aim, Bringing
      <4>3. bridge[pid[r]].service = s
        BY <2>1, <4>1 DEF OwnBridge, Alive
      <4>4. Running(s)'
        BY <4>1, <4>3 DEF Running, Alive
      <4>5. QED
        BY <2>5, <3>1, <3>2, <4>1, <4>2, <4>4
    <3>5. CASE Erase(r)
      BY <1>0, <2>5, <3>1, <3>2, <3>5 DEF Erase, In, InStep
    <3>6. CASE ~ (Look(r) \/ Ready(r) \/ Erase(r))
      <4>1. wpc'[r] # "done"
        BY <1>0, <2>6, <3>6, TableFacts DEF Works, InstallAgain, Install, Mark, Stop, Spawn,
           LaunchFails, DirectoryGone, StopKnown, Leave, Dismiss, In, Send, TypeOK
      <4>2. QED
        BY <3>1, <3>2, <4>1
    <3>7. QED
      BY <3>3, <3>4, <3>5, <3>6
  <2>7. CASE KillWorker(r) \/ Timeout(r) \/ \E k \in Kind : Lose(r, k)
    BY <1>1, <2>7 DEF KillWorker, Timeout, Lose, Quiet
  <2>8. CASE Kill(r) \/ Raise(r) \/ Report(r) \/ Unlist(r)
    BY <1>0, <1>1, <2>8 DEF Kill, Raise, Report, Unlist, Ends, Goto, TypeOK, Quiet
  <2>9. CASE Executes(r)
    <3>1. UNCHANGED runtime
      BY <2>9, RuntimeKept
    <3>2. Running(s)' = Running(s) /\ state' = state
      BY <3>1 DEF runtime, Running, Alive
    <3>3. CASE Return(r)
      <4>1. wpc'[r] = "none"
        BY <1>0, <3>3 DEF Return, Dismiss, Send, TypeOK
      <4>2. CASE pc[r] = "wait"
        <5>1. pc'[r] # "report" /\ (pc'[r] = "gateway" => wpc[r] = "done")
              /\ pc'[r] \notin {"refresh", "resource", "server"}
          BY <1>0, <1>1, <3>3, <4>2, TableFacts DEF Return, At, Goto, Ends, TypeOK, Quiet
        <5>2. QED
          BY <2>2, <2>4, <3>2, <4>1, <4>2, <5>1
      <4>3. CASE pc[r] = "settle"
        <5>1. /\ pc'[r] = "report" /\ saved' = saved
              /\ r \in clean' => wpc[r] = "done"
          BY <1>0, <3>3, <4>3, TableFacts DEF Return, At, Goto, TypeOK
        <5>2. QED
          BY <2>2, <2>4, <3>2, <4>3, <5>1
      <4>4. QED
        BY <2>1, <3>3, <4>2, <4>3 DEF Return, At, ApplyLabel
    <3>4. CASE \E k \in Kind : PutRow(r, k)
      <4>1. PICK k \in Kind : PutRow(r, k)
        BY <3>4
      <4>2. ~ Ends(r)
        BY <1>0, <1>1 DEF Ends, Goto, Quiet, TypeOK
      <4>3. pc'[r] \in {"refresh", "server"} /\ pc[r] \in {"gateway", "resource"}
        BY <1>0, <4>1, <4>2, TableFacts DEF PutRow, At, Goto, TypeOK, Kind
      <4>4. QED
        BY <2>2, <2>4, <3>2, <4>3
    <3>5. CASE Refresh(r)
      BY <1>0, <2>2, <2>4, <3>2, <3>5 DEF Refresh, At, Goto, TypeOK
    <3>6. CASE Unindex(r)
      <4>1. saved' = saved /\ pc'[r] = IF saved[r].stage = "registration" THEN "reset" ELSE "report"
        BY <1>0, <3>6 DEF Unindex, Goto, TypeOK
      <4>2. QED
        BY <4>1
    <3>7. CASE Call(r)
      BY <1>0, <2>1, <3>7, TableFacts DEF Call, At, Goto, Send, TypeOK, ApplyLabel
    <3>8. CASE \/ WriteRecord(r) \/ WriteIndex(r) \/ Refuse(r) \/ Undone(r) \/ Unrecord(r)
               \/ \E k \in Kind : Undo(r, k)
      BY <1>0, <3>8 DEF WriteRecord, WriteIndex, Refuse, Undone, Unrecord, Undo, At, Goto, TypeOK
    <3>9. CASE DropRow(r) \/ Unlink(r)
      BY <2>1, <3>9, TableFacts DEF DropRow, Unlink, At, ApplyLabel
    <3>10. QED
      BY <2>7, <2>8, <2>9, <3>3, <3>4, <3>5, <3>6, <3>7, <3>8, <3>9 DEF Executes
  <2>10. QED
    BY <1>3, <2>6, <2>7, <2>8, <2>9 DEF Moves
<1>4. ASSUME Quiet(r), (\E p \in Pids : Bind(p) \/ Death(p)) \/ UNCHANGED vars PROVE Brought(r)'
  <2>1. /\ UNCHANGED <<saved, pc, wpc, job, clean, state, strayed>>
        /\ origin'[r].record = origin[r].record
    BY <1>4, NobodyHost DEF host, executor, worker
  <2>2. Service(r) = s
    BY <1>b, <2>1 DEF Service
  <2> DEFINE up == \/ pc[r] = "wait" /\ wpc[r] = "done"
                   \/ pc[r] \in {"gateway", "refresh", "resource", "server"}
             held == IF up THEN {Died} ELSE {Torn, Died}
  <2>a. up => BroughtUp(r)
    BY DEF BroughtUp
  <2>b. ASSUME NEW x \in Pids, Death(x)
        PROVE  origin'[r].served = [origin[r].served EXCEPT ![bridge[x].service] =
                                      IF BroughtUp(r) THEN Died ELSE Torn]
    <3>1. origin'[r] = [origin[r] EXCEPT !.served[bridge[x].service] =
                          IF BroughtUp(r) THEN Died ELSE Torn]
      BY <1>4, <2>b DEF Death, Quiet
    <3>2. QED
      BY <1>0, <3>1 DEF Origin
  <2>c. origin[r].served \in [Services -> Content \cup {Torn, Died}]
    BY <1>0 DEF Origin
  <2>3. SUFFICES ASSUME Running(s), origin'[r].served[s] \notin held, PortOf[s] \notin strayed
                 PROVE  Running(s)'
    <3>1. origin'[r].served[s] \notin held => origin[r].served[s] \notin held
      <4>1. ASSUME NEW x \in Pids, Death(x), origin'[r].served[s] \notin held
            PROVE  origin[r].served[s] \notin held
        BY <2>a, <2>b, <2>c, <4>1
      <4>2. QED
        BY <1>4, <4>1 DEF Bind, history, vars
    <3>2. QED
      BY <1>4, <2>1, <2>2, <2>3, <3>1 DEF Brought, Quiet, Service
  <2>4. PICK p \in Pids : p = state[s].pid
    BY <1>0, <2>3 DEF Running, Alive, TypeOK, State
  <2>5. listener[PortOf[s]] = p
    BY <2>3, <2>4 DEF Listens
  <2>6. bridge[p] # NoBridge /\ bridge[p].service = s
    BY <2>3, <2>4 DEF Running, Alive
  <2>7. bridge'[p] = bridge[p]
    <3>1. ASSUME NEW x \in Pids, Bind(x) PROVE bridge'[p] = bridge[p]
      BY <1>0, <2>5, <2>6, <3>1 DEF Bind, TypeOK
    <3>2. ASSUME NEW x \in Pids, Death(x) PROVE bridge'[p] = bridge[p]
      <4>1. x # p
        <5>1. SUFFICES ASSUME x = p PROVE FALSE
          OBVIOUS
        <5>2. origin'[r].served[s] = IF BroughtUp(r) THEN Died ELSE Torn
          BY <2>6, <2>b, <2>c, <3>2, <5>1
        <5>3. origin'[r].served[s] \in held
          BY <2>a, <5>2
        <5>4. QED
          BY <2>3, <5>3
      <4>2. QED
        BY <1>0, <3>2, <4>1 DEF Death, Killed, TypeOK
    <3>3. QED
      BY <1>4, <3>1, <3>2 DEF vars, runtime
  <2>8. QED
    BY <2>1, <2>3, <2>4, <2>6, <2>7 DEF Running, Alive
<1>5. QED
  BY <1>1, <1>2, <1>3, <1>4, QuietMoves

-------------------------------------------------------------------------------
(* The invariant of quiet runs.                                            *)

LEMMA ServeInit == Init => OriginInv /\ QuietInv /\ ServeInv
<1>1. SUFFICES ASSUME Init PROVE OriginInv /\ QuietInv /\ ServeInv
  OBVIOUS
<1>2. TypeOK
  BY <1>1, TypeInit
<1>3. OriginInv
  BY <1>1, <1>2, NowTypes DEF Init, OriginInv
<1>4. \A r \in Runs : pc[r] = "idle" /\ wpc[r] = "none" /\ saved[r] = NothingSaved
  BY <1>1 DEF Init
<1>5. \A r \in Runs : ~ Quiet(r) /\ Unnoted(r)
  BY <1>4 DEF Quiet, Unnoted, NothingSaved
<1>6. QuietInv
  BY <1>3, <1>5 DEF QuietInv, Solo, Deleting, Written, Registered, Aimed, Brought
<1>7. \A s \in Services : ~ Running(s) /\ tree[s] = marker[s]
  BY <1>1 DEF Init, Running, Alive, NoState
<1>8. ServeInv
  BY <1>4, <1>7 DEF ServeInv, Marked, Listens, Told, Installed, RivalsStopped, Launching
<1>9. QED
  BY <1>3, <1>6, <1>8

Invariants == StepInv /\ BridgeInv /\ ListenInv /\ QuietInv /\ ServeInv

LEMMA ServeStep == Invariants /\ [Next]_vars => Invariants'
<1>1. SUFFICES ASSUME Invariants, [Next]_vars PROVE Invariants'
  OBVIOUS
<1>2. StepInv' /\ BridgeInv' /\ ListenInv'
  BY <1>1, StepStep, BridgeStep, ListenStep DEF Invariants, StepInv
<1>3. /\ StepInv /\ BridgeInv /\ ListenInv /\ OriginInv /\ Marked /\ Listens /\ Told
      /\ \A r \in Runs : /\ Alone(r) /\ OwnBridge(r) /\ FormerStopped(r)
                         /\ Solo(r) /\ Unnoted(r) /\ Deleting(r) /\ Written(r)
                         /\ Registered(r) /\ Aimed(r) /\ Brought(r)
                         /\ Installed(r) /\ RivalsStopped(r)
  BY <1>1 DEF Invariants, BridgeInv, QuietInv, ServeInv
<1>4. OriginInv'
  BY <1>1, <1>3, OriginStep DEF StepInv
<1>5. ASSUME NEW r \in Runs
      PROVE  Solo(r)' /\ Unnoted(r)' /\ Deleting(r)' /\ Written(r)' /\ Registered(r)'
  BY <1>1, <1>2, <1>3, SoloStep, UnnotedStep, DeletingStep, WrittenStep, RegisteredStep
<1>6. ASSUME NEW r \in Runs PROVE Aimed(r)' /\ Brought(r)'
  BY <1>1, <1>2, <1>3, <1>5, AimedStep, BroughtStep
<1>7. Marked' /\ Listens' /\ Told'
  BY <1>1, <1>2, <1>3, MarkedStep, ListensStep, ToldStep
<1>8. ASSUME NEW r \in Runs PROVE Installed(r)' /\ RivalsStopped(r)'
  BY <1>1, <1>3, InstalledStep, RivalsStoppedStep
<1>9. QED
  BY <1>2, <1>4, <1>5, <1>6, <1>7, <1>8 DEF Invariants, QuietInv, ServeInv

LEMMA Quietly == Spec => []Invariants
<1>1. Init => Invariants
  BY StepInit, BridgeInit, ServeInit DEF Invariants, Init, ListenInv
<1>2. QED
  BY <1>1, ServeStep, PTL DEF Spec

-------------------------------------------------------------------------------
(* What a run that ends has brought about.                                 *)

(* A quiet run is the only one there is.                                   *)
LEMMA QuietAlone ==
  ASSUME Invariants, NEW r \in Runs, pc[r] \notin Waiting, Quiet(r), NEW q \in Runs
  PROVE  wpc[q] = "none" /\ pid[q] = Nothing
<1>1. Busy = {r} /\ wpc[r] = "none"
  BY DEF Invariants, QuietInv, Solo
<1>2. wpc[q] = "none"
  BY <1>1 DEF Busy
<1>3. QED
  BY <1>2 DEF Invariants, StepInv, InStep

(* A delete none of whose steps failed leaves nothing of the service, but  *)
(* for a record that no index entry named: what served it is not there.    *)
THEOREM DeleteCleans == Spec => DeleteIsClean
<1>1. Invariants =>
        [\A r \in Runs, s \in Services :
           /\ Unlist(r) /\ r \in clean /\ r \notin disturbed /\ s = Service(r)
           => /\ record[s] # Nothing => origin[r].index[s] = Nothing
              /\ index'[s] = Nothing /\ state[s] = NoState
              /\ \A k \in Kind : rows[k][s] = Nothing
              /\ PortOf[s] \notin strayed => Served(s) = Nothing]_vars
  <2>1. SUFFICES ASSUME Invariants, NEW r \in Runs, NEW s \in Services,
                        Unlist(r), r \in clean, r \notin disturbed, s = Service(r)
                 PROVE  /\ record[s] # Nothing => origin[r].index[s] = Nothing
                        /\ index'[s] = Nothing /\ state[s] = NoState
                        /\ \A k \in Kind : rows[k][s] = Nothing
                        /\ PortOf[s] \notin strayed => Served(s) = Nothing
    OBVIOUS
  <2>2. TypeOK /\ pc[r] = "unlist" /\ Quiet(r)
    BY <2>1 DEF Invariants, StepInv, Unlist, At, Quiet
  <2>3. /\ record[s] # Nothing => origin[r].index[s] = Nothing
        /\ state[s] = NoState
        /\ \A k \in Kind : rows[k][s] = Nothing
    BY <2>1, <2>2 DEF Invariants, QuietInv, Deleting, DeleteLabel, Kind
  <2>4. index'[s] = Nothing
    <3>1. saved[r].index \in Files
      BY <2>2 DEF TypeOK, Saved
    <3>2. QED
      BY <2>1, <3>1 DEF Unlist, Reindex, Files
  <2>5. ASSUME PortOf[s] \notin strayed, Served(s) # Nothing PROVE FALSE
    <3>1. PICK p \in Pids : /\ p = listener[PortOf[s]] /\ bridge[p].service = s
      BY <2>2, <2>5, PortAssumption DEF Served, TypeOK
    <3>2. Alive(p)
      BY <2>1, <3>1, PortAssumption, ValueTypes DEF Invariants, ListenInv
    <3>3. state[s].pid = p \/ \E q \in Runs : pid[q] = p
      BY <2>1, <2>5, <3>1, <3>2 DEF Invariants, BridgeInv, BridgesAccounted
    <3>4. state[s].pid = Nothing
      BY <2>3 DEF NoState
    <3>5. \A q \in Runs : pid[q] = Nothing
      BY <2>1, <2>2, QuietAlone DEF Waiting
    <3>6. QED
      BY <3>2, <3>3, <3>4, <3>5 DEF Alive
  <2>6. QED
    BY <2>3, <2>4, <2>5
<1>2. QED
  BY <1>1, Quietly, PTL DEF DeleteIsClean

(* A run that succeeds leaves every part of the service at its version,    *)
(* whatever earlier runs left half done, and a bridge that serves it, if   *)
(* none has strayed and it has not ended by itself since it was brought    *)
(* up: one of its version, but for an install that was interrupted.        *)
THEOREM SuccessCompletes == Spec => SuccessIsWhole
<1>1. Invariants =>
        [\A r \in Runs, s \in Services, v \in Versions :
           /\ PutRow(r, "server") /\ r \notin disturbed
           /\ s = Service(r) /\ v = job[r].version
           => /\ Whole(s, v)'
              /\ PortOf[s] \notin strayed /\ origin[r].served[s] # Died
                 => Served(s) # Nothing /\ (s \notin spoilt => Served(s) = v)]_vars
  <2>1. SUFFICES ASSUME Invariants, NEW r \in Runs, NEW s \in Services, NEW v \in Versions,
                        PutRow(r, "server"), r \notin disturbed, s = Service(r), v = job[r].version
                 PROVE  /\ Whole(s, v)'
                        /\ PortOf[s] \notin strayed /\ origin[r].served[s] # Died
                           => Served(s) # Nothing /\ (s \notin spoilt => Served(s) = v)
    OBVIOUS
  <2>2. /\ TypeOK /\ pc[r] = "server" /\ Quiet(r)
        /\ UNCHANGED <<record, index, runtime, strayed, spoilt>>
        /\ rows' = [rows EXCEPT !["server"][s] = v]
    BY <2>1 DEF Invariants, StepInv, PutRow, Put, At, Quiet, host
  <2>3. record[s] = v /\ index[s] = v
    <3>1. origin[r].record \in Files /\ origin[r].index \in Files
      BY <2>1 DEF Invariants, QuietInv, OriginInv, Origin
    <3>2. QED
      BY <2>1, <2>2, <3>1 DEF Invariants, QuietInv, Written, ApplyLabel, Files
  <2>4. \A k \in Kind : rows'[k][s] = v
    <3>1. rows["gateway"][s] = v /\ rows["resource"][s] = v
      BY <2>1, <2>2 DEF Invariants, QuietInv, Registered, ApplyLabel
    <3>2. QED
      BY <2>2, <3>1 DEF TypeOK, Files, Kind
  <2>5. state[s].version = v
    BY <2>1, <2>2 DEF Invariants, QuietInv, Brought, ApplyLabel
  <2>6. ASSUME PortOf[s] \notin strayed, origin[r].served[s] # Died
        PROVE  Served(s) # Nothing /\ (s \notin spoilt => Served(s) = v)
    <3>1. Running(s)
      BY <2>1, <2>2, <2>6 DEF Invariants, QuietInv, Brought, ApplyLabel
    <3>2. PICK p \in Pids : p = state[s].pid /\ bridge[p].service = s /\ bridge[p] \in Bridge
      BY <2>2, <3>1 DEF Running, Alive, TypeOK, State
    <3>3. listener[PortOf[s]] = p
      BY <2>1, <2>6, <3>1, <3>2 DEF Invariants, ServeInv, Listens
    <3>4. Served(s) = bridge[p].version /\ Served(s) # Nothing
      BY <3>2, <3>3, ValueTypes, DistinctAssumption DEF Served, Bridge
    <3>5. \A q \in Runs : wpc[q] # "stop"
      BY <2>1, <2>2, QuietAlone DEF Waiting
    <3>6. s \notin spoilt => bridge[p].version = v
      BY <2>1, <2>5, <2>6, <3>1, <3>2, <3>5 DEF Invariants, ServeInv, Told
    <3>7. QED
      BY <3>4, <3>6
  <2>7. QED
    BY <2>2, <2>3, <2>4, <2>5, <2>6 DEF Whole, runtime
<1>2. QED
  BY <1>1, Quietly, PTL DEF SuccessIsWhole

(* A run that fails and reports that its rollback passed leaves the        *)
(* records, the index and the gateway as it found them, whatever step      *)
(* failed; if its bridge was replaced, the version that was served is      *)
(* served again.                                                           *)
THEOREM FailureRestoring == Spec => FailureRestores
<1>1. Invariants =>
        [\A r \in Runs :
           Report(r) /\ r \in clean /\ r \notin disturbed
           => /\ record = origin[r].record /\ index = origin[r].index
              /\ rows = origin[r].rows
              /\ \A s \in Services :
                   /\ s = Service(r) /\ saved[r].stage = "registration"
                   /\ origin[r].record[s] # Nothing
                   /\ origin[r].served[s] = origin[r].record[s]
                   /\ s \notin spoilt /\ PortOf[s] \notin strayed
                   => Served(s) = origin[r].record[s]]_vars
  <2>1. SUFFICES ASSUME Invariants, NEW r \in Runs, Report(r), r \in clean, r \notin disturbed
                 PROVE  /\ record = origin[r].record /\ index = origin[r].index
                        /\ rows = origin[r].rows
                        /\ \A s \in Services :
                             /\ s = Service(r) /\ saved[r].stage = "registration"
                             /\ origin[r].record[s] # Nothing
                             /\ origin[r].served[s] = origin[r].record[s]
                             /\ s \notin spoilt /\ PortOf[s] \notin strayed
                             => Served(s) = origin[r].record[s]
    OBVIOUS
  <2>2. /\ TypeOK /\ pc[r] = "report" /\ Quiet(r) /\ origin[r] \in Origin
    BY <2>1 DEF Invariants, StepInv, Report, At, Quiet, QuietInv, OriginInv
  <2>3. record = origin[r].record /\ index = origin[r].index
    BY <2>1, <2>2 DEF Invariants, QuietInv, Written, ApplyLabel
  <2>4. rows = origin[r].rows
    <3>1. rows \in [Kind -> Files] /\ origin[r].rows \in [Kind -> Files]
      BY <2>2 DEF TypeOK, Origin
    <3>2. ASSUME NEW k \in Kind, NEW t \in Services PROVE rows[k][t] = origin[r].rows[k][t]
      <4>1. saved[r].rows[k] = Untouched
        BY <2>1, <2>2 DEF Invariants, QuietInv, Unnoted
      <4>2. QED
        BY <2>1, <2>2, <4>1 DEF Invariants, QuietInv, Registered, ApplyLabel
    <3>3. ASSUME NEW k \in Kind PROVE rows[k] = origin[r].rows[k]
      BY <3>1, <3>2 DEF Files
    <3>4. QED
      BY <3>1, <3>3
  <2>5. ASSUME NEW s \in Services, s = Service(r), saved[r].stage = "registration",
               origin[r].record[s] # Nothing, origin[r].served[s] = origin[r].record[s],
               s \notin spoilt, PortOf[s] \notin strayed
        PROVE  Served(s) = origin[r].record[s]
    <3>1. origin[r].served[s] \notin {Torn, Died}
      BY <2>2, <2>5, DistinctAssumption DEF Origin, Files, Content
    <3>2. state[s].version = origin[r].record[s] /\ Running(s)
      BY <2>1, <2>2, <2>5, <3>1 DEF Invariants, QuietInv, Brought, ApplyLabel
    <3>3. listener[PortOf[s]] = state[s].pid
      BY <2>1, <2>5, <3>2 DEF Invariants, ServeInv, Listens
    <3>4. \A q \in Runs : wpc[q] # "stop"
      BY <2>1, <2>2, QuietAlone DEF Waiting
    <3>5. bridge[state[s].pid].version = state[s].version
      BY <2>1, <2>5, <3>2, <3>4 DEF Invariants, ServeInv, Told
    <3>6. QED
      BY <3>2, <3>3, <3>5 DEF Served, Running, Alive
  <2>6. QED
    BY <2>3, <2>4, <2>5
<1>2. QED
  BY <1>1, Quietly, PTL DEF FailureRestores
===============================================================================
