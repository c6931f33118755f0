--------------------------- MODULE ProjectDocument ---------------------------
(***************************************************************************)
(* What the project state file says, and how its readers understand it     *)
(* (control_plane_project_state.py, and the operations of                  *)
(* control_plane_project_init_helper.py that change it).  One operation is *)
(* one step: module StateStore is about two at a time.                     *)
(*                                                                         *)
(* The file is written with its keys sorted, and every load normalises it: *)
(* the state of a client is derived from the last job of the client in the *)
(* order of the file, so the writer and the next reader may disagree.      *)
(*                                                                         *)
(* Abstractions.  A job id is a number for its place in the order of the   *)
(* file; ids are hashes, so a new one falls anywhere.  A digest is what it *)
(* digests.  Every activation is install-only (the helper passes no other  *)
(* validation mode) and every client needs a reload.                       *)
(***************************************************************************)
EXTENDS Naturals, Sequences, FiniteSets

CONSTANTS Clients,      \* target clients
          Pi,           \* the client with no configuration file of its own
          OpenCode,     \* the client whose entries the helper takes back
          Services,     \* service bindings
          ServerIds,    \* ids the gateway gives virtual servers
          Selections,   \* services selected together, in their order
          Jobs,         \* job ids, in the order of the file
          Decided,      \* services the user may decline or defer together
          Legacy,       \* files an older helper may have left
          NoDocument, NoRecord, NoJob, NoState, NoServer,
          Found,        \* what the gateway may say at first
          MaxChanges    \* bound: decisions, removals, edits, registrations

ASSUME ClientAssumption == Pi \in Clients /\ OpenCode \in Clients /\ Pi # OpenCode
ASSUME JobAssumption == Jobs \subseteq Nat /\ IsFiniteSet(Jobs) /\ NoJob \notin Jobs
ASSUME SelectionAssumption ==
    /\ Selections \subseteq Seq(Services)
    /\ Decided \subseteq SUBSET Services
ASSUME BoundAssumption == MaxChanges \in Nat

(* What a readback of the gateway says of a service: its id, that there is *)
(* none, or nothing.                                                       *)
Readback == ServerIds \cup {"absent", "unknown"}
ASSUME FoundAssumption == Found \subseteq [Services -> Readback]
Identity == [service : Services, digest : Readback, server : ServerIds \cup {NoServer}]

Validation == {"none", "pending", "installed", "passed"}
Record == [digest : Readback, server : ServerIds \cup {NoServer}, on : [Clients -> Validation]]

(* A client's own configuration: an entry is absent, ours or the user's.   *)
Entry == {"none", "owned", "foreign"}
Exposure == [Services -> Entry]

Job == [client : Clients, selected : Seq(Identity), digest : Exposure]

ClientState == [job : Jobs \cup {NoJob}, bindings : SUBSET Services,
                status : {"reload_required", "installed", "verified", "validation_pending"}]

Document == [init : {"missing", "present"},
             status : {"uninitialized", "in_progress", "initialized"},
             services : [Services -> Record \cup {NoRecord}],
             decisions : [Services -> {"none", "accepted", "off"}],
             jobs : [Jobs -> Job \cup {NoJob}],
             current : Jobs \cup {NoJob},
             clients : [Clients -> ClientState \cup {NoState}]]

ASSUME NamesAssumption ==
    /\ NoRecord \notin Record /\ NoJob \notin Job /\ NoState \notin ClientState
    /\ NoDocument \notin Document

(* Jobs and what is derived from them live in the section that such a file *)
(* has not got.                                                            *)
ASSUME LegacyAssumption ==
    Legacy \subseteq {d \in Document :
        /\ d.init = "missing" /\ d.current = NoJob
        /\ d.jobs = [j \in Jobs |-> NoJob] /\ d.clients = [c \in Clients |-> NoState]}

DefaultState ==
    [init |-> "present", status |-> "uninitialized",
     services |-> [v \in Services |-> NoRecord],
     decisions |-> [v \in Services |-> "none"],
     jobs |-> [j \in Jobs |-> NoJob], current |-> NoJob,
     clients |-> [c \in Clients |-> NoState]]

VARIABLES
    file,       \* the document as it was written
    config,     \* the project-local configuration of each client
    readback,   \* what the gateway says of each service
    last,       \* history: the job of each client's last activation
    changes     \* decisions, removals, edits and registrations so far

docVars == <<file, config, readback, last, changes>>

DocTypeOK ==
    /\ file \in Document \cup {NoDocument}
    /\ config \in [Clients -> Exposure]
    /\ readback \in [Services -> Readback]
    /\ last \in [Clients -> Jobs \cup {NoJob}]
    /\ changes \in 0 .. MaxChanges

DocInit ==
    /\ file \in Legacy \cup {NoDocument}
    /\ config \in {[c \in Clients |-> [v \in Services |-> "none"]]}
    /\ readback \in Found
    /\ last = [c \in Clients |-> NoJob]
    /\ changes = 0

----------------------------------------------------------------------------
(* Reading.                                                                *)

BindingsOf(job) == {job.selected[k].service : k \in 1 .. Len(job.selected)}
JobsOf(d, c) == {j \in Jobs : d.jobs[j] # NoJob /\ d.jobs[j].client = c}
ServicesOn(d, c) ==
    {v \in Services : d.services[v] # NoRecord /\ d.services[v].on[c] # "none"}

(* Nothing observes the reload, so a job always leaves its client with it. *)
FromJobDone(d, j) ==   \* mutant: installed means done
    [job |-> j, bindings |-> BindingsOf(d.jobs[j]), status |-> "installed"]
FromJob(d, j) ==
    [job |-> j, bindings |-> BindingsOf(d.jobs[j]), status |-> "reload_required"]

FromValidation(found) ==
    IF found = {"passed"} THEN "verified"
    ELSE IF found = {"installed"} THEN "installed" ELSE "validation_pending"
FromServices(d, c) ==
    [job |-> NoJob, bindings |-> ServicesOn(d, c),
     status |-> FromValidation({d.services[v].on[c] : v \in ServicesOn(d, c)})]

(* The last job of each client in the order of the document decides.  A    *)
(* job just added is last in memory, and anywhere once written.            *)
Greatest(js) == {j \in js : \A i \in js : i <= j}
LastOf(js, added) == IF added \in js THEN {added} ELSE Greatest(js)
Normalized(d, added) ==
    [d EXCEPT !.clients = [c \in Clients |->
        IF JobsOf(d, c) # {} THEN FromJob(d, CHOOSE j \in LastOf(JobsOf(d, c), added) : TRUE)
        ELSE IF ServicesOn(d, c) # {} THEN FromServices(d, c)
        ELSE d.clients[c]]]

Loadable(d) == IF d = NoDocument THEN FALSE ELSE d.init = "present"
Load(d) == IF d = NoDocument THEN DefaultState ELSE Normalized(d, NoJob)

(* The job that reading, resuming and repairing are about.                 *)
CurrentOfAll(d, c) == d.current   \* mutant: the project's, not the client's
CurrentJob(d, c) ==
    IF d.clients[c] # NoState /\ d.clients[c].job # NoJob THEN d.clients[c].job
    ELSE d.current
HasCurrentJob(d, c) ==
    IF CurrentJob(d, c) = NoJob THEN FALSE ELSE d.jobs[CurrentJob(d, c)].client = c

----------------------------------------------------------------------------
(* Planning what a client is to see.                                       *)

FromCatalogRaw(v) ==   \* mutant: whatever the readback says
    [service |-> v, digest |-> readback[v], server |-> readback[v]]
FromCatalog(v) ==
    [service |-> v, digest |-> readback[v],
     server |-> IF readback[v] \in ServerIds THEN readback[v] ELSE NoServer]
OnRecord(d, v) ==
    [service |-> v, digest |-> d.services[v].digest, server |-> d.services[v].server]

(* The items of q whose service is in V, in their order.                   *)
Among(q, V) ==
    LET kept[n \in 0 .. Len(q)] ==
            IF n = 0 THEN <<>>
            ELSE IF q[n].service \in V THEN Append(kept[n - 1], q[n]) ELSE kept[n - 1]
    IN  kept[Len(q)]

(* The services of a job as they are now: those on record first, the rest  *)
(* from the catalogue.                                                     *)
Recorded(d) == {v \in Services : d.services[v] # NoRecord}
ServicesFromState(d, job) ==
    LET here == Among(job.selected, Recorded(d))
        gone == Among(job.selected, Services \ Recorded(d))
    IN  [k \in 1 .. Len(here) |-> OnRecord(d, here[k].service)]
        \o [k \in 1 .. Len(gone) |-> FromCatalog(gone[k].service)]

Before(d, c, S) ==
    IF c = Pi THEN [v \in Services |->
                       IF v \in S \cap ServicesOn(d, Pi) THEN "owned" ELSE "none"]
    ELSE config[c]
After(d, c, S) ==
    [v \in Services |-> IF v \in S /\ Before(d, c, S)[v] # "foreign" THEN "owned"
                        ELSE Before(d, c, S)[v]]
Blocked(d, c, S) == \E v \in S : Before(d, c, S)[v] = "foreign"
WriteConfig(c, after) == config' = IF c = Pi THEN config ELSE [config EXCEPT ![c] = after]

----------------------------------------------------------------------------
(* Operations.                                                             *)

Change == changes < MaxChanges /\ changes' = changes + 1

(* A service the gateway said nothing of keeps the server id on record;    *)
(* one it said is absent does not.                                         *)
Inherited(d, i) ==
    IF /\ i.server = NoServer /\ i.digest # "absent"
       /\ d.services[i.service] # NoRecord
    THEN d.services[i.service].server ELSE i.server
ActivatedAnew(d, c, i) ==   \* mutant: the record written afresh
    [digest |-> i.digest, server |-> Inherited(d, i),
     on |-> [o \in Clients |-> IF o = c THEN "installed" ELSE "none"]]
Activated(d, c, i) ==
    [digest |-> i.digest, server |-> Inherited(d, i),
     on |-> [o \in Clients |->
                IF o = c THEN "installed"
                ELSE IF d.services[i.service] = NoRecord THEN "none"
                ELSE d.services[i.service].on[o]]]

(* Every selected service gets its record, with the other clients in it;   *)
(* the job names the services as they were selected.                       *)
ActivationToState(d, c, selected, j, after) ==
    LET job == [client |-> c, selected |-> selected, digest |-> after]
        entry(v) == {i \in {selected[k] : k \in 1 .. Len(selected)} : i.service = v}
    IN  [d EXCEPT
            !.init = "present", !.status = "initialized",
            !.services = [v \in Services |->
                IF v \in BindingsOf(job) THEN Activated(d, c, CHOOSE i \in entry(v) : TRUE)
                ELSE d.services[v]],
            !.decisions = [v \in Services |->
                IF v \in BindingsOf(job) THEN "accepted" ELSE d.decisions[v]],
            !.jobs[j] = job, !.current = j]

(* What an approved plan writes.  A file that does not load is replaced.   *)
Activate(c, q, j) ==
    LET d == IF Loadable(file) THEN Load(file) ELSE DefaultState
        selected == [k \in 1 .. Len(q) |-> FromCatalog(q[k])]
        S == {q[k] : k \in 1 .. Len(q)}
    IN  /\ d.jobs[j] = NoJob
        /\ ~ Blocked(d, c, S)
        /\ WriteConfig(c, After(d, c, S))
        /\ file' = Normalized(ActivationToState(d, c, selected, j, After(d, c, S)), j)
        /\ last' = [last EXCEPT ![c] = j]
        /\ UNCHANGED <<readback, changes>>

(* A decision not to install: nothing but the decision, and a project that *)
(* counts as initialised.                                                  *)
MayRead == file = NoDocument \/ Loadable(file)
Decide(S) ==
    /\ Change
    /\ MayRead
    /\ file' = [Load(file) EXCEPT
                   !.decisions = [v \in Services |->
                       IF v \in S THEN "off" ELSE Load(file).decisions[v]],
                   !.status = "initialized"]
    /\ UNCHANGED <<config, readback, last>>

(* Service management: only OpenCode's own entry is taken back.            *)
TakeBack(c, v) ==
    config' = IF c = OpenCode /\ config[c][v] = "owned"
              THEN [config EXCEPT ![c][v] = "none"] ELSE config
Disable(c, v) ==
    /\ Change
    /\ MayRead
    /\ TakeBack(c, v)
    /\ file' = [Load(file) EXCEPT !.decisions[v] = "off"]
    /\ UNCHANGED <<readback, last>>
Remove(c, v) ==
    /\ Change
    /\ MayRead
    /\ TakeBack(c, v)
    /\ file' = Normalized([Load(file) EXCEPT !.services[v] = NoRecord,
                                             !.decisions[v] = "none"], NoJob)
    /\ UNCHANGED <<readback, last>>

(* A repair of the client's current job.  Whether anything is written is   *)
(* told from the configuration alone.                                      *)
Differs(d, c, job, S) ==
    \/ Before(d, c, S) # After(d, c, S)
    \/ Before(d, c, S) # job.digest
RepairedDigest(d, j, now, after) ==   \* mutant: the job keeps its service ids
    [d EXCEPT !.jobs[j].digest = after]
Repaired(d, j, now, after) ==
    [d EXCEPT !.jobs[j].selected = now, !.jobs[j].digest = after]
Repair(c) ==
    /\ Loadable(file)
    /\ LET d == Load(file)
           j == CurrentJob(d, c)
       IN  /\ HasCurrentJob(d, c)
           /\ LET job == d.jobs[j]
                  S == BindingsOf(job)
                  now == ServicesFromState(d, job)
                  after == After(d, c, S)
              IN  /\ ~ Blocked(d, c, S)
                  /\ IF ~ Differs(d, c, job, S) THEN UNCHANGED <<file, config>>
                     ELSE /\ WriteConfig(c, after)
                          /\ file' = Normalized(
                                IF c = Pi THEN ActivationToState(d, c, now, j, after)
                                ELSE Repaired(d, j, now, after), NoJob)
    /\ UNCHANGED <<readback, last, changes>>

(* A file of an older helper, with services and no account of how they     *)
(* came: one job for them all, for whichever client asks.                  *)
RepairMissing(c, q, j) ==
    /\ file # NoDocument /\ ~ Loadable(file)
    /\ Recorded(file) # {} /\ {q[k] : k \in 1 .. Len(q)} = Recorded(file)
    /\ LET job == [client |-> c, selected |-> [k \in 1 .. Len(q) |-> OnRecord(file, q[k])],
                   digest |-> Before(file, c, Recorded(file))]
       IN  file' = Normalized([file EXCEPT !.init = "present", !.status = "in_progress",
                                           !.jobs[j] = job, !.current = j], j)
    /\ last' = [last EXCEPT ![c] = j]
    /\ UNCHANGED <<config, readback, changes>>

(* The gateway registers a service again, or cannot be read; the user      *)
(* edits a configuration.                                                  *)
Reregister(v, r) ==
    /\ Change
    /\ readback[v] # r /\ readback' = [readback EXCEPT ![v] = r]
    /\ UNCHANGED <<file, config, last>>
Edit(c, v, e) ==
    /\ Change
    /\ c # Pi /\ config[c][v] # e /\ config' = [config EXCEPT ![c][v] = e]
    /\ UNCHANGED <<file, readback, last>>

DocNext ==
    \/ \E c \in Clients, q \in Selections, j \in Jobs : Activate(c, q, j) \/ RepairMissing(c, q, j)
    \/ \E S \in Decided : Decide(S)
    \/ \E c \in Clients, v \in Services : Disable(c, v) \/ Remove(c, v)
    \/ \E c \in Clients : Repair(c)
    \/ \E v \in Services, r \in Readback : Reregister(v, r)
    \/ \E c \in Clients, v \in Services, e \in {"none", "foreign"} : Edit(c, v, e)

DocSpec == DocInit /\ [][DocNext]_docVars

----------------------------------------------------------------------------
(* What the readers make of the file.                                      *)

(* The helper: is there something to resume, and does it need a repair?    *)
RepairNeeded(d, c) ==
    LET job == d.jobs[CurrentJob(d, c)]
        S == BindingsOf(job)
    IN  \/ Before(d, c, S) # After(d, c, S)
        \/ ServicesFromState(d, job) # job.selected
Resume(d, c) ==
    IF d.status = "uninitialized" \/ ~ HasCurrentJob(d, c) THEN "nothing"
    ELSE IF RepairNeeded(d, c) THEN "repair" ELSE "reload"

(* The start-up hook: what it recommends, unless it keeps silent.          *)
HookPrompt(d, c) ==
    IF d.clients[c] = NoState
    THEN IF (\E o \in Clients : d.clients[o] # NoState) \/ d.status # "initialized"
         THEN "active" ELSE "silent"
    ELSE IF d.clients[c].status \in {"installed", "verified"} THEN "silent" ELSE "active"
Waits(d, c) ==
    IF d.clients[c] = NoState THEN FALSE
    ELSE d.clients[c].status \in {"reload_required", "validation_pending"}
Recommended(d, c) ==
    IF HookPrompt(d, c) = "silent" THEN "suppress"
    ELSE IF Waits(d, c) \/ d.status = "in_progress" THEN "resume" ELSE "fresh"

(* The Pi extension: the services it imports, unless a decision, of any    *)
(* client, is against them.                                                *)
Imported(d) == {v \in ServicesOn(d, Pi) : d.decisions[v] # "off"}

----------------------------------------------------------------------------
(* Properties.                                                             *)

(* What the helper has to resume for a client, the start-up hook of that   *)
(* client tells of: no prompt is silent while work waits                   *)
(* (inspect_project_init_state, pending_validation_resume).                *)
HookTellsOfWork ==
    LET d == Load(file)
    IN  Loadable(file) => \A c \in Clients :
            Resume(d, c) # "nothing" => Recommended(d, c) = "resume"

(* Installing or repairing for one client leaves what every other client   *)
(* reads and has configured, and takes no service from the Pi extension    *)
(* (apply_project_init_activation_to_state, which rewrites whole records). *)
OthersKeep ==
    [][\A c \in Clients :
        Loadable(file) /\ (last'[c] # last[c] \/ Repair(c)) =>
            LET d == Load(file)
                e == Load(file')
            IN  /\ \A o \in Clients \ {c} : /\ e.clients[o] = d.clients[o]
                                            /\ config'[o] = config[o]
                /\ Imported(d) \subseteq Imported(e)]_docVars

(* A repair that writes leaves nothing to repair; one that finds the       *)
(* configuration current may leave the alarm of a changed service id on    *)
(* (repair_pending_project_init_config, _pending_job_config_repair_status).*)
WrittenRepairSettles ==
    [][\A c \in Clients :
        Repair(c) /\ file' # file => (Resume(Load(file), c) # "repair")']_docVars

(* The job a reader takes for a client's current one is its latest, unless *)
(* an older job of the client sorts behind it in the file                  *)
(* (normalize_project_init_client_states).                                 *)
CurrentIsLatestUnlessSorted ==
    LET d == Load(file)
    IN  Loadable(file) => \A c \in Clients :
            last[c] # NoJob =>
                \/ CurrentJob(d, c) = last[c]
                \/ \E j \in JobsOf(d, c) : j > last[c]

(* A client whom the helper asks to repair has something the repair would  *)
(* write, or an entry of the user's in the way.  Fails: when the server id *)
(* of a service changed under the job the alarm is on, and the repair,     *)
(* which compares configurations only, changes nothing.                    *)
RepairHelps ==
    Loadable(file) => \A c \in Clients :
        LET d == Load(file)
            job == d.jobs[CurrentJob(d, c)]
        IN  Resume(d, c) = "repair" =>
                \/ Differs(d, c, job, BindingsOf(job))
                \/ Blocked(d, c, BindingsOf(job))
===============================================================================
