---------------------------- MODULE SerenaInstance ----------------------------
(***************************************************************************)
(* The per-project Serena backends of                                      *)
(* scripts/manage_serena_project_instance.py: create, which reserves a     *)
(* port under a flock and does everything else without it, and             *)
(* refresh-lsp-scaffold, verify and remove, which take no lock at all.     *)
(* Commands on any projects overlap.  One step per file, unit or gateway   *)
(* record that others can observe.                                         *)
(*                                                                         *)
(* Abstractions.  A manifest is its port and whether it records a          *)
(* registration; path.write_text truncates it first, and a truncated one   *)
(* is unreadable.  A command that raises and one that is killed both just  *)
(* end, and its flock goes with it.  Advice about language servers is left *)
(* out; rmtree and the reads of verify are one step each.  The gateway     *)
(* keeps one record per name and answers or refuses (then the command      *)
(* ends).                                                                  *)
(***************************************************************************)
EXTENDS Naturals

CONSTANTS Procs,        \* processes that run the manager, one command at a time
          Projects,     \* project roots, each with an identity of its own
          Nobody,       \* no holder of the lock, no listener on a port
          Stranger,     \* a program that is not Serena
          FirstPort, LastPort,  \* PORT_RANGE
          Commands,     \* the command lines in use on each project: [op, flags]
          Unmanaged,    \* projects with an alias serena of the user's own
          Limit         \* bounds: commands and mishaps in a behaviour

Ports == FirstPort .. LastPort
NoPort == 0
Event == {"command", "mishap"}

ASSUME PortsAssumption ==
    FirstPort \in Nat \ {0} /\ LastPort \in Nat /\ FirstPort <= LastPort
ASSUME NamesAssumption ==
    /\ Nobody \notin Procs \cup Projects \cup {Stranger}
    /\ Stranger \notin Projects

(* What build_parser offers each subcommand.                               *)
Offered == [create |-> {"systemd", "language", "codex", "replace", "verify"},
            refresh |-> {},
            verify |-> {"language"},
            remove |-> {"rows", "directory"}]
Flag == UNION {Offered[op] : op \in DOMAIN Offered}

ASSUME CommandsAssumption ==
    /\ Commands \in [Projects -> SUBSET [op : DOMAIN Offered, flags : SUBSET Flag]]
    /\ \A p \in Projects : \A c \in Commands[p] : c.flags \subseteq Offered[c.op]
    /\ \E p \in Projects : Commands[p] # {}
ASSUME LimitAssumption == Limit \in [Event -> Nat]

VARIABLES
    manifest,   \* instance.json of each project
    script,     \* the port in its run-server.sh
    dirs,       \* projects whose instance directory exists
    units,      \* projects whose unit file exists
    running,    \* projects whose unit is started
    listener,   \* who listens on each port
    gateway,    \* the port in the gateway record of each project
    servers,    \* projects whose virtual server exists
    alias,      \* [mcp_servers.serena] in the project's Codex config
    override,   \* projects with a language override
    env,        \* ENV_SERENA_PROVISION_STATUS in the project's .env
    lock,       \* holder of serena-instance-manager.local.lock
    pc,         \* where each process is
    job,        \* its command
    round,      \* which write of the manifest it is in or was in last
    port,       \* its local port
    kept,       \* the registration it is about to write
    exposed,    \* history: ports given away while somebody else had them
    disturbed,  \* history: commands that met another on their project
    spent       \* events so far

world == <<manifest, script, dirs, units, running, listener, gateway,
           servers, alias, override, env>>
own == <<job, round, port, kept>>
vars == <<world, lock, pc, own, exposed, disturbed, spent>>

Job == UNION {[command : Commands[p], project : {p}] : p \in Projects}
NoJob == CHOOSE j \in Job : TRUE
Rows == {"none", "registered"}
Manifest == [file : {"absent", "torn"}, port : {NoPort}, rows : Rows]
            \cup [file : {"whole"}, port : Ports, rows : Rows]
NoManifest == [file |-> "absent", port |-> NoPort, rows |-> "none"]

Locked == {"reserve", "script", "unit"}
Writing == {"merge", "truncate", "fill"}
Label == Locked \cup Writing \cup
         {"idle", "lock", "override", "start", "await", "restart", "reawait",
          "gateway", "tools", "server", "scaffold", "codex", "env",
          "read", "rewrite", "look", "bounce", "check",
          "unserver", "ungateway", "stop", "unlink", "clear", "unset"}

(* Labels of commands that do not know their port yet, or never will.      *)
Portless == {"idle", "lock", "reserve", "read", "look",
             "unserver", "ungateway", "stop", "unlink", "clear", "unset"}

TypeOK ==
    /\ manifest \in [Projects -> Manifest]
    /\ script \in [Projects -> Ports \cup {NoPort}]
    /\ dirs \in SUBSET Projects /\ units \in SUBSET Projects
    /\ running \in SUBSET Projects /\ servers \in SUBSET Projects
    /\ override \in SUBSET Projects
    /\ listener \in [Ports -> Projects \cup {Nobody, Stranger}]
    /\ gateway \in [Projects -> Ports \cup {NoPort}]
    /\ alias \in [Projects -> {"none", "owned", "foreign"}]
    /\ env \in [Projects -> {"none", "created", "removed"}]
    /\ lock \in Procs \cup {Nobody}
    /\ pc \in [Procs -> Label]
    /\ job \in [Procs -> Job]
    /\ round \in [Procs -> {"reserve", "record", "refresh"}]
    /\ port \in [Procs -> Ports \cup {NoPort}]
    /\ \A h \in Procs : pc[h] \notin Portless => port[h] \in Ports
    /\ kept \in [Procs -> Rows]
    /\ exposed \in SUBSET Ports /\ disturbed \in SUBSET Procs
    /\ spent \in [Event -> Nat]

Init ==
    /\ manifest = [p \in Projects |-> NoManifest]
    /\ script = [p \in Projects |-> NoPort]
    /\ dirs = {} /\ units = {} /\ running = {} /\ servers = {}
    /\ override = {} /\ exposed = {} /\ disturbed = {}
    /\ listener = [n \in Ports |-> Nobody]
    /\ gateway = [p \in Projects |-> NoPort]
    /\ alias = [p \in Projects |-> IF p \in Unmanaged THEN "foreign" ELSE "none"]
    /\ env = [p \in Projects |-> "none"]
    /\ lock = Nobody
    /\ pc = [h \in Procs |-> "idle"]
    /\ job = [h \in Procs |-> NoJob]
    /\ round = [h \in Procs |-> "reserve"]
    /\ port = [h \in Procs |-> NoPort]
    /\ kept = [h \in Procs |-> "none"]
    /\ spent = [e \in Event |-> 0]

Spend(e) == spent[e] < Limit[e] /\ spent' = [spent EXCEPT ![e] = @ + 1]
Goto(h, label) == pc' = [pc EXCEPT ![h] = label]
Project(h) == job[h].project
Asked(h, flag) == flag \in job[h].command.flags
Busy == {h \in Procs : pc[h] # "idle"}

(* At(h, l): process h takes the step at label l, which leaves the         *)
(* histories alone.                                                        *)
At(h, labels) == pc[h] \in labels /\ UNCHANGED <<exposed, disturbed, spent>>
Quiet == UNCHANGED <<lock, own>>

(* The command of h is over, and its process: the flock is let go and the  *)
(* next process of that name knows nothing.                                *)
Ends(h) ==
    /\ Goto(h, "idle")
    /\ lock' = IF lock = h THEN Nobody ELSE lock
    /\ job' = [job EXCEPT ![h] = NoJob]
    /\ round' = [round EXCEPT ![h] = "reserve"]
    /\ port' = [port EXCEPT ![h] = NoPort]
    /\ kept' = [kept EXCEPT ![h] = "none"]

Freed(p) == [n \in Ports |-> IF listener[n] = p THEN Nobody ELSE listener[n]]

-------------------------------------------------------------------------------
(* A command starts; create, under the lock.                               *)

FirstLabel(c) ==
    CASE c.op = "create" -> "lock"
      [] c.op = "refresh" -> "read"
      [] c.op = "verify" -> "look"
      [] c.op = "remove" -> IF "rows" \in c.flags THEN "unserver" ELSE "stop"

(* A process is given a command.                                           *)
Launch(h, j) ==
    LET met == {g \in Busy : Project(g) = j.project}
    IN  /\ pc[h] = "idle"
        /\ Spend("command")
        /\ job' = [job EXCEPT ![h] = j]
        /\ disturbed' = (disturbed \ {h}) \cup met
                          \cup (IF met = {} THEN {} ELSE {h})
        /\ Goto(h, FirstLabel(j.command))
        /\ UNCHANGED <<world, lock, round, port, kept, exposed>>

(* Variant: the lock file is opened, and not locked.                       *)
LockOnlyOpened(h) ==
    /\ At(h, {"lock"})
    /\ lock' = IF lock = Nobody THEN h ELSE lock
    /\ Goto(h, "reserve")
    /\ UNCHANGED <<world, own>>

(* fcntl.flock(LOCK_EX) blocks until nobody holds it.                      *)
Lock(h) ==
    /\ At(h, {"lock"}) /\ lock = Nobody
    /\ lock' = h
    /\ Goto(h, "reserve")
    /\ UNCHANGED <<world, own>>

(* Variant: only live listeners are looked at.                             *)
NoneClaimed == {}

(* used_manifest_ports skips a manifest it cannot read.                    *)
Claimed == {manifest[p].port : p \in {q \in Projects : manifest[q].file = "whole"}}

(* socket_port_open: somebody, whoever it is, accepts connections.         *)
Open(n) == listener[n] # Nobody

(* Variant: the range taken to include its end.                            *)
AvailablePastEnd ==
    {n \in FirstPort .. LastPort + 1 : n \notin Claimed /\ (n \in Ports => ~ Open(n))}

Available == {n \in Ports : n \notin Claimed /\ ~ Open(n)}

(* The port of the project's manifest, if that can be read; else the first *)
(* that no manifest claims and nobody listens on.                          *)
Choices(p) ==
    IF manifest[p].file = "whole" THEN {manifest[p].port}
    ELSE {n \in Available : \A k \in Available : n <= k}

(* Another project has n although its manifest does not say so: its script *)
(* starts there, or a command past the lock carries it.                    *)
HeldUnseen(p, n) ==
    \E q \in Projects \ {p} :
        /\ manifest[q].file # "whole" \/ manifest[q].port # n
        /\ \/ script[q] = n
           \/ \E g \in Busy : /\ Project(g) = q /\ port[g] = n
                              /\ g # lock

Reserve(h) ==
    LET p == Project(h)
    IN  /\ pc[h] = "reserve"
        /\ \E n \in Choices(p) :
             /\ port' = [port EXCEPT ![h] = n]
             /\ exposed' = IF HeldUnseen(p, n) THEN exposed \cup {n} ELSE exposed
        /\ Goto(h, "script")
        /\ UNCHANGED <<world, lock, job, round, kept, disturbed, spent>>

(* The instance directory, its scaffold and run-server.sh.                 *)
WriteScript(h) ==
    /\ At(h, {"script"})
    /\ dirs' = dirs \cup {Project(h)}
    /\ script' = [script EXCEPT ![Project(h)] = port[h]]
    /\ round' = [round EXCEPT ![h] = "reserve"]
    /\ Goto(h, "merge")
    /\ UNCHANGED <<manifest, units, running, listener, gateway, servers, alias,
                   override, env, lock, job, port, kept>>

(* write_manifest, read: what the file records is carried over, unless     *)
(* create comes with a registration of its own.                            *)
Merge(h) ==
    LET found == manifest[Project(h)]
    IN  /\ At(h, {"merge"})
        /\ kept' = [kept EXCEPT ![h] =
                      IF round[h] = "record" /\ Asked(h, "systemd")
                      THEN "registered"
                      ELSE IF found.file = "whole" THEN found.rows ELSE "none"]
        /\ Goto(h, "truncate")
        /\ UNCHANGED <<world, lock, job, round, port>>

(* write_manifest, open for writing.                                       *)
Truncate(h) ==
    /\ At(h, {"truncate"}) /\ Project(h) \in dirs
    /\ manifest' = [manifest EXCEPT ![Project(h)] = [NoManifest EXCEPT !.file = "torn"]]
    /\ Goto(h, "fill")
    /\ UNCHANGED <<script, dirs, units, running, listener, gateway, servers,
                   alias, override, env>>
    /\ Quiet

AfterFill(h) ==
    CASE round[h] = "reserve" -> "unit"
      [] round[h] = "record" -> IF Asked(h, "codex") THEN "codex" ELSE "env"
      [] round[h] = "refresh" -> "rewrite"

(* write_manifest, the text.  A file removed since stays away; over a text *)
(* that another command wrote since, what results may not parse.           *)
Fill(h) ==
    LET p == Project(h)
        mine == [file |-> "whole", port |-> port[h], rows |-> kept[h]]
    IN  /\ At(h, {"fill"})
        /\ \/ /\ manifest[p].file = "absent"
              /\ UNCHANGED manifest
           \/ /\ manifest[p].file # "absent"
              /\ manifest' = [manifest EXCEPT ![p] = mine]
           \/ /\ manifest[p].file = "whole"
              /\ manifest' = [manifest EXCEPT ![p] = [NoManifest EXCEPT !.file = "torn"]]
        /\ Goto(h, AfterFill(h))
        /\ UNCHANGED <<script, dirs, units, running, listener, gateway, servers,
                       alias, override, env>>
        /\ Quiet

Onward(h) == IF Asked(h, "systemd") THEN "start" ELSE "scaffold"

(* The unit file; then the lock is let go.                                 *)
WriteUnit(h) ==
    /\ At(h, {"unit"})
    /\ units' = IF Asked(h, "systemd") THEN units \cup {Project(h)} ELSE units
    /\ lock' = Nobody
    /\ Goto(h, IF Asked(h, "language") THEN "override" ELSE Onward(h))
    /\ UNCHANGED <<manifest, script, dirs, running, listener, gateway, servers,
                   alias, override, env, own>>

-------------------------------------------------------------------------------
(* create, after the lock.                                                 *)

WriteOverride(h) ==
    /\ At(h, {"override"})
    /\ override' = override \cup {Project(h)}
    /\ Goto(h, Onward(h))
    /\ UNCHANGED <<manifest, script, dirs, units, running, listener, gateway,
                   servers, alias, env>>
    /\ Quiet

AfterStart == [start |-> "await", restart |-> "reawait", bounce |-> "check"]

(* systemctl restart, which needs the unit file; the old process is gone.  *)
(* verify restarts the unit if it has changed the language.                *)
Start(h) ==
    /\ At(h, DOMAIN AfterStart) /\ Project(h) \in units
    /\ running' = running \cup {Project(h)}
    /\ listener' = Freed(Project(h))
    /\ Goto(h, AfterStart[pc[h]])
    /\ UNCHANGED <<manifest, script, dirs, units, gateway, servers, alias,
                   override, env>>
    /\ Quiet

(* The unit is active and wait_for_port finds somebody on the port.  With a *)
(* language the unit is restarted once.                                    *)
Await(h) ==
    /\ At(h, {"await", "reawait"})
    /\ Project(h) \in running /\ Open(port[h])
    /\ Goto(h, IF pc[h] = "await" /\ Asked(h, "language") THEN "restart" ELSE "gateway")
    /\ UNCHANGED world
    /\ Quiet

(* Variant: a record that is there is taken to be right.                   *)
PutGatewayOnce(h) ==
    /\ At(h, {"gateway"})
    /\ gateway' = IF gateway[Project(h)] = NoPort
                  THEN [gateway EXCEPT ![Project(h)] = port[h]] ELSE gateway
    /\ Goto(h, "tools")
    /\ UNCHANGED <<manifest, script, dirs, units, running, listener, servers,
                   alias, override, env>>
    /\ Quiet

(* The gateway record is created or brought up to date.                    *)
PutGateway(h) ==
    /\ At(h, {"gateway"})
    /\ gateway' = [gateway EXCEPT ![Project(h)] = port[h]]
    /\ Goto(h, "tools")
    /\ UNCHANGED <<manifest, script, dirs, units, running, listener, servers,
                   alias, override, env>>
    /\ Quiet

(* The gateway asks the backend for its tools: some Serena must answer, and *)
(* activate_project must be among them, to be left out.                    *)
Answers(n) == \E p \in Projects : n \in Ports /\ listener[n] = p

Discover(h) ==
    /\ At(h, {"tools"}) /\ Answers(gateway[Project(h)])
    /\ Goto(h, "server")
    /\ UNCHANGED world
    /\ Quiet

PutServer(h) ==
    /\ At(h, {"server"}) /\ gateway[Project(h)] # NoPort
    /\ servers' = servers \cup {Project(h)}
    /\ Goto(h, "scaffold")
    /\ UNCHANGED <<manifest, script, dirs, units, running, listener, gateway,
                   alias, override, env>>
    /\ Quiet

(* ensure_lsp_scaffold makes the directory again if need be.               *)
Scaffold(h) ==
    /\ At(h, {"scaffold"})
    /\ dirs' = dirs \cup {Project(h)}
    /\ round' = [round EXCEPT ![h] = IF job[h].command.op = "create"
                                     THEN "record" ELSE "refresh"]
    /\ Goto(h, "merge")
    /\ UNCHANGED <<manifest, script, units, running, listener, gateway, servers,
                   alias, override, env, lock, job, port, kept>>

(* merge_codex_config: an entry of the user's is replaced only on demand.  *)
MergeCodex(h) ==
    /\ At(h, {"codex"})
    /\ alias[Project(h)] # "foreign" \/ Asked(h, "replace")
    /\ alias' = [alias EXCEPT ![Project(h)] = "owned"]
    /\ Goto(h, "env")
    /\ UNCHANGED <<manifest, script, dirs, units, running, listener, gateway,
                   servers, override, env>>
    /\ Quiet

WriteEnv(h) ==
    /\ At(h, {"env"})
    /\ env' = [env EXCEPT ![Project(h)] = "created"]
    /\ \/ /\ Asked(h, "verify")
          /\ Goto(h, "look")
          /\ UNCHANGED <<lock, own>>
       \/ /\ ~ Asked(h, "verify")
          /\ Ends(h)
    /\ UNCHANGED <<manifest, script, dirs, units, running, listener, gateway,
                   servers, alias, override>>

-------------------------------------------------------------------------------
(* refresh-lsp-scaffold, verify and remove.                                *)

(* refresh needs a manifest.                                               *)
ReadManifest(h) ==
    /\ At(h, {"read"}) /\ manifest[Project(h)].file = "whole"
    /\ port' = [port EXCEPT ![h] = manifest[Project(h)].port]
    /\ Goto(h, "scaffold")
    /\ UNCHANGED <<world, lock, job, round, kept>>

(* It rewrites run-server.sh if there is one.                              *)
RewriteScript(h) ==
    LET p == Project(h)
    IN  /\ At(h, {"rewrite"})
        /\ script' = IF script[p] = NoPort THEN script
                     ELSE [script EXCEPT ![p] = port[h]]
        /\ Ends(h)
        /\ UNCHANGED <<manifest, dirs, units, running, listener, gateway,
                       servers, alias, override, env>>

(* verify starts from the manifest and may change the language.            *)
Look(h) ==
    LET p == Project(h)
        changes == Asked(h, "language") /\ p \notin override
    IN  /\ At(h, {"look"}) /\ manifest[p].file = "whole"
        /\ port' = [port EXCEPT ![h] = manifest[p].port]
        /\ override' = IF changes THEN override \cup {p} ELSE override
        /\ Goto(h, IF changes THEN "bounce" ELSE "check")
        /\ UNCHANGED <<manifest, script, dirs, units, running, listener,
                       gateway, servers, alias, env, lock, job, round, kept>>

LookInVain(h) ==
    /\ At(h, {"look"}) /\ manifest[Project(h)].file # "whole"
    /\ Ends(h)
    /\ UNCHANGED world

(* Every check of build_verify_result, which only reads, and prints.       *)
Check(h) ==
    /\ At(h, {"check"})
    /\ Ends(h)
    /\ UNCHANGED world

DeleteServer(h) ==
    /\ At(h, {"unserver"})
    /\ servers' = servers \ {Project(h)}
    /\ Goto(h, "ungateway")
    /\ UNCHANGED <<manifest, script, dirs, units, running, listener, gateway,
                   alias, override, env>>
    /\ Quiet

DeleteGateway(h) ==
    /\ At(h, {"ungateway"})
    /\ gateway' = [gateway EXCEPT ![Project(h)] = NoPort]
    /\ Goto(h, "stop")
    /\ UNCHANGED <<manifest, script, dirs, units, running, listener, servers,
                   alias, override, env>>
    /\ Quiet

(* systemctl disable --now.                                                *)
StopUnit(h) ==
    /\ At(h, {"stop"})
    /\ running' = running \ {Project(h)}
    /\ listener' = Freed(Project(h))
    /\ Goto(h, "unlink")
    /\ UNCHANGED <<manifest, script, dirs, units, gateway, servers, alias,
                   override, env>>
    /\ Quiet

UnlinkUnit(h) ==
    /\ At(h, {"unlink"})
    /\ units' = units \ {Project(h)}
    /\ Goto(h, IF Asked(h, "directory") THEN "clear" ELSE "unset")
    /\ UNCHANGED <<manifest, script, dirs, running, listener, gateway, servers,
                   alias, override, env>>
    /\ Quiet

(* shutil.rmtree of the instance directory.                                *)
Clear(h) ==
    /\ At(h, {"clear"})
    /\ manifest' = [manifest EXCEPT ![Project(h)] = NoManifest]
    /\ script' = [script EXCEPT ![Project(h)] = NoPort]
    /\ dirs' = dirs \ {Project(h)}
    /\ Goto(h, "unset")
    /\ UNCHANGED <<units, running, listener, gateway, servers, alias, override, env>>
    /\ Quiet

WriteRemoved(h) ==
    /\ At(h, {"unset"})
    /\ env' = [env EXCEPT ![Project(h)] = "removed"]
    /\ Ends(h)
    /\ UNCHANGED <<manifest, script, dirs, units, running, listener, gateway,
                   servers, alias, override>>

-------------------------------------------------------------------------------
(* What ends a command early, and the world around the commands.           *)

(* What the command needs is not there: a free port, the directory, the    *)
(* unit, a backend that came up in time, its tools, its gateway record, a  *)
(* manifest, an alias that is not the user's.                              *)
Hopeless(h) ==
    LET p == Project(h)
    IN  \/ pc[h] = "reserve" /\ manifest[p].file # "whole" /\ Available = {}
        \/ pc[h] = "truncate" /\ p \notin dirs
        \/ pc[h] \in DOMAIN AfterStart /\ p \notin units
        \/ pc[h] \in {"await", "reawait"} /\ listener[port[h]] # p
        \/ pc[h] = "tools" /\ ~ Answers(gateway[p])
        \/ pc[h] = "server" /\ gateway[p] = NoPort
        \/ pc[h] = "read" /\ manifest[p].file # "whole"
        \/ pc[h] = "codex" /\ alias[p] = "foreign" /\ ~ Asked(h, "replace")

GiveUp(h) ==
    /\ At(h, Label) /\ Hopeless(h)
    /\ Ends(h)
    /\ UNCHANGED world

(* A file, unit or gateway request fails, or the process is killed.        *)
Break(h) ==
    /\ h \in Busy /\ Spend("mishap")
    /\ Ends(h)
    /\ UNCHANGED <<world, exposed, disturbed>>

(* run-server.sh: a started unit that is not listening tries its port, and *)
(* again after RestartSec.                                                 *)
Bind(p) ==
    /\ p \in running /\ script[p] # NoPort
    /\ \A n \in Ports : listener[n] # p
    /\ listener[script[p]] = Nobody
    /\ listener' = [listener EXCEPT ![script[p]] = p]
    /\ UNCHANGED <<manifest, script, dirs, units, running, gateway, servers,
                   alias, override, env, lock, pc, own, exposed,
                   disturbed, spent>>

(* A backend dies; its unit restarts it.                                   *)
Death(p) ==
    /\ \E n \in Ports : listener[n] = p
    /\ Spend("mishap")
    /\ listener' = Freed(p)
    /\ UNCHANGED <<manifest, script, dirs, units, running, gateway, servers,
                   alias, override, env, lock, pc, own, exposed,
                   disturbed>>

Intrude(n) ==
    /\ listener[n] = Nobody /\ Spend("mishap")
    /\ listener' = [listener EXCEPT ![n] = Stranger]
    /\ UNCHANGED <<manifest, script, dirs, units, running, gateway, servers,
                   alias, override, env, lock, pc, own, exposed,
                   disturbed>>

Step(h) ==
    \/ Lock(h) \/ Reserve(h) \/ WriteScript(h) \/ Merge(h) \/ Truncate(h)
    \/ Fill(h) \/ WriteUnit(h) \/ WriteOverride(h) \/ Start(h) \/ Await(h)
    \/ PutGateway(h) \/ Discover(h) \/ PutServer(h) \/ Scaffold(h)
    \/ MergeCodex(h) \/ WriteEnv(h)
    \/ ReadManifest(h) \/ RewriteScript(h)
    \/ Look(h) \/ LookInVain(h) \/ Check(h)
    \/ DeleteServer(h) \/ DeleteGateway(h) \/ StopUnit(h) \/ UnlinkUnit(h)
    \/ Clear(h) \/ WriteRemoved(h)
    \/ GiveUp(h)

Next ==
    \/ \E h \in Procs : Step(h) \/ Break(h) \/ \E j \in Job : Launch(h, j)
    \/ \E p \in Projects : Bind(p) \/ Death(p)
    \/ \E n \in Ports : Intrude(n)

Spec == Init /\ [][Next]_vars

-------------------------------------------------------------------------------
(* Properties.                                                             *)

(* Two projects never claim one port, however creates, removals, deaths    *)
(* and half-written manifests interleave, except a port that was given     *)
(* away while its project's manifest was unreadable and nobody listened    *)
(* there: the lock does not cover the second write_manifest of create, nor *)
(* refresh, nor remove.                                                    *)
OnePortOneProject ==
    \A p, q \in Projects :
        /\ p # q
        /\ manifest[p].file = "whole" /\ manifest[q].file = "whole"
        /\ manifest[p].port = manifest[q].port
        => manifest[p].port \in exposed

(* Nor does the backend of one project come to listen on the port another  *)
(* project's manifest claims, where clients of the other would reach it.   *)
BackendsKeepApart ==
    \A p, q \in Projects :
        /\ p # q
        /\ manifest[p].file = "whole" /\ listener[manifest[p].port] = q
        => manifest[p].port \in exposed

(* Whatever earlier commands left half done, a create that reports success *)
(* and met no other command on its project leaves all of it in place, and  *)
(* all of it on one port.                                                  *)
Whole(p, systemd) ==
    LET n == manifest[p].port
    IN  /\ manifest[p].file = "whole" /\ script[p] = n /\ env[p] = "created"
        /\ systemd => /\ manifest[p].rows = "registered"
                      /\ p \in units \cap running \cap servers
                      /\ gateway[p] = n

CreateIsWhole ==
    [][\A h \in Procs, p \in Projects, systemd \in BOOLEAN :
         /\ WriteEnv(h) /\ h \notin disturbed
         /\ p = Project(h) /\ systemd = Asked(h, "systemd")
         => Whole(p, systemd)']_vars

===============================================================================
