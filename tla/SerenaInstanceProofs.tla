------------------------- MODULE SerenaInstanceProofs -------------------------
(***************************************************************************)
(* Theorems about SerenaInstance, for any processes, projects, ports,      *)
(* commands and bounds.                                                    *)
(***************************************************************************)
EXTENDS SerenaInstance, TLAPS

-------------------------------------------------------------------------------
(* Types.                                                                  *)

(* What a job is made of.                                                  *)
LEMMA JobFacts ==
  /\ NoJob \in Job
  /\ \A j \in Job : /\ j.project \in Projects
                    /\ j.command.op \in {"create", "refresh", "verify", "remove"}
<1>1. \A p \in Projects : \A c \in Commands[p] :
        c.op \in {"create", "refresh", "verify", "remove"}
  BY CommandsAssumption DEF Offered
<1>2. \A j \in Job : \E p \in Projects :
        j.project = p /\ j.command \in Commands[p]
  BY DEF Job
<1>3. \E j : j \in Job
  <2>1. PICK p \in Projects : \E c : c \in Commands[p]
    BY CommandsAssumption
  <2>a. PICK c : c \in Commands[p]
    BY <2>1
  <2>2. [command |-> c, project |-> p] \in [command : Commands[p], project : {p}]
    BY <2>a
  <2>3. QED
    BY <2>2 DEF Job
<1>4. QED
  BY <1>1, <1>2, <1>3 DEF NoJob

(* The end of a command keeps the types of what it resets.                 *)
LEMMA EndTypes ==
  ASSUME TypeOK, NEW h \in Procs, Ends(h)
  PROVE  /\ pc' \in [Procs -> Label] /\ lock' \in Procs \cup {Nobody}
         /\ job' \in [Procs -> Job] /\ kept' \in [Procs -> Rows]
         /\ round' \in [Procs -> {"reserve", "record", "refresh"}]
         /\ port' \in [Procs -> Ports \cup {NoPort}]
         /\ \A g \in Procs : pc'[g] \notin Portless => port'[g] \in Ports
  BY JobFacts DEF TypeOK, Ends, Goto, Label, Portless, Locked, Writing, Rows

(* A command starts with well-typed local state.                           *)
LEMMA LaunchTypes ==
  ASSUME TypeOK, NEW h \in Procs, NEW j \in Job, Launch(h, j)
  PROVE  TypeOK'
<1>1. FirstLabel(j.command) \in Label \cap Portless
  BY JobFacts DEF FirstLabel, Label, Portless, Locked, Writing
<1>2. disturbed' \in SUBSET Procs
  BY DEF Launch, TypeOK, Busy
<1>3. QED
  BY <1>1, <1>2 DEF Launch, TypeOK, Goto, Spend, world, Event

(* The commands' steps keep the types: create, under the lock.             *)
LEMMA LockedTypes ==
  ASSUME TypeOK, NEW h \in Procs,
         Lock(h) \/ Reserve(h) \/ WriteScript(h) \/ Merge(h) \/ Truncate(h)
           \/ Fill(h) \/ WriteUnit(h)
  PROVE  TypeOK'
<1> USE JobFacts DEF Label, Portless, Locked, Writing, At, Goto
<1>0. Project(h) \in Projects
  BY DEF TypeOK, Project
<1>1. CASE Lock(h)
  BY <1>1 DEF Lock, TypeOK, world, own
<1>2. CASE Reserve(h)
  <2>1. PICK n \in Choices(Project(h)) :
          /\ port' = [port EXCEPT ![h] = n]
          /\ exposed' = IF HeldUnseen(Project(h), n) THEN exposed \cup {n} ELSE exposed
    BY <1>2 DEF Reserve
  <2>2. n \in Ports
    BY <1>0, <2>1 DEF Choices, Available, TypeOK, Manifest
  <2>3. QED
    BY <1>2, <2>1, <2>2 DEF Reserve, TypeOK, world
<1>3. CASE WriteScript(h)
  BY <1>0, <1>3 DEF WriteScript, TypeOK
<1>4. CASE Merge(h)
  <2>1. manifest[Project(h)].rows \in Rows
    BY <1>0 DEF TypeOK, Manifest
  <2>2. kept' \in [Procs -> Rows]
    BY <1>4, <2>1 DEF Merge, TypeOK, Rows
  <2>3. QED
    BY <1>4, <2>2 DEF Merge, TypeOK, world
<1>5. CASE Truncate(h)
  <2>1. [NoManifest EXCEPT !.file = "torn"] \in Manifest
    BY DEF NoManifest, Manifest, Rows
  <2>2. QED
    BY <1>0, <1>5, <2>1 DEF Truncate, TypeOK, Quiet, own
<1>6. CASE Fill(h)
  <2>1. [NoManifest EXCEPT !.file = "torn"] \in Manifest
    BY DEF NoManifest, Manifest, Rows
  <2>2. [file |-> "whole", port |-> port[h], rows |-> kept[h]] \in Manifest
    BY <1>6 DEF Fill, Manifest, TypeOK
  <2>3. AfterFill(h) \in Label
    BY DEF AfterFill, TypeOK
  <2>4. manifest' \in [Projects -> Manifest]
    BY <1>0, <1>6, <2>1, <2>2 DEF Fill, TypeOK
  <2>5. QED
    BY <1>6, <2>3, <2>4 DEF Fill, TypeOK, Quiet, own
<1>7. CASE WriteUnit(h)
  <2>1. units' \in SUBSET Projects
    BY <1>0, <1>7 DEF WriteUnit, TypeOK
  <2>2. QED
    BY <1>7, <2>1 DEF WriteUnit, TypeOK, Onward, own
<1>8. QED
  BY <1>1, <1>2, <1>3, <1>4, <1>5, <1>6, <1>7

(* The commands' steps keep the types: create, after the lock.             *)
LEMMA UnlockedTypes ==
  ASSUME TypeOK, NEW h \in Procs,
         WriteOverride(h) \/ Start(h) \/ Await(h) \/ PutGateway(h)
           \/ Discover(h) \/ PutServer(h) \/ Scaffold(h) \/ MergeCodex(h)
           \/ WriteEnv(h)
  PROVE  TypeOK'
<1> USE JobFacts DEF Label, Portless, Locked, Writing, At, Goto
<1>0. Project(h) \in Projects
  BY DEF TypeOK, Project
<1>1. CASE WriteOverride(h)
  BY <1>0, <1>1 DEF WriteOverride, Onward, TypeOK, Quiet, own
<1>2. CASE Start(h)
  <2>1. AfterStart[pc[h]] \in Label
    BY <1>2 DEF Start, AfterStart
  <2>2. listener' \in [Ports -> Projects \cup {Nobody, Stranger}]
    BY <1>2 DEF Start, Freed, TypeOK
  <2>3. port[h] \in Ports
    BY <1>2 DEF Start, AfterStart, TypeOK
  <2>4. \A g \in Procs : pc'[g] \notin Portless => port'[g] \in Ports
    BY <1>2, <2>3 DEF Start, Quiet, own, TypeOK
  <2>5. QED
    BY <1>0, <1>2, <2>1, <2>2, <2>4 DEF Start, TypeOK, Quiet, own
<1>3. CASE Await(h)
  BY <1>3 DEF Await, TypeOK, Quiet, own, world
<1>4. CASE PutGateway(h)
  BY <1>0, <1>4 DEF PutGateway, TypeOK, Quiet, own
<1>5. CASE Discover(h)
  BY <1>5 DEF Discover, TypeOK, Quiet, own, world
<1>6. CASE PutServer(h)
  BY <1>0, <1>6 DEF PutServer, TypeOK, Quiet, own
<1>7. CASE Scaffold(h)
  BY <1>0, <1>7 DEF Scaffold, TypeOK
<1>8. CASE MergeCodex(h)
  BY <1>0, <1>8 DEF MergeCodex, TypeOK, Quiet, own
<1>9. CASE WriteEnv(h)
  <2>1. env' \in [Projects -> {"none", "created", "removed"}]
    BY <1>0, <1>9 DEF WriteEnv, TypeOK
  <2>2. CASE Ends(h)
    BY <1>9, <2>1, <2>2, EndTypes DEF WriteEnv, TypeOK
  <2>3. CASE pc' = [pc EXCEPT ![h] = "look"] /\ UNCHANGED <<lock, own>>
    BY <1>9, <2>1, <2>3 DEF WriteEnv, TypeOK, own
  <2>4. QED
    BY <1>9, <2>2, <2>3 DEF WriteEnv
<1>10. QED
  BY <1>1, <1>2, <1>3, <1>4, <1>5, <1>6, <1>7, <1>8, <1>9

(* The commands' steps keep the types: refresh, verify and remove.         *)
LEMMA OtherTypes ==
  ASSUME TypeOK, NEW h \in Procs,
         ReadManifest(h) \/ RewriteScript(h) \/ Look(h) \/ LookInVain(h)
           \/ Check(h) \/ DeleteServer(h) \/ DeleteGateway(h) \/ StopUnit(h)
           \/ UnlinkUnit(h) \/ Clear(h) \/ WriteRemoved(h) \/ GiveUp(h)
  PROVE  TypeOK'
<1> USE JobFacts DEF Label, Portless, Locked, Writing, At
<1>0. Project(h) \in Projects
  BY DEF TypeOK, Project
<1>a. manifest[Project(h)].file = "whole" => manifest[Project(h)].port \in Ports
  BY <1>0 DEF TypeOK, Manifest
<1>1. CASE ReadManifest(h)
  BY <1>a, <1>1 DEF ReadManifest, TypeOK, Goto, world
<1>2. CASE RewriteScript(h)
  <2>1. script' \in [Projects -> Ports \cup {NoPort}]
    BY <1>0, <1>2 DEF RewriteScript, TypeOK
  <2>2. QED
    BY <1>2, <2>1, EndTypes DEF RewriteScript, TypeOK
<1>3. CASE Look(h)
  <2>1. override' \in SUBSET Projects
    BY <1>0, <1>3 DEF Look, TypeOK
  <2>2. QED
    BY <1>a, <1>3, <2>1 DEF Look, TypeOK, Goto
<1>4. CASE LookInVain(h)
  BY <1>4, EndTypes DEF LookInVain, TypeOK, world
<1>5. CASE Check(h)
  BY <1>5, EndTypes DEF Check, TypeOK, world
<1>6. CASE DeleteServer(h)
  BY <1>6 DEF DeleteServer, TypeOK, Goto, Quiet, own
<1>7. CASE DeleteGateway(h)
  BY <1>7 DEF DeleteGateway, TypeOK, Goto, Quiet, own
<1>8. CASE StopUnit(h)
  <2>1. listener' \in [Ports -> Projects \cup {Nobody, Stranger}]
    BY <1>8 DEF StopUnit, Freed, TypeOK
  <2>2. QED
    BY <1>8, <2>1 DEF StopUnit, TypeOK, Goto, Quiet, own
<1>9. CASE UnlinkUnit(h)
  BY <1>9 DEF UnlinkUnit, TypeOK, Goto, Quiet, own
<1>10. CASE Clear(h)
  <2>1. NoManifest \in Manifest
    BY DEF NoManifest, Manifest, Rows
  <2>2. QED
    BY <1>10, <2>1 DEF Clear, TypeOK, Goto, Quiet, own
<1>11. CASE WriteRemoved(h)
  BY <1>11, EndTypes DEF WriteRemoved, TypeOK
<1>12. CASE GiveUp(h)
  BY <1>12, EndTypes DEF GiveUp, TypeOK, world
<1>13. QED
  BY <1>1, <1>2, <1>3, <1>4, <1>5, <1>6, <1>7, <1>8, <1>9, <1>10, <1>11, <1>12

(* What happens around the commands keeps the types.                       *)
LEMMA AroundTypes ==
  /\ TypeOK /\ (\E h \in Procs : Break(h)) => TypeOK'
  /\ TypeOK /\ (\E p \in Projects : Bind(p) \/ Death(p)) => TypeOK'
  /\ TypeOK /\ (\E n \in Ports : Intrude(n)) => TypeOK'
<1>1. ASSUME TypeOK, NEW h \in Procs, Break(h) PROVE TypeOK'
  BY <1>1, EndTypes DEF Break, TypeOK, Spend, Event, world
<1>2. ASSUME TypeOK, NEW p \in Projects, Bind(p) PROVE TypeOK'
  BY <1>2 DEF Bind, TypeOK, own
<1>3. ASSUME TypeOK, NEW p \in Projects, Death(p) PROVE TypeOK'
  BY <1>3 DEF Death, Freed, TypeOK, Spend, Event, own
<1>4. ASSUME TypeOK, NEW n \in Ports, Intrude(n) PROVE TypeOK'
  BY <1>4 DEF Intrude, TypeOK, Spend, Event, own
<1>5. QED
  BY <1>1, <1>2, <1>3, <1>4

(* Every variable keeps its type, whatever commands overlap.               *)
THEOREM TypeCorrect == Spec => []TypeOK
<1>1. Init => TypeOK
  BY JobFacts DEF Init, TypeOK, Manifest, NoManifest, Rows, Label, Portless, Event
<1>2. TypeOK /\ [Next]_vars => TypeOK'
  <2>1. ASSUME TypeOK, NEW h \in Procs, Step(h) PROVE TypeOK'
    BY <2>1, LockedTypes, UnlockedTypes, OtherTypes DEF Step
  <2>2. ASSUME TypeOK, UNCHANGED vars PROVE TypeOK'
    BY <2>2 DEF TypeOK, vars, world, own
  <2>3. QED
    BY <2>1, <2>2, LaunchTypes, AroundTypes DEF Next
<1>3. QED
  BY <1>1, <1>2, PTL DEF Spec
-------------------------------------------------------------------------------
(* Ports.                                                                  *)

(* h is where create holds the lock.                                       *)
Inside(h) == pc[h] \in Locked \/ (pc[h] \in Writing /\ round[h] = "reserve")

(* Who is inside holds the lock, and who is idle carries no port.          *)
LockInv == /\ \A h \in Procs : Inside(h) => lock = h
           /\ \A h \in Procs : pc[h] = "idle" => port[h] = NoPort

(* n is the port of p in some file, process or socket.                     *)
Has(p, n) ==
    \/ manifest[p].file = "whole" /\ manifest[p].port = n
    \/ script[p] = n
    \/ listener[n] = p
    \/ \E h \in Busy : Project(h) = p /\ port[h] = n

(* No port is of two projects, but for the exposed ones.  The manifests    *)
(* alone would not do: the unit starts where its script says, and a script *)
(* gets its port from a process that has let go of the lock.               *)
ApartInv ==
    \A p, q \in Projects, n \in Ports :
        p # q /\ Has(p, n) /\ Has(q, n) => n \in exposed

(* The end of a command cannot break the lock.                             *)
LEMMA EndLock ==
  ASSUME TypeOK, LockInv, NEW h \in Procs, Ends(h)
  PROVE  LockInv'
<1>1. \A g \in Procs : Inside(g)' => g # h /\ Inside(g)
  BY DEF TypeOK, Ends, Goto, Inside, Locked, Writing
<1>2. \A g \in Procs : pc'[g] = "idle" => port'[g] = NoPort
  BY DEF TypeOK, LockInv, Ends, Goto
<1>3. QED
  BY <1>1, <1>2 DEF LockInv, Ends

(* A step that leaves the lock alone cannot break it unless it enters.     *)
LEMMA MoveLock ==
  ASSUME TypeOK, LockInv, NEW h \in Procs, NEW label, pc[h] # "idle",
         label # "idle", pc' = [pc EXCEPT ![h] = label], lock' = lock,
         \A g \in Procs : g # h => round'[g] = round[g] /\ port'[g] = port[g],
         label \in Locked \cup Writing => (round'[h] # "reserve" /\ label \in Writing) \/ lock = h
  PROVE  LockInv'
  BY DEF TypeOK, LockInv, Inside, Locked, Writing

(* The lock excludes.                                                      *)
LEMMA LockStep ==
  ASSUME TypeOK, LockInv, NEW h \in Procs, Step(h)
  PROVE  LockInv'
<1> USE DEF At, Goto, Locked, Writing
<1>1. CASE Lock(h)
  <2>1. \A g \in Procs : Inside(g)' => g = h
    BY <1>1, NamesAssumption DEF Lock, LockInv, Inside, TypeOK, own
  <2>2. \A g \in Procs : pc'[g] = "idle" => port'[g] = NoPort
    BY <1>1 DEF Lock, LockInv, TypeOK, own
  <2>3. QED
    BY <1>1, <2>1, <2>2 DEF LockInv, Lock
<1>2. CASE Reserve(h)
  BY <1>2, MoveLock DEF Reserve, LockInv, Inside, TypeOK
<1>3. CASE WriteScript(h)
  BY <1>3, MoveLock DEF WriteScript, LockInv, Inside, TypeOK
<1>4. CASE Merge(h) \/ Truncate(h)
  BY <1>4, MoveLock DEF Merge, Truncate, LockInv, Inside, TypeOK, Quiet, own
<1>5. CASE Fill(h)
  <2>1. round[h] = "reserve" => lock = h /\ AfterFill(h) = "unit"
    BY <1>5 DEF Fill, LockInv, Inside, AfterFill
  <2>2. round[h] # "reserve" => AfterFill(h) \in {"codex", "env", "rewrite"}
    BY DEF AfterFill, TypeOK
  <2>3. QED
    BY <1>5, <2>1, <2>2, MoveLock DEF Fill, TypeOK, Quiet, own
<1>6. CASE WriteUnit(h)
  <2>1. lock = h /\ lock' = Nobody /\ UNCHANGED own
    BY <1>6 DEF WriteUnit, LockInv, Inside
  <2>2. pc' \in [Procs -> Label] /\ pc'[h] \in {"override", "start", "scaffold"}
    BY <1>6 DEF WriteUnit, Onward, TypeOK, Label
  <2>3. \A g \in Procs : g # h => pc'[g] = pc[g]
    BY <1>6 DEF WriteUnit, TypeOK
  <2>4. \A g \in Procs : ~ Inside(g)'
    BY <2>1, <2>2, <2>3 DEF Inside, LockInv, own
  <2>5. QED
    BY <2>1, <2>2, <2>3, <2>4 DEF LockInv, own
<1>7. CASE \/ WriteOverride(h) \/ Await(h) \/ PutGateway(h) \/ Discover(h)
           \/ PutServer(h) \/ MergeCodex(h) \/ ReadManifest(h) \/ Look(h)
           \/ DeleteServer(h) \/ DeleteGateway(h) \/ StopUnit(h)
           \/ UnlinkUnit(h) \/ Clear(h)
  BY <1>7, MoveLock DEF WriteOverride, Onward, Await, PutGateway, Discover, PutServer,
     MergeCodex, ReadManifest, Look, DeleteServer, DeleteGateway, StopUnit,
     UnlinkUnit, Clear, TypeOK, Quiet, own
<1>8. CASE Start(h)
  <2>1. AfterStart[pc[h]] \in {"await", "reawait", "check"}
    BY <1>8 DEF Start, AfterStart
  <2>2. QED
    BY <1>8, <2>1, MoveLock DEF Start, AfterStart, TypeOK, Quiet, own
<1>9. CASE Scaffold(h)
  <2>1. round'[h] # "reserve"
    BY <1>9 DEF Scaffold, TypeOK
  <2>2. QED
    BY <1>9, <2>1, MoveLock DEF Scaffold, TypeOK
<1>10. CASE Ends(h)
  BY <1>10, EndLock
<1>11. CASE WriteEnv(h)
  BY <1>11, <1>10, MoveLock DEF WriteEnv, TypeOK, own
<1>12. CASE RewriteScript(h) \/ LookInVain(h) \/ Check(h) \/ WriteRemoved(h) \/ GiveUp(h)
  BY <1>12, <1>10 DEF RewriteScript, LookInVain, Check, WriteRemoved, GiveUp
<1>13. QED
  BY <1>1, <1>2, <1>3, <1>4, <1>5, <1>6, <1>7, <1>8, <1>9, <1>11, <1>12 DEF Step

LEMMA LockInvariant == TypeOK /\ LockInv /\ [Next]_vars => LockInv'
<1>1. ASSUME TypeOK, LockInv, NEW h \in Procs, NEW j \in Job, Launch(h, j)
      PROVE  LockInv'
  <2>1. FirstLabel(j.command) \notin Locked \cup Writing \cup {"idle"}
    BY JobFacts DEF FirstLabel, Locked, Writing
  <2>2. QED
    BY <1>1, <2>1 DEF Launch, Goto, LockInv, Inside, TypeOK
<1>2. ASSUME TypeOK, LockInv, NEW h \in Procs, Break(h) PROVE LockInv'
  BY <1>2, EndLock DEF Break
<1>3. ASSUME LockInv, UNCHANGED <<lock, pc, own>> PROVE LockInv'
  BY <1>3 DEF LockInv, Inside, own
<1>4. QED
  BY <1>1, <1>2, <1>3, LockStep DEF Next, Bind, Death, Intrude, vars

(* The end of a command gives up what its process had.                     *)
LEMMA EndHas ==
  ASSUME TypeOK, NEW h \in Procs, Ends(h),
         UNCHANGED <<manifest, script, listener>>,
         NEW q \in Projects, NEW n \in Ports, Has(q, n)'
  PROVE  Has(q, n)
<1>1. \A g \in Busy' : g # h /\ g \in Busy /\ job'[g] = job[g] /\ port'[g] = port[g]
  BY DEF TypeOK, Ends, Goto, Busy
<1>2. QED
  BY <1>1 DEF Has, Project

(* A step that takes its port from a manifest it can read, and changes no  *)
(* file and no socket, gives nobody a port.                                *)
LEMMA CarryHas ==
  ASSUME TypeOK, NEW h \in Procs, pc[h] # "idle",
         UNCHANGED <<manifest, script, listener, job>>,
         \A g \in Procs : g # h => pc'[g] = pc[g] /\ port'[g] = port[g],
         port'[h] = port[h]
           \/ (manifest[Project(h)].file = "whole" /\ port'[h] = manifest[Project(h)].port),
         NEW q \in Projects, NEW n \in Ports, Has(q, n)'
  PROVE  Has(q, n)
<1>1. \A g \in Busy' : g \in Busy
  BY DEF Busy
<1>2. ASSUME NEW g \in Busy', Project(g)' = q, port'[g] = n PROVE Has(q, n)
  BY <1>1, <1>2 DEF Has, Project, Busy
<1>3. QED
  BY <1>2 DEF Has, Project

(* A step that writes only files, sockets and labels gives a port to a     *)
(* project only if its process had it already.                             *)
LEMMA WriteHas ==
  ASSUME TypeOK, NEW h \in Procs, pc[h] # "idle", UNCHANGED <<job, port>>,
         \A g \in Procs : g # h => pc'[g] = pc[g],
         \A p \in Projects : manifest'[p] = manifest[p] \/ manifest'[p].file # "whole"
            \/ (p = Project(h) /\ manifest'[p].port = port[h]),
         \A p \in Projects : script'[p] = script[p] \/ script'[p] \notin Ports
            \/ (p = Project(h) /\ script'[p] = port[h]),
         \A k \in Ports : listener'[k] = listener[k] \/ listener'[k] = Nobody,
         NEW q \in Projects, NEW n \in Ports, Has(q, n)'
  PROVE  Has(q, n)
<1>1. \A g \in Busy' : g \in Busy
  BY DEF Busy
<1>2. h \in Busy
  BY DEF Busy
<1>3. q # Nobody
  BY NamesAssumption
<1>4. QED
  BY <1>1, <1>2, <1>3 DEF Has, Project

(* Only Reserve gives a project a port it did not have.                    *)
LEMMA StepHas ==
  ASSUME TypeOK, NEW h \in Procs, Step(h), ~ Reserve(h),
         NEW q \in Projects, NEW n \in Ports, Has(q, n)'
  PROVE  Has(q, n)
<1> USE DEF At, Goto
<1>1. CASE \/ Lock(h) \/ Merge(h) \/ WriteUnit(h) \/ WriteOverride(h) \/ Await(h)
           \/ PutGateway(h) \/ Discover(h) \/ PutServer(h) \/ Scaffold(h)
           \/ MergeCodex(h) \/ DeleteServer(h) \/ DeleteGateway(h) \/ UnlinkUnit(h)
  <2>1. pc[h] # "idle"
    BY <1>1 DEF Lock, Merge, WriteUnit, WriteOverride, Await, PutGateway, Discover, PutServer,
       Scaffold, MergeCodex, DeleteServer, DeleteGateway, UnlinkUnit
  <2>2. UNCHANGED <<manifest, script, listener, job, port>>
    BY <1>1 DEF Lock, Merge, WriteUnit, WriteOverride, Await, PutGateway, Discover, PutServer,
       Scaffold, MergeCodex, DeleteServer, DeleteGateway, UnlinkUnit, Quiet, own, world
  <2>3. \A g \in Procs : g # h => pc'[g] = pc[g]
    BY <1>1 DEF TypeOK, Lock, Merge, WriteUnit, WriteOverride, Await, PutGateway, Discover,
       PutServer, Scaffold, MergeCodex, DeleteServer, DeleteGateway, UnlinkUnit
  <2>4. QED
    BY <2>1, <2>2, <2>3, CarryHas
<1>2. CASE ReadManifest(h) \/ Look(h)
  <2>1. /\ pc[h] # "idle" /\ manifest[Project(h)].file = "whole"
        /\ UNCHANGED <<manifest, script, listener, job>>
        /\ port' = [port EXCEPT ![h] = manifest[Project(h)].port]
    BY <1>2 DEF ReadManifest, Look, world
  <2>2. \A g \in Procs : g # h => pc'[g] = pc[g]
    BY <1>2 DEF TypeOK, ReadManifest, Look
  <2>3. QED
    BY <2>1, <2>2, CarryHas DEF TypeOK
<1>3. CASE WriteScript(h) \/ Truncate(h) \/ Fill(h) \/ Start(h) \/ StopUnit(h) \/ Clear(h)
  <2>0. Project(h) \in Projects /\ NoPort \notin Ports
    BY PortsAssumption DEF TypeOK, Project, NoPort, Ports, Job
  <2>1. pc[h] # "idle" /\ UNCHANGED <<job, port>>
    BY <1>3 DEF WriteScript, Truncate, Fill, Start, AfterStart, StopUnit, Clear, Quiet, own
  <2>2. \A g \in Procs : g # h => pc'[g] = pc[g]
    BY <1>3 DEF TypeOK, WriteScript, Truncate, Fill, Start, StopUnit, Clear
  <2>3. \A p \in Projects : manifest'[p] = manifest[p] \/ manifest'[p].file # "whole"
            \/ (p = Project(h) /\ manifest'[p].port = port[h])
    BY <1>3, <2>0 DEF TypeOK, WriteScript, Truncate, Fill, Start, StopUnit, Clear, NoManifest
  <2>4. \A p \in Projects : script'[p] = script[p] \/ script'[p] \notin Ports
            \/ (p = Project(h) /\ script'[p] = port[h])
    BY <1>3, <2>0 DEF TypeOK, WriteScript, Truncate, Fill, Start, StopUnit, Clear
  <2>5. \A k \in Ports : listener'[k] = listener[k] \/ listener'[k] = Nobody
    BY <1>3 DEF TypeOK, WriteScript, Truncate, Fill, Start, StopUnit, Clear, Freed
  <2>6. QED
    BY <2>1, <2>2, <2>3, <2>4, <2>5, WriteHas
<1>4. CASE WriteEnv(h) \/ LookInVain(h) \/ Check(h) \/ WriteRemoved(h) \/ GiveUp(h)
  <2>1. UNCHANGED <<manifest, script, listener>>
    BY <1>4 DEF WriteEnv, LookInVain, Check, WriteRemoved, GiveUp, world
  <2>2. CASE Ends(h)
    BY <2>1, <2>2, EndHas
  <2>3. CASE ~ Ends(h)
    <3>1. pc[h] = "env" /\ pc' = [pc EXCEPT ![h] = "look"] /\ UNCHANGED own
      BY <1>4, <2>3 DEF WriteEnv, LookInVain, Check, WriteRemoved, GiveUp
    <3>2. QED
      BY <2>1, <3>1, CarryHas DEF TypeOK, own
  <2>4. QED
    BY <2>2, <2>3
<1>5. CASE RewriteScript(h)
  <2>1. /\ pc[h] # "idle" /\ Ends(h) /\ UNCHANGED <<manifest, listener>>
        /\ script' = script \/ script' = [script EXCEPT ![Project(h)] = port[h]]
    BY <1>5 DEF RewriteScript
  <2>2. \A g \in Busy' : g # h /\ g \in Busy /\ job'[g] = job[g] /\ port'[g] = port[g]
    BY <2>1 DEF TypeOK, Ends, Busy
  <2>3. h \in Busy
    BY <2>1 DEF Busy
  <2>4. script'[q] = n => Has(q, n)
    BY <2>1, <2>3 DEF Has, TypeOK
  <2>5. QED
    BY <2>1, <2>2, <2>4 DEF Has, Project
<1>6. QED
  BY <1>1, <1>2, <1>3, <1>4, <1>5 DEF Step

(* Reserve gives away a port that somebody else has only if it says so.    *)
LEMMA ReserveApart ==
  ASSUME TypeOK, LockInv, ApartInv, NEW h \in Procs, Reserve(h)
  PROVE  ApartInv'
<1>1. Project(h) \in Projects /\ lock = h /\ h \in Busy
  BY DEF TypeOK, Project, Job, Reserve, LockInv, Inside, Locked, Busy
<1>2. PICK n \in Choices(Project(h)) :
        /\ port' = [port EXCEPT ![h] = n]
        /\ exposed' = IF HeldUnseen(Project(h), n) THEN exposed \cup {n} ELSE exposed
  BY DEF Reserve
<1>3. UNCHANGED <<manifest, script, listener, job>> /\ Busy' = Busy
  BY DEF Reserve, world, Goto, Busy, TypeOK
<1>4. ASSUME NEW q \in Projects, NEW k \in Ports, Has(q, k)', ~ Has(q, k)
      PROVE  q = Project(h) /\ k = n
  <2>1. PICK g \in Busy : Project(g) = q /\ port'[g] = k
    BY <1>3, <1>4 DEF Has, Project
  <2>2. g = h
    BY <1>2, <1>4, <2>1 DEF Has, TypeOK, Busy
  <2>3. QED
    BY <1>2, <2>1, <2>2 DEF TypeOK
<1>5. ASSUME NEW q \in Projects, q # Project(h), n \in Ports, Has(q, n),
             ~ Has(Project(h), n)
      PROVE  n \in exposed'
  <2>1. n \in Available
    BY <1>5, <1>2 DEF Choices, Has
  <2>2. listener[n] # q /\ (manifest[q].file # "whole" \/ manifest[q].port # n)
    BY <1>5, <2>1, NamesAssumption DEF Available, Claimed, Open
  <2>3. HeldUnseen(Project(h), n)
    BY <1>1, <1>5, <2>2 DEF HeldUnseen, Has
  <2>4. QED
    BY <1>2, <2>3
<1>6. ASSUME NEW p \in Projects, NEW q \in Projects, NEW k \in Ports, p # q,
             Has(p, k)', Has(q, k)'
      PROVE  k \in exposed'
  <2>1. exposed \subseteq exposed'
    BY <1>2
  <2>2. CASE Has(p, k) /\ Has(q, k)
    BY <1>6, <2>1, <2>2 DEF ApartInv
  <2>3. CASE ~ Has(p, k)
    <3>1. p = Project(h) /\ k = n /\ Has(q, k)
      BY <1>4, <1>6, <2>3
    <3>2. QED
      BY <1>5, <1>6, <2>3, <3>1
  <2>4. CASE ~ Has(q, k)
    <3>1. q = Project(h) /\ k = n /\ Has(p, k)
      BY <1>4, <1>6, <2>4
    <3>2. QED
      BY <1>5, <1>6, <2>4, <3>1
  <2>5. QED
    BY <2>2, <2>3, <2>4
<1>7. QED
  BY <1>6 DEF ApartInv

(* What happens around the commands gives no port away either.             *)
LEMMA AroundHas ==
  ASSUME TypeOK, LockInv, NEW q \in Projects, NEW n \in Ports, Has(q, n)',
         \/ \E h \in Procs : Break(h) \/ \E j \in Job : Launch(h, j)
         \/ \E p \in Projects : Bind(p) \/ Death(p)
         \/ \E k \in Ports : Intrude(k)
  PROVE  Has(q, n)
<1>1. CASE \E h \in Procs : Break(h)
  BY <1>1, EndHas DEF Break, world
<1>2. ASSUME NEW h \in Procs, NEW j \in Job, Launch(h, j) PROVE Has(q, n)
  <2>1. port'[h] = NoPort /\ UNCHANGED <<manifest, script, listener, port>>
    BY <1>2 DEF Launch, LockInv, world
  <2>2. NoPort \notin Ports
    BY PortsAssumption DEF NoPort, Ports
  <2>3. \A g \in Busy' : g # h => g \in Busy /\ job'[g] = job[g]
    BY <1>2 DEF Launch, Goto, Busy, TypeOK
  <2>4. QED
    BY <2>1, <2>2, <2>3 DEF Has, Project
<1>3. ASSUME NEW p \in Projects, Bind(p) PROVE Has(q, n)
  BY <1>3 DEF Bind, Has, Busy, Project, TypeOK, own
<1>4. ASSUME NEW p \in Projects, Death(p) PROVE Has(q, n)
  BY <1>4, NamesAssumption DEF Death, Freed, Has, Busy, Project, TypeOK, own
<1>5. ASSUME NEW k \in Ports, Intrude(k) PROVE Has(q, n)
  BY <1>5, NamesAssumption DEF Intrude, Has, Busy, Project, TypeOK, own
<1>6. QED
  BY <1>1, <1>2, <1>3, <1>4, <1>5

(* What has been exposed stays so; only Reserve exposes.                   *)
LEMMA ExposedStays ==
  ASSUME Next PROVE exposed \subseteq exposed'
<1>1. ASSUME NEW h \in Procs, Step(h) PROVE exposed \subseteq exposed'
  BY <1>1 DEF Step, At, Lock, Reserve, WriteScript, Merge, Truncate, Fill, WriteUnit,
     WriteOverride, Start, Await, PutGateway, Discover, PutServer, Scaffold, MergeCodex,
     WriteEnv, ReadManifest, RewriteScript, Look, LookInVain, Check, DeleteServer,
     DeleteGateway, StopUnit, UnlinkUnit, Clear, WriteRemoved, GiveUp
<1>2. QED
  BY <1>1 DEF Next, Break, Launch, Bind, Death, Intrude

LEMMA ApartInvariant ==
  Spec => [](TypeOK /\ LockInv /\ ApartInv)
<1>1. Init => LockInv /\ ApartInv
  BY NamesAssumption, PortsAssumption DEF Init, LockInv, Inside, Locked, Writing, ApartInv,
     Has, Busy, NoPort, Ports, NoManifest
<1>2. TypeOK /\ LockInv /\ ApartInv /\ [Next]_vars => ApartInv'
  <2>1. ASSUME TypeOK, LockInv, ApartInv, Next, ~ \E h \in Procs : Reserve(h)
        PROVE  ApartInv'
    <3>1. \A q \in Projects, n \in Ports : Has(q, n)' => Has(q, n)
      BY <2>1, StepHas, AroundHas DEF Next
    <3>2. QED
      BY <2>1, <3>1, ExposedStays DEF ApartInv
  <2>2. ASSUME ApartInv, UNCHANGED vars PROVE ApartInv'
    BY <2>2 DEF ApartInv, Has, Busy, Project, vars, world, own
  <2>3. QED
    BY <2>1, <2>2, ReserveApart
<1>3. QED
  BY <1>1, <1>2, LockInvariant, TypeCorrect, PTL DEF Spec

(* Two projects claim one port in their manifests only if it was given     *)
(* away while one of them had it unseen.                                   *)
THEOREM PortsDistinct == Spec => []OnePortOneProject
<1>1. TypeOK /\ ApartInv => OnePortOneProject
  BY DEF OnePortOneProject, ApartInv, Has, TypeOK, Manifest
<1>2. QED
  BY <1>1, ApartInvariant, PTL

(* Nor does a backend listen on the port of another project's manifest.    *)
THEOREM ListenersApart == Spec => []BackendsKeepApart
<1>1. TypeOK /\ ApartInv => BackendsKeepApart
  BY DEF BackendsKeepApart, ApartInv, Has, TypeOK, Manifest
<1>2. QED
  BY <1>1, ApartInvariant, PTL

-------------------------------------------------------------------------------
(* What a create has brought about.                                        *)

CreateLabel == Locked \cup {"lock", "override", "start", "await", "restart", "reawait",
                            "gateway", "tools", "server", "codex", "env"}

(* Which labels go with which command.                                     *)
OpOf(h) ==
    /\ pc[h] \in CreateLabel => job[h].command.op = "create"
    /\ pc[h] \in {"read", "rewrite"} => job[h].command.op = "refresh"
    /\ pc[h] \in {"scaffold"} \cup Writing => job[h].command.op \in {"create", "refresh"}
    /\ pc[h] \in Writing => (round[h] = "refresh" <=> job[h].command.op = "refresh")

(* A command that met no other is alone on its project.                    *)
Unmet(h) == h \in Busy \ disturbed => \A g \in Busy \ {h} : Project(g) # Project(h)

(* Where create is, and in which write of the manifest.                    *)
Recording(h) == pc[h] \in {"codex", "env"} \/ (pc[h] \in Writing /\ round[h] = "record")
AfterServer(h) == pc[h] = "scaffold" \/ Recording(h)
AfterGateway(h) == pc[h] \in {"tools", "server"} \/ AfterServer(h)
AfterRunning(h) == pc[h] \in {"await", "restart", "reawait", "gateway"} \/ AfterGateway(h)
AfterUnit(h) == pc[h] \in {"override", "start"} \/ AfterRunning(h)
AfterScript(h) == pc[h] \in Writing \cup {"unit"} \/ AfterUnit(h)

(* What a create that met no other has done so far is still there.         *)
Created(h) ==
    LET p == Project(h)
    IN  h \in Busy \ disturbed /\ job[h].command.op = "create"
        => /\ AfterScript(h) => script[p] = port[h]
           /\ pc[h] = "fill" => manifest[p].file = "torn"
           /\ Asked(h, "systemd") =>
                /\ AfterUnit(h) => p \in units
                /\ AfterRunning(h) => p \in running
                /\ AfterGateway(h) => gateway[p] = port[h]
                /\ AfterServer(h) => p \in servers
                /\ pc[h] \in {"truncate", "fill"} /\ round[h] = "record" => kept[h] = "registered"
           /\ pc[h] \in {"codex", "env"} =>
                /\ manifest[p].file = "whole" /\ manifest[p].port = port[h]
                /\ Asked(h, "systemd") => manifest[p].rows = "registered"

CreateInv == \A h \in Procs : OpOf(h) /\ Unmet(h) /\ Created(h)

(* A step of h leaves the local state of every other process alone.        *)
OthersStay(h) == \A g \in Procs \ {h} :
    /\ pc'[g] = pc[g] /\ job'[g] = job[g] /\ round'[g] = round[g]
    /\ port'[g] = port[g] /\ kept'[g] = kept[g]

LEMMA OwnState ==
  ASSUME TypeOK, NEW h \in Procs, Step(h)
  PROVE  OthersStay(h) /\ disturbed' = disturbed
<1> USE DEF At, Goto, OthersStay, TypeOK
<1>1. CASE Ends(h) /\ UNCHANGED disturbed
  BY <1>1 DEF Ends
<1>2. CASE \/ Lock(h) \/ Truncate(h) \/ WriteUnit(h) \/ WriteOverride(h) \/ Await(h)
           \/ PutGateway(h) \/ Discover(h) \/ PutServer(h)
           \/ MergeCodex(h) \/ DeleteServer(h) \/ DeleteGateway(h) \/ StopUnit(h)
           \/ UnlinkUnit(h) \/ Clear(h) \/ Fill(h) \/ Start(h)
  BY <1>2 DEF Lock, Truncate, WriteUnit, WriteOverride, Await, PutGateway, Discover,
     PutServer, MergeCodex, DeleteServer, DeleteGateway, StopUnit, UnlinkUnit, Clear,
     Fill, Start, Quiet, own
<1>3. CASE Reserve(h) \/ WriteScript(h) \/ Merge(h) \/ Scaffold(h) \/ ReadManifest(h) \/ Look(h)
  BY <1>3 DEF Reserve, WriteScript, Merge, Scaffold, ReadManifest, Look
<1>4. CASE WriteEnv(h)
  <2>1. UNCHANGED disturbed
    BY <1>4 DEF WriteEnv
  <2>2. CASE pc' = [pc EXCEPT ![h] = "look"] /\ UNCHANGED own
    BY <2>1, <2>2 DEF own
  <2>3. QED
    BY <1>1, <1>4, <2>1, <2>2 DEF WriteEnv
<1>5. CASE RewriteScript(h) \/ LookInVain(h) \/ Check(h) \/ WriteRemoved(h) \/ GiveUp(h)
  BY <1>1, <1>5 DEF RewriteScript, LookInVain, Check, WriteRemoved, GiveUp
<1>6. QED
  BY <1>2, <1>3, <1>4, <1>5 DEF Step

(* A process that takes a step has a command.                              *)
LEMMA StepIsBusy ==
  ASSUME NEW h \in Procs, Step(h)
  PROVE  h \in Busy
<1> USE DEF At, Busy
<1>1. CASE \/ Lock(h) \/ Truncate(h) \/ WriteUnit(h) \/ WriteOverride(h) \/ Await(h)
           \/ PutGateway(h) \/ Discover(h) \/ PutServer(h) \/ MergeCodex(h)
           \/ Fill(h) \/ Reserve(h) \/ WriteScript(h) \/ Merge(h) \/ Scaffold(h) \/ WriteEnv(h)
  BY <1>1 DEF Lock, Truncate, WriteUnit, WriteOverride, Await, PutGateway, Discover,
     PutServer, MergeCodex, Fill, Reserve, WriteScript, Merge, Scaffold, WriteEnv
<1>2. CASE \/ DeleteServer(h) \/ DeleteGateway(h) \/ StopUnit(h) \/ UnlinkUnit(h) \/ Clear(h)
           \/ ReadManifest(h) \/ Look(h) \/ RewriteScript(h) \/ LookInVain(h) \/ Check(h)
           \/ WriteRemoved(h)
  BY <1>2 DEF DeleteServer, DeleteGateway, StopUnit, UnlinkUnit, Clear,
     ReadManifest, Look, RewriteScript, LookInVain, Check, WriteRemoved
<1>3. CASE Start(h) \/ GiveUp(h)
  BY <1>3 DEF Start, AfterStart, GiveUp, Hopeless
<1>4. QED
  BY <1>1, <1>2, <1>3 DEF Step

(* A step of h touches the files, unit and records of its own project      *)
(* alone.                                                                  *)
SameAt(p) ==
    /\ manifest'[p] = manifest[p] /\ script'[p] = script[p] /\ gateway'[p] = gateway[p]
    /\ p \in units' <=> p \in units
    /\ p \in running' <=> p \in running
    /\ p \in servers' <=> p \in servers

LEMMA Elsewhere ==
  ASSUME TypeOK, NEW h \in Procs, Step(h), NEW p \in Projects, p # Project(h)
  PROVE  SameAt(p)
<1> USE DEF SameAt, TypeOK
<1>1. CASE \/ Lock(h) \/ Merge(h) \/ WriteOverride(h) \/ Await(h) \/ Discover(h)
           \/ Scaffold(h) \/ MergeCodex(h) \/ WriteEnv(h) \/ ReadManifest(h) \/ Look(h)
           \/ LookInVain(h) \/ Check(h) \/ WriteRemoved(h) \/ GiveUp(h) \/ Reserve(h)
  BY <1>1 DEF Lock, Merge, WriteOverride, Await, Discover, Scaffold, MergeCodex, WriteEnv,
     ReadManifest, Look, LookInVain, Check, WriteRemoved, GiveUp, Reserve, world
<1>2. CASE \/ WriteScript(h) \/ WriteUnit(h) \/ Start(h) \/ PutGateway(h) \/ PutServer(h)
           \/ RewriteScript(h) \/ DeleteServer(h) \/ DeleteGateway(h) \/ StopUnit(h)
           \/ UnlinkUnit(h) \/ Clear(h)
  BY <1>2 DEF WriteScript, WriteUnit, Start, PutGateway, PutServer, RewriteScript,
     DeleteServer, DeleteGateway, StopUnit, UnlinkUnit, Clear
<1>3. CASE Truncate(h)
  BY <1>3 DEF Truncate
<1>4. CASE Fill(h)
  BY <1>4 DEF Fill
<1>5. QED
  BY <1>1, <1>2, <1>3, <1>4 DEF Step

(* Labels and commands keep going together.                                *)
LEMMA OpOfStep ==
  ASSUME TypeOK, NEW h \in Procs, Step(h), OpOf(h)
  PROVE  OpOf(h)'
<1> USE DEF At, Goto, CreateLabel, Locked, Writing
<1>1. CASE \/ Lock(h) \/ Truncate(h) \/ WriteUnit(h) \/ WriteOverride(h) \/ Await(h)
           \/ PutGateway(h) \/ Discover(h) \/ PutServer(h) \/ MergeCodex(h)
  BY <1>1 DEF OpOf, TypeOK, Lock, Truncate, WriteUnit, WriteOverride, Onward, Await, PutGateway,
     Discover, PutServer, MergeCodex, Quiet, own
<1>2. CASE \/ DeleteServer(h) \/ DeleteGateway(h) \/ StopUnit(h) \/ UnlinkUnit(h) \/ Clear(h)
           \/ ReadManifest(h) \/ Look(h)
  BY <1>2 DEF OpOf, TypeOK, DeleteServer, DeleteGateway, StopUnit, UnlinkUnit, Clear,
     ReadManifest, Look, Quiet, own
<1>3. CASE Reserve(h) \/ WriteScript(h) \/ Merge(h)
  BY <1>3 DEF OpOf, TypeOK, Reserve, WriteScript, Merge
<1>4. CASE Scaffold(h)
  BY <1>4 DEF OpOf, TypeOK, Scaffold
<1>5. CASE Fill(h)
  <2>1. /\ round[h] = "reserve" => AfterFill(h) = "unit"
        /\ round[h] = "record" => AfterFill(h) \in {"codex", "env"}
        /\ round[h] = "refresh" => AfterFill(h) = "rewrite"
    BY DEF AfterFill
  <2>2. QED
    BY <1>5, <2>1 DEF OpOf, TypeOK, Fill, Quiet, own
<1>6. CASE Start(h)
  <2>1. /\ pc[h] \in {"start", "restart"} => AfterStart[pc[h]] \in CreateLabel \ {"scaffold"}
        /\ pc[h] = "bounce" => AfterStart[pc[h]] = "check"
        /\ pc[h] \in {"start", "restart", "bounce"}
    BY <1>6 DEF Start, AfterStart
  <2>2. AfterStart[pc[h]] \in {"await", "reawait", "check"}
    BY <2>1 DEF AfterStart
  <2>3. QED
    BY <1>6, <2>1, <2>2 DEF OpOf, TypeOK, Start, Quiet, own
<1>7. CASE Ends(h)
  BY <1>7 DEF OpOf, TypeOK, Ends
<1>8. CASE WriteEnv(h)
  <2>1. CASE pc' = [pc EXCEPT ![h] = "look"]
    BY <2>1 DEF OpOf, TypeOK
  <2>2. QED
    BY <1>7, <1>8, <2>1 DEF WriteEnv
<1>9. CASE RewriteScript(h) \/ LookInVain(h) \/ Check(h) \/ WriteRemoved(h) \/ GiveUp(h)
  BY <1>7, <1>9 DEF RewriteScript, LookInVain, Check, WriteRemoved, GiveUp
<1>10. QED
  BY <1>1, <1>2, <1>3, <1>4, <1>5, <1>6, <1>8, <1>9 DEF Step

(* Only an end changes the command of a process that has one.              *)
LEMMA JobStays ==
  ASSUME TypeOK, NEW h \in Procs, Step(h), h \in Busy'
  PROVE  job' = job
<1> USE DEF At, Goto
<1>1. ~ Ends(h)
  BY DEF Ends, Busy, TypeOK
<1>2. CASE \/ Lock(h) \/ Truncate(h) \/ WriteUnit(h) \/ WriteOverride(h) \/ Await(h)
           \/ PutGateway(h) \/ Discover(h) \/ PutServer(h) \/ MergeCodex(h) \/ Fill(h) \/ Start(h)
           \/ DeleteServer(h) \/ DeleteGateway(h) \/ StopUnit(h) \/ UnlinkUnit(h) \/ Clear(h)
  BY <1>2 DEF Lock, Truncate, WriteUnit, WriteOverride, Await, PutGateway, Fill, Start,
     Discover, PutServer, MergeCodex, DeleteServer, DeleteGateway, StopUnit, UnlinkUnit,
     Clear, Quiet, own
<1>3. CASE Reserve(h) \/ WriteScript(h) \/ Merge(h) \/ Scaffold(h) \/ ReadManifest(h) \/ Look(h)
  BY <1>3 DEF Reserve, WriteScript, Merge, Scaffold, ReadManifest, Look
<1>4. CASE WriteEnv(h)
  BY <1>1, <1>4 DEF WriteEnv, own
<1>5. QED
  BY <1>1, <1>2, <1>3, <1>4 DEF Step, RewriteScript, LookInVain, Check, WriteRemoved, GiveUp

(* Who met no other command meets none by a step of one.                   *)
LEMMA UnmetStep ==
  ASSUME TypeOK, NEW h \in Procs, Step(h), \A g \in Procs : Unmet(g)
  PROVE  \A g \in Procs : Unmet(g)'
<1>1. h \in Busy /\ disturbed' = disturbed /\ OthersStay(h)
  BY StepIsBusy, OwnState
<1>2. Busy' \subseteq Busy
  BY <1>1 DEF Busy, OthersStay
<1>3. \A g \in Busy' : job'[g] = job[g]
  BY <1>1, JobStays DEF OthersStay, Busy
<1>4. QED
  BY <1>1, <1>2, <1>3 DEF Unmet, Project

(* Nor by a launch, which disturbs whom it meets.                          *)
LEMMA UnmetLaunch ==
  ASSUME TypeOK, NEW x \in Procs, NEW j \in Job, Launch(x, j), NEW h \in Procs, Unmet(h)
  PROVE  Unmet(h)'
<1> DEFINE met == {g \in Busy : Project(g) = j.project}
<1>1. /\ job' = [job EXCEPT ![x] = j] /\ pc[x] = "idle"
      /\ disturbed' = (disturbed \ {x}) \cup met \cup (IF met = {} THEN {} ELSE {x})
      /\ \A g \in Procs \ {x} : pc'[g] = pc[g]
  BY DEF Launch, Goto, TypeOK
<1>2. \A g \in Busy' : g = x \/ (g \in Busy /\ job'[g] = job[g])
  BY <1>1 DEF Busy, TypeOK
<1>3. job'[x] = j /\ Busy \subseteq Procs /\ x \notin Busy
  BY <1>1 DEF TypeOK, Busy
<1>4. ASSUME h \in Busy', h \notin disturbed', NEW g \in Busy', g # h
      PROVE  Project(g)' # Project(h)'
  <2>1. CASE h = x
    <3>1. met = {}
      BY <1>1, <1>4, <2>1
    <3>2. g \in Busy /\ job'[g] = job[g]
      BY <1>2, <1>4, <2>1
    <3>3. QED
      BY <1>3, <2>1, <3>1, <3>2 DEF Project
  <2>2. CASE h # x
    <3>1. h \in Busy /\ job'[h] = job[h] /\ h \notin met /\ h \notin disturbed
      BY <1>1, <1>2, <1>4, <2>2
    <3>2. CASE g = x
      BY <1>3, <3>1, <3>2 DEF Project
    <3>3. CASE g # x
      BY <1>2, <1>4, <3>1, <3>3 DEF Unmet, Project
    <3>4. QED
      BY <3>2, <3>3
  <2>3. QED
    BY <2>1, <2>2
<1>5. QED
  BY <1>4 DEF Unmet

(* What a create has brought about stays while another process moves.      *)
LEMMA CreatedElsewhere ==
  ASSUME TypeOK, NEW h \in Procs, NEW g \in Procs, g # h, Step(h), Unmet(g), Created(g)
  PROVE  Created(g)'
<1>1. h \in Busy /\ disturbed' = disturbed /\ OthersStay(h)
  BY StepIsBusy, OwnState
<1>2. SUFFICES ASSUME g \in Busy', g \notin disturbed'
      PROVE  Created(g)'
  BY DEF Created
<1>3. g \in Busy \ disturbed /\ Project(g) # Project(h)
  BY <1>1, <1>2 DEF OthersStay, Busy, Unmet
<1>4. PICK p \in Projects : p = Project(g)
  BY JobFacts DEF TypeOK, Project
<1>5. SameAt(p)
  BY <1>3, <1>4, Elsewhere
<1>6. /\ pc'[g] = pc[g] /\ job'[g] = job[g] /\ round'[g] = round[g]
      /\ port'[g] = port[g] /\ kept'[g] = kept[g]
  BY <1>1 DEF OthersStay
<1>7. Project(g)' = p /\ (Asked(g, "systemd")' <=> Asked(g, "systemd"))
  BY <1>4, <1>6 DEF Project, Asked
<1>8. /\ AfterScript(g)' <=> AfterScript(g)
      /\ AfterUnit(g)' <=> AfterUnit(g)
      /\ AfterRunning(g)' <=> AfterRunning(g)
      /\ AfterGateway(g)' <=> AfterGateway(g)
      /\ AfterServer(g)' <=> AfterServer(g)
  BY <1>6 DEF AfterScript, AfterUnit, AfterRunning, AfterGateway, AfterServer, Recording
<1>9. QED
  BY <1>3, <1>4, <1>5, <1>6, <1>7, <1>8 DEF Created, SameAt

(* And the create's own steps add to it, each what it is for.              *)
LEMMA CreatedStep ==
  ASSUME TypeOK, NEW h \in Procs, Step(h), OpOf(h), Created(h)
  PROVE  Created(h)'
<1>1. SUFFICES ASSUME h \in Busy', h \notin disturbed', job'[h].command.op = "create"
      PROVE  Created(h)'
  BY DEF Created
<1>2. job' = job /\ disturbed' = disturbed /\ h \in Busy \ disturbed
  BY <1>1, JobStays, StepIsBusy, OwnState
<1>3. job[h].command.op = "create"
  BY <1>1, <1>2
<1>4. PICK p \in Projects : p = Project(h)
  BY JobFacts DEF TypeOK, Project
<1>5. Project(h)' = p /\ (Asked(h, "systemd")' <=> Asked(h, "systemd"))
  BY <1>2, <1>4 DEF Project, Asked
<1>6. ~ Ends(h)
  BY <1>1 DEF Ends, Goto, Busy, TypeOK
<1>7. pc[h] \notin {"read", "rewrite"} /\ (pc[h] \in Writing => round[h] # "refresh")
  BY <1>3 DEF OpOf
<1> DEFINE Systemd == Asked(h, "systemd")
<1>8. /\ AfterScript(h) => script[p] = port[h]
      /\ pc[h] = "fill" => manifest[p].file = "torn"
      /\ Systemd => /\ AfterUnit(h) => p \in units
                    /\ AfterRunning(h) => p \in running
                    /\ AfterGateway(h) => gateway[p] = port[h]
                    /\ AfterServer(h) => p \in servers
                    /\ pc[h] \in {"truncate", "fill"} /\ round[h] = "record"
                         => kept[h] = "registered"
      /\ pc[h] \in {"codex", "env"} =>
           /\ manifest[p].file = "whole" /\ manifest[p].port = port[h]
           /\ Systemd => manifest[p].rows = "registered"
  BY <1>2, <1>3, <1>4 DEF Created
<1>9. SUFFICES
        /\ AfterScript(h)' => script'[p] = port'[h]
        /\ pc'[h] = "fill" => manifest'[p].file = "torn"
        /\ Systemd => /\ AfterUnit(h)' => p \in units'
                      /\ AfterRunning(h)' => p \in running'
                      /\ AfterGateway(h)' => gateway'[p] = port'[h]
                      /\ AfterServer(h)' => p \in servers'
                      /\ pc'[h] \in {"truncate", "fill"} /\ round'[h] = "record"
                           => kept'[h] = "registered"
        /\ pc'[h] \in {"codex", "env"} =>
             /\ manifest'[p].file = "whole" /\ manifest'[p].port = port'[h]
             /\ Systemd => manifest'[p].rows = "registered"
  BY <1>5 DEF Created
<1> HIDE DEF Systemd
<1> USE DEF At, Goto, Locked, Writing, AfterScript, AfterUnit, AfterRunning, AfterGateway,
            AfterServer, Recording
<1>10. CASE Lock(h) \/ Reserve(h) \/ Look(h)
  BY <1>10 DEF TypeOK, Lock, Reserve, Look
<1>11. CASE WriteScript(h)
  BY <1>4, <1>11 DEF TypeOK, WriteScript
<1>12. CASE Merge(h)
  BY <1>4, <1>8, <1>12 DEF TypeOK, Merge, Systemd, world
<1>13. CASE Truncate(h)
  BY <1>4, <1>8, <1>13 DEF TypeOK, Truncate, NoManifest, Quiet, own
<1>14. CASE Fill(h)
  <2>1. /\ round[h] = "reserve" => AfterFill(h) = "unit"
        /\ round[h] = "record" => AfterFill(h) \in {"codex", "env"}
    BY DEF AfterFill
  <2>2. round[h] \in {"reserve", "record"} /\ pc[h] = "fill" /\ manifest[p].file = "torn"
    BY <1>7, <1>8, <1>14 DEF Fill, TypeOK
  <2>3. manifest'[p] = [file |-> "whole", port |-> port[h], rows |-> kept[h]]
    BY <1>4, <1>14, <2>2 DEF Fill, TypeOK
  <2>4. pc'[h] = AfterFill(h) /\ UNCHANGED own
        /\ UNCHANGED <<script, units, running, gateway, servers>>
    BY <1>14 DEF Fill, Quiet, TypeOK
  <2>5. QED
    BY <1>8, <2>1, <2>2, <2>3, <2>4 DEF own
<1>15. CASE WriteUnit(h)
  BY <1>4, <1>8, <1>15 DEF TypeOK, WriteUnit, Onward, Systemd, own
<1>16. CASE WriteOverride(h)
  BY <1>8, <1>16 DEF TypeOK, WriteOverride, Onward, Systemd, Quiet, own
<1>17. CASE Start(h)
  <2>1. /\ pc[h] = "start" => AfterStart[pc[h]] = "await"
        /\ pc[h] = "restart" => AfterStart[pc[h]] = "reawait"
        /\ pc[h] = "bounce" => AfterStart[pc[h]] = "check"
        /\ pc[h] \in {"start", "restart", "bounce"}
    BY <1>17 DEF Start, AfterStart
  <2>2. QED
    BY <1>4, <1>8, <1>17, <2>1 DEF TypeOK, Start, Quiet, own
<1>18. CASE Await(h)
  BY <1>8, <1>18 DEF TypeOK, Await, Quiet, own, world
<1>19. CASE PutGateway(h)
  BY <1>4, <1>8, <1>19 DEF TypeOK, PutGateway, Quiet, own
<1>20. CASE Discover(h)
  BY <1>8, <1>20 DEF TypeOK, Discover, Quiet, own, world
<1>21. CASE PutServer(h)
  BY <1>4, <1>8, <1>21 DEF TypeOK, PutServer, Quiet, own
<1>22. CASE Scaffold(h)
  BY <1>3, <1>8, <1>22 DEF TypeOK, Scaffold
<1>23. CASE MergeCodex(h)
  BY <1>8, <1>23 DEF TypeOK, MergeCodex, Quiet, own
<1>24. CASE WriteEnv(h)
  BY <1>6, <1>24 DEF TypeOK, WriteEnv
<1>25. CASE ReadManifest(h) \/ RewriteScript(h)
  BY <1>7, <1>25 DEF ReadManifest, RewriteScript
<1>26. CASE LookInVain(h) \/ Check(h) \/ WriteRemoved(h) \/ GiveUp(h)
  BY <1>6, <1>26 DEF LookInVain, Check, WriteRemoved, GiveUp
<1>27. CASE DeleteServer(h) \/ DeleteGateway(h) \/ StopUnit(h) \/ UnlinkUnit(h) \/ Clear(h)
  BY <1>27 DEF TypeOK, DeleteServer, DeleteGateway, StopUnit, UnlinkUnit, Clear
<1>28. QED
  BY <1>10, <1>11, <1>12, <1>13, <1>14, <1>15, <1>16, <1>17, <1>18, <1>19, <1>20, <1>21,
     <1>22, <1>23, <1>24, <1>25, <1>26, <1>27 DEF Step

(* A launch, a kill and what happens around the commands.                  *)
LEMMA CreatedLaunch ==
  ASSUME TypeOK, NEW x \in Procs, NEW j \in Job, Launch(x, j),
         NEW h \in Procs, OpOf(h), Unmet(h), Created(h)
  PROVE  OpOf(h)' /\ Created(h)'
<1>1. /\ job' = [job EXCEPT ![x] = j] /\ UNCHANGED <<world, round, port, kept>>
      /\ pc' = [pc EXCEPT ![x] = FirstLabel(j.command)]
      /\ h \in disturbed /\ h # x => h \in disturbed'
  BY DEF Launch, Goto
<1>2. CASE h # x
  <2>1. pc'[h] = pc[h] /\ job'[h] = job[h]
    BY <1>1, <1>2 DEF TypeOK
  <2>2. h \in Busy' \ disturbed' => h \in Busy \ disturbed
    BY <1>1, <1>2, <2>1 DEF Busy
  <2>3. QED
    BY <1>1, <1>2, <2>1, <2>2 DEF OpOf, Created, AfterScript, AfterUnit, AfterRunning,
       AfterGateway, AfterServer, Recording, Project, Asked, world
<1>3. CASE h = x
  <2>1. pc'[h] = FirstLabel(j.command) /\ job'[h] = j
    BY <1>1, <1>3 DEF TypeOK
  <2>2. \/ j.command.op = "create" /\ pc'[h] = "lock"
        \/ j.command.op = "refresh" /\ pc'[h] = "read"
        \/ /\ j.command.op \notin {"create", "refresh"}
           /\ pc'[h] \in {"look", "unserver", "stop"}
    BY <2>1, JobFacts DEF FirstLabel
  <2>3. QED
    BY <2>1, <2>2 DEF OpOf, Created, AfterScript, AfterUnit, AfterRunning, AfterGateway,
       AfterServer, Recording, CreateLabel, Locked, Writing
<1>4. QED
  BY <1>2, <1>3

LEMMA CreatedBreak ==
  ASSUME TypeOK, NEW x \in Procs, Break(x), CreateInv
  PROVE  CreateInv'
<1>1. /\ UNCHANGED <<world, disturbed>> /\ OthersStay(x) /\ pc'[x] = "idle"
  BY DEF Break, Ends, Goto, OthersStay, TypeOK
<1>2. SUFFICES ASSUME NEW h \in Procs PROVE OpOf(h)' /\ Unmet(h)' /\ Created(h)'
  BY DEF CreateInv
<1>3. OpOf(h) /\ Unmet(h) /\ Created(h)
  BY DEF CreateInv
<1>4. CASE h = x
  BY <1>1, <1>4 DEF OpOf, Unmet, Created, Busy, CreateLabel, Locked, Writing
<1>5. CASE h # x
  <2>1. /\ pc'[h] = pc[h] /\ job'[h] = job[h] /\ round'[h] = round[h]
        /\ port'[h] = port[h] /\ kept'[h] = kept[h]
    BY <1>1, <1>5 DEF OthersStay
  <2>2. OpOf(h)'
    BY <1>3, <2>1 DEF OpOf
  <2>3. Unmet(h)'
    <3>1. Busy' \subseteq Busy /\ \A g \in Busy' : job'[g] = job[g]
      BY <1>1 DEF Busy, OthersStay
    <3>2. QED
      BY <1>1, <1>3, <3>1 DEF Unmet, Project
  <2>4. Created(h)'
    BY <1>1, <1>3, <2>1 DEF Created, AfterScript, AfterUnit, AfterRunning, AfterGateway,
       AfterServer, Recording, Project, Asked, Busy, world
  <2>5. QED
    BY <2>2, <2>3, <2>4
<1>6. QED
  BY <1>4, <1>5

LEMMA CreateInvariant == TypeOK /\ CreateInv /\ [Next]_vars => CreateInv'
<1>1. ASSUME TypeOK, CreateInv, NEW h \in Procs, Step(h) PROVE CreateInv'
  <2>1. \A g \in Procs : OpOf(g)'
    <3>1. ASSUME NEW g \in Procs, g # h PROVE OpOf(g)'
      BY <1>1, <3>1, OwnState DEF CreateInv, OthersStay, OpOf
    <3>2. QED
      BY <1>1, <3>1, OpOfStep DEF CreateInv
  <2>2. \A g \in Procs : Unmet(g)'
    BY <1>1, UnmetStep DEF CreateInv
  <2>3. \A g \in Procs : Created(g)'
    BY <1>1, CreatedElsewhere, CreatedStep DEF CreateInv
  <2>4. QED
    BY <2>1, <2>2, <2>3 DEF CreateInv
<1>2. ASSUME TypeOK, CreateInv, NEW x \in Procs, NEW j \in Job, Launch(x, j) PROVE CreateInv'
  BY <1>2, UnmetLaunch, CreatedLaunch DEF CreateInv
<1>3. ASSUME TypeOK, CreateInv,
             UNCHANGED <<manifest, script, units, running, gateway, servers, pc, own, disturbed>>
      PROVE  CreateInv'
  BY <1>3 DEF CreateInv, OpOf, Unmet, Created, AfterScript, AfterUnit, AfterRunning,
     AfterGateway, AfterServer, Recording, Project, Asked, Busy, own
<1>4. QED
  BY <1>1, <1>2, <1>3, CreatedBreak DEF Next, Bind, Death, Intrude, vars, world

(* A create that reports success and met no other command on its project   *)
(* leaves the whole installation in place, on one port, whatever earlier   *)
(* commands left half done and whatever the others do meanwhile.           *)
THEOREM CreateCompletes == Spec => CreateIsWhole
<1>1. Init => CreateInv
  BY DEF Init, CreateInv, OpOf, Unmet, Created, Busy, CreateLabel, Locked, Writing
<1>2. TypeOK /\ CreateInv =>
        [\A h \in Procs, p \in Projects, systemd \in BOOLEAN :
           /\ WriteEnv(h) /\ h \notin disturbed
           /\ p = Project(h) /\ systemd = Asked(h, "systemd")
           => Whole(p, systemd)']_vars
  <2>1. SUFFICES ASSUME TypeOK, CreateInv, NEW h \in Procs, NEW p \in Projects,
                        NEW systemd \in BOOLEAN, WriteEnv(h), h \notin disturbed,
                        p = Project(h), systemd = Asked(h, "systemd")
                 PROVE  Whole(p, systemd)'
    OBVIOUS
  <2>2. pc[h] = "env" /\ h \in Busy /\ job[h].command.op = "create"
    BY <2>1 DEF WriteEnv, At, CreateInv, OpOf, CreateLabel, Busy
  <2>3. /\ script[p] = port[h] /\ manifest[p].file = "whole" /\ manifest[p].port = port[h]
        /\ systemd => /\ p \in units /\ p \in running /\ p \in servers /\ gateway[p] = port[h]
                      /\ manifest[p].rows = "registered"
    BY <2>1, <2>2 DEF CreateInv, Created, AfterScript, AfterUnit, AfterRunning, AfterGateway,
       AfterServer, Recording
  <2>4. /\ env'[p] = "created"
        /\ UNCHANGED <<manifest, script, units, running, gateway, servers>>
    BY <2>1 DEF WriteEnv, TypeOK
  <2>5. QED
    BY <2>3, <2>4 DEF Whole
<1>3. QED
  BY <1>1, <1>2, TypeCorrect, CreateInvariant, PTL DEF Spec, CreateIsWhole
===============================================================================
