----------------------------- MODULE Onboarding -----------------------------
(***************************************************************************)
(* Onboarding a service through the tools of the helper: a draft composed  *)
(* answer by answer, a package previewed and recorded under its id, the    *)
(* user's approval, and the request to the host proxy                      *)
(* (contextforge_helper_mcp.py, control_plane_service_onboarding_surfaces  *)
(* .py).  Sessions are helper processes of one project and one client:     *)
(* they share the draft files, the recorded packages and the file with the *)
(* latest message of the user, and lock none of them.                      *)
(*                                                                         *)
(* Abstractions.  The id of a package is its content, the time in it left  *)
(* out.  A file is read in one step and written in two, for write_text     *)
(* truncates first.  The executor behind the proxy is one step that        *)
(* installs the package or changes nothing (module NpmHost is about it).   *)
(***************************************************************************)
EXTENDS Naturals, FiniteSets

CONSTANTS Sessions,     \* helper processes
          Services,     \* service bindings
          Questions,    \* required fields of a draft
          Answers,      \* what may be answered
          Missing,      \* no answer
          Does,         \* the calls each session makes
          Said,         \* what the user says beside the words he is given
          Given,        \* complete answers an assistant may give in one call
          Ports,        \* endpoint ports of the host
          HashPort,     \* the port each service tries first
          Nothing,      \* no package, no service
          Torn,         \* a file cut short
          Persistent,   \* the session of a user who does not give up
          Wanted,       \* the service he wants
          MaxDrafts,    \* bound: draft calls
          MaxTrouble    \* bound: crashes, timeouts, failures, other messages

ASSUME NamesAssumption ==
    /\ Missing \notin Answers
    /\ Nothing \notin Services
    /\ Wanted \in Services
ASSUME GivenAssumption == Given \subseteq [Questions -> Answers]
ASSUME DoesAssumption ==
    Does \in [Sessions -> SUBSET ({"draft", "preview", "id", "facts"} \X Services)]
ASSUME PortAssumption == HashPort \in [Services -> Ports]
ASSUME BoundAssumption == MaxDrafts \in Nat /\ MaxTrouble \in Nat

Draft == [Questions -> Answers \cup {Missing}]
NoAnswers == [q \in Questions |-> Missing]
Facts == [Questions -> Answers]
Package == [service : Services, facts : Facts, port : Ports]

(* What the latest message of the user says: consent, refusal or something *)
(* else, about a package by its id, a service by its name, or neither, and *)
(* whether it names the executor surface.                                  *)
Message == [kind : {"approve", "refuse", "talk"},
            about : Package \cup Services \cup {Nothing},
            surface : {"named", "unnamed"}]
ASSUME SaidAssumption == Said \subseteq Message
Silence == [kind |-> "talk", about |-> Nothing, surface |-> "unnamed"]
Exact(p) == [kind |-> "approve", about |-> p, surface |-> "named"]

VARIABLES
    message,    \* the file with the latest message
    draft,      \* the draft file of each service
    whole,      \* packages recorded
    torn,       \* packages whose file is cut short
    host,       \* the package installed for each service
    adrift,     \* packages whose request nobody waits for
    pc, work,   \* the call each session is in
    screen,     \* the package each session previewed last
    shown,      \* history: packages previewed
    consented,  \* history: sessions in whose call an approval of it stood
    answered,   \* history: the answers accepted for each service since
    rivals,     \* history: services whose draft two calls write at once
    drafts, trouble     \* so far

files == <<draft, whole, torn>>
history == <<shown, consented, answered, rivals>>
spent == <<drafts, trouble>>
vars == <<message, files, host, adrift, pc, work, screen, history, spent>>

Call == {"draft", "preview", "id", "facts"}
Work == [call : Call, service : Services, read : Draft, facts : Draft,
         surface : {"named", "unnamed"}, package : Package \cup {Nothing}]
Label == {"idle", "cut", "fill", "build", "store", "gate", "load", "send", "sent"}

TypeOK ==
    /\ message \in Message
    /\ draft \in [Services -> Draft \cup {Torn}]
    /\ whole \in SUBSET Package /\ torn \in SUBSET Package
    /\ host \in [Services -> Package \cup {Nothing}]
    /\ adrift \in SUBSET Package
    /\ pc \in [Sessions -> Label] /\ work \in [Sessions -> Work]
    /\ screen \in [Sessions -> Package \cup {Nothing}]
    /\ shown \in SUBSET Package /\ consented \in SUBSET Sessions
    /\ answered \in [Services -> Draft] /\ rivals \in SUBSET Services
    /\ drafts \in 0 .. MaxDrafts /\ trouble \in 0 .. MaxTrouble

NoWork == [call |-> "draft", service |-> CHOOSE v \in Services : TRUE,
           read |-> NoAnswers, facts |-> NoAnswers, surface |-> "unnamed", package |-> Nothing]

Init ==
    /\ message = Silence
    /\ draft = [v \in Services |-> NoAnswers]
    /\ whole = {} /\ torn = {}
    /\ host = [v \in Services |-> Nothing] /\ adrift = {}
    /\ pc = [s \in Sessions |-> "idle"] /\ work = [s \in Sessions |-> NoWork]
    /\ screen = [s \in Sessions |-> Nothing]
    /\ shown = {} /\ consented = {} /\ rivals = {}
    /\ answered = draft
    /\ drafts = 0 /\ trouble = 0

Trouble == trouble < MaxTrouble /\ trouble' = trouble + 1 /\ UNCHANGED drafts
Goto(s, label) == pc' = [pc EXCEPT ![s] = label]
At(s, label) == pc[s] = label /\ UNCHANGED <<message, host, adrift>>

Return(s) ==
    /\ Goto(s, "idle")
    /\ work' = [work EXCEPT ![s] = NoWork]
    /\ consented' = consented \ {s}

(* Variant: a call replaces what earlier ones have answered.               *)
MergeNot(old, new) == new

Merge(old, new) == [q \in Questions |-> IF new[q] = Missing THEN old[q] ELSE new[q]]

-------------------------------------------------------------------------------
(* The user, whose messages reach every session.                           *)

(* _require_runtime_apply_approval_text: consent, to this id if there is   *)
(* one, and for this service.                                              *)
Approves(m, w) ==
    /\ m.kind = "approve"
    /\ w.call = "id" => m.about = w.package
    /\ m.about \in {w.service} \cup {p \in Package : p.service = w.service}

Hear(m) == {s \in Sessions : pc[s] # "idle" /\ Approves(m, work[s])}

Say(m) ==
    /\ message' = m
    /\ consented' = consented \cup Hear(m)
    /\ UNCHANGED <<files, host, adrift, pc, work, screen, shown, answered, rivals>>

(* He approves the package on the screen in the words he was given.        *)
Agree(s) ==
    /\ screen[s] # Nothing /\ message # Exact(screen[s])
    /\ Say(Exact(screen[s]))
    /\ s = Persistent \/ Trouble
    /\ s = Persistent => UNCHANGED spent

(* He says something else of what he was shown.                            *)
Talk(m) ==
    /\ m # message /\ m.about \in Package => m.about \in shown
    /\ Say(m) /\ Trouble

-------------------------------------------------------------------------------
(* The draft.                                                              *)

Drafting(v) == {s \in Sessions : pc[s] \in {"cut", "fill"} /\ work[s].service = v}

(* Variant: a draft cut short is not noticed.                              *)
BeginDraftTorn(s, v, given) ==
    /\ At(s, "idle") /\ <<"draft", v>> \in Does[s] /\ given # NoAnswers
    /\ work' = [work EXCEPT ![s] = [NoWork EXCEPT !.service = v, !.read = draft[v],
                                                  !.facts = given]]
    /\ Goto(s, "cut")
    /\ drafts < MaxDrafts /\ drafts' = drafts + 1
    /\ UNCHANGED <<files, screen, history, trouble>>

(* runtime_apply_draft_status: the draft is read, which fails if it is cut *)
(* short, and the answers of the call are put over it.                     *)
BeginDraft(s, v, given) ==
    /\ At(s, "idle") /\ <<"draft", v>> \in Does[s]
    /\ draft[v] # Torn /\ given # NoAnswers
    /\ work' = [work EXCEPT ![s] = [NoWork EXCEPT !.service = v, !.read = draft[v],
                                                  !.facts = given]]
    /\ Goto(s, "cut")
    /\ rivals' = IF Drafting(v) = {} THEN rivals \ {v} ELSE rivals \cup {v}
    /\ drafts < MaxDrafts /\ drafts' = drafts + 1
    /\ UNCHANGED <<files, screen, shown, consented, answered, trouble>>

CutDraft(s) ==
    /\ At(s, "cut")
    /\ draft' = [draft EXCEPT ![work[s].service] = Torn]
    /\ Goto(s, "fill")
    /\ UNCHANGED <<whole, torn, work, screen, history, spent>>

FillDraft(s) ==
    LET w == work[s]
    IN  /\ At(s, "fill")
        /\ draft' = [draft EXCEPT ![w.service] = Merge(w.read, w.facts)]
        /\ answered' = [answered EXCEPT ![w.service] =
                IF w.service \in rivals THEN draft'[w.service]
                ELSE [q \in Questions |-> IF w.facts[q] = Missing THEN @[q] ELSE w.facts[q]]]
        /\ Return(s)
        /\ UNCHANGED <<whole, torn, screen, shown, rivals, spent>>

-------------------------------------------------------------------------------
(* The package.                                                            *)

(* The facts come from the draft or with the call.  With an answer missing *)
(* build_service_onboarding_runtime_apply_package does nothing.            *)
Payloads(v) == Facts \cap (Given \cup {draft[v]})

BeginPreview(s, v, facts) ==
    /\ At(s, "idle") /\ <<"preview", v>> \in Does[s] /\ facts \in Payloads(v)
    /\ work' = [work EXCEPT ![s] = [NoWork EXCEPT !.call = "preview", !.service = v,
                                                  !.facts = facts]]
    /\ Goto(s, "build")
    /\ UNCHANGED <<files, screen, history, spent>>

(* npm_stdio_endpoint_port: the first port from the service's own on that  *)
(* no other service of the index has.                                      *)
Taken(v) == {host[t].port : t \in {t \in Services \ {v} : host[t] # Nothing}}
Offset(v, n) == (n - HashPort[v]) % Cardinality(Ports)

(* Variant: the service's own port.                                        *)
FreeOwn(v) == {HashPort[v]}

Free(v) == {n \in Ports \ Taken(v) : \A k \in Ports \ Taken(v) : Offset(v, n) <= Offset(v, k)}

Build(s) ==
    LET w == work[s]
    IN  \E n \in Free(w.service) :
          LET p == [service |-> w.service, facts |-> w.facts, port |-> n]
          IN  /\ At(s, "build")
              /\ work' = [work EXCEPT ![s].package = p]
              /\ torn' = torn \cup {p} /\ whole' = whole \ {p}
              /\ Goto(s, "store")
              /\ UNCHANGED <<draft, screen, history, spent>>

(* A preview shows the id; an execution goes on with the package.          *)
Store(s) ==
    LET p == work[s].package
    IN  /\ At(s, "store")
        /\ torn' = torn \ {p} /\ whole' = whole \cup {p}
        /\ IF work[s].call = "preview"
           THEN /\ screen' = [screen EXCEPT ![s] = p]
                /\ shown' = shown \cup {p}
                /\ Return(s)
           ELSE /\ Goto(s, "send")
                /\ UNCHANGED <<screen, shown, work, consented>>
        /\ UNCHANGED <<draft, answered, rivals, spent>>

-------------------------------------------------------------------------------
(* The execution.                                                          *)

(* cf_project_service_onboarding_runtime_execute reads the latest message  *)
(* a first time, for the approval of the executor surface.                 *)
BeginExecute(s, w) ==
    /\ At(s, "idle") /\ <<w.call, w.service>> \in Does[s]
    /\ work' = [work EXCEPT ![s] = [w EXCEPT !.surface = message.surface]]
    /\ consented' = IF Approves(message, w) THEN consented \cup {s} ELSE consented
    /\ Goto(s, "gate")
    /\ UNCHANGED <<files, screen, shown, answered, rivals, spent>>

(* The id of a package that was recorded.                                  *)
ById(p) == [NoWork EXCEPT !.call = "id", !.service = p.service, !.package = p]

(* No id: the package is built from the facts again.                       *)
ByFacts(v, facts) == [NoWork EXCEPT !.call = "facts", !.service = v, !.facts = facts]

ExecuteId(s, p) == p \in shown /\ BeginExecute(s, ById(p))
ExecuteFacts(s, v, facts) ==
    facts \in Payloads(v) /\ BeginExecute(s, ByFacts(v, facts))

Refuse(s) == Return(s) /\ UNCHANGED <<files, screen, shown, answered, rivals, spent>>
Pass(s, label) == Goto(s, label) /\ UNCHANGED <<files, work, screen, history, spent>>

(* Variant: any consent to the service will do.                            *)
GateOfService(s) ==
    LET w == work[s]
    IN  /\ At(s, "gate")
        /\ IF ~ Approves(message, [w EXCEPT !.call = "facts"]) THEN Refuse(s)
           ELSE IF w.call = "facts" THEN Pass(s, "build")
           ELSE IF w.package \in whole THEN Pass(s, "load") ELSE Refuse(s)

(* The recorded package is looked up for what it is called, and the latest *)
(* message read again.                                                     *)
Gate(s) ==
    LET w == work[s]
    IN  /\ At(s, "gate")
        /\ IF ~ Approves(message, w) THEN Refuse(s)
           ELSE IF w.call = "facts" THEN Pass(s, "build")
           ELSE IF w.package \in whole THEN Pass(s, "load") ELSE Refuse(s)

(* The recorded package is read once more.                                 *)
Load(s) ==
    /\ At(s, "load")
    /\ IF work[s].package \in whole THEN Pass(s, "send") ELSE Refuse(s)

(* require_runtime_executor_surface_approval of the first reading.         *)
Send(s) ==
    /\ At(s, "send")
    /\ IF work[s].surface = "named" THEN Pass(s, "sent") ELSE Refuse(s)

(* The executor installs the package, unless another service of the index  *)
(* has its port.                                                           *)
Install(p) ==
    /\ p.port \notin Taken(p.service)
    /\ host' = [host EXCEPT ![p.service] = p]

Succeed(s) ==
    /\ pc[s] = "sent" /\ Install(work[s].package)
    /\ Return(s)
    /\ UNCHANGED <<message, files, adrift, screen, shown, answered, rivals, spent>>

Fail(s) ==
    /\ At(s, "sent")
    /\ IF work[s].package.port \in Taken(work[s].service) THEN UNCHANGED spent
       ELSE Trouble
    /\ Return(s)
    /\ UNCHANGED <<files, screen, shown, answered, rivals>>

(* The helper waits for 240 seconds; the request goes on.                  *)
Timeout(s) ==
    /\ pc[s] = "sent" /\ Trouble
    /\ adrift' = adrift \cup {work[s].package}
    /\ Return(s)
    /\ UNCHANGED <<message, files, host, screen, shown, answered, rivals>>

EndAdrift(p) ==
    /\ p \in adrift
    /\ adrift' = adrift \ {p}
    /\ Install(p) \/ UNCHANGED host
    /\ UNCHANGED <<message, files, pc, work, screen, history, spent>>

(* An operator or another project has the executor install a package.      *)
Elsewhere(p) ==
    /\ p.service # Wanted /\ Trouble
    /\ Install(p)
    /\ UNCHANGED <<message, files, adrift, pc, work, screen, history>>

(* A helper dies.                                                          *)
Crash(s) ==
    /\ pc[s] # "idle" /\ Trouble
    /\ adrift' = IF pc[s] = "sent" THEN adrift \cup {work[s].package} ELSE adrift
    /\ screen' = [screen EXCEPT ![s] = Nothing]
    /\ Return(s)
    /\ UNCHANGED <<message, files, host, shown, answered, rivals>>

Continue(s) ==
    \/ CutDraft(s) \/ FillDraft(s) \/ Build(s) \/ Store(s)
    \/ Gate(s) \/ Load(s) \/ Send(s) \/ Succeed(s) \/ Fail(s)

Next ==
    \/ \E s \in Sessions :
         \/ Continue(s) \/ Agree(s) \/ Timeout(s) \/ Crash(s)
         \/ \E v \in Services :
              \/ \E given \in Draft : BeginDraft(s, v, given)
              \/ \E facts \in Payloads(v) : BeginPreview(s, v, facts) \/ ExecuteFacts(s, v, facts)
         \/ \E p \in shown : ExecuteId(s, p)
    \/ \E m \in Said : Talk(m)
    \/ \E p \in adrift : EndAdrift(p)
    \/ \E p \in Package : Elsewhere(p)

Spec == Init /\ [][Next]_vars

(* A session goes on with a call it is in.  One user and his assistant     *)
(* repeat preview, approval of what is shown and execution, and a request  *)
(* that can be carried out is, in the end.                                 *)
PersistentSpec ==
    /\ Spec
    /\ \A s \in Sessions : WF_vars(Continue(s))
    /\ SF_vars(\E facts \in Given : BeginPreview(Persistent, Wanted, facts))
    /\ SF_vars(screen[Persistent] # Nothing /\ screen[Persistent].service = Wanted
               /\ Agree(Persistent))
    /\ SF_vars(screen[Persistent] # Nothing /\ screen[Persistent].service = Wanted
               /\ ExecuteId(Persistent, screen[Persistent]))
    /\ SF_vars(Succeed(Persistent))

-------------------------------------------------------------------------------
(* Properties.                                                             *)

(* What is sent to the executor for an id is the package that was shown    *)
(* under it, and while the call was under way the user's latest message    *)
(* was at some time a consent to that id; a package that is built anew     *)
(* needs a consent to its service.  An earlier consent, or one to another  *)
(* package, is none, however calls and messages interleave.                *)
SentAsApproved ==
    [][\A s \in Sessions :
         pc[s] = "send" /\ pc'[s] = "sent"
         => /\ s \in consented
            /\ work[s].call = "id" => work[s].package \in shown]_vars

(* A draft holds the latest answer to every question that a call reported  *)
(* as accepted, unless two calls wrote it at once or its file is cut       *)
(* short.                                                                  *)
AnswersKept ==
    \A v \in Services : v \in rivals \/ draft[v] = Torn \/ draft[v] = answered[v]

(* A persistent user gets his service installed, though others take the    *)
(* port his package was made for, calls time out or die and files are cut  *)
(* short: previewing again chooses a port that is free.                    *)
PersistenceApplies == <>(host[Wanted] # Nothing)
==============================================================================
