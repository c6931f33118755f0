------------------------------ MODULE ProjectInit ------------------------------
(***************************************************************************)
(* Project initialisation: scripts/contextforge_helper_mcp.py caches a     *)
(* plan and the receipts of its approval, and                              *)
(* scripts/control_plane_project_init_helper.py proposes, approves and     *)
(* applies the plan.  Applying writes two files, the client's own config   *)
(* and the project state, one after the other.                             *)
(*                                                                         *)
(* One helper process serves one client session.  All of them share the    *)
(* project state, the client configs and one durable cache file.  A state  *)
(* file access is atomic here (StateStore implements AtomicStore); no      *)
(* caller in this module passes expected_revision.                         *)
(*                                                                         *)
(* Abstractions.  A config is the set of services with an entry that       *)
(* carries the owner marker and the set of names the user has taken with   *)
(* entries of his own.  The receipts of one approval, one per consent      *)
(* class, are one number.  The process-local maps of pending challenges    *)
(* and of issued receipt ids are left out: every tool modelled here calls  *)
(* restore_process_local_approval_session first, which puts the cached     *)
(* challenge and receipts back.  Language input, catalog drift and the     *)
(* recovery of unmanaged conflicts are not modelled.                       *)
(***************************************************************************)
EXTENDS Naturals, Sequences, FiniteSets

CONSTANTS Helpers,       \* helper processes, one for each client session
          Services,      \* services a project can select
          Clients,       \* the clients with a config file, in reset order
          ClientOf,      \* the client a helper works for
          NoPlan,        \* "nothing cached"
          MaxProposals, MaxApprovals, MaxCrashes, MaxResets,  \* bounds
          MaxEdits, MaxDecisions, MaxExpired

ClientSet == {Clients[i] : i \in 1..Len(Clients)}

ASSUME ClientAssumption ==
    Clients \in Seq(ClientSet) /\ Clients # <<>> /\ ClientOf \in [Helpers -> ClientSet]
ASSUME HelpersAssumption == IsFiniteSet(Helpers)
ASSUME LimitAssumption ==
    {MaxProposals, MaxApprovals, MaxCrashes, MaxResets,
     MaxEdits, MaxDecisions, MaxExpired} \subseteq Nat

VARIABLES
    state,      \* context_forge_state.json
    config,     \* each client's project-local config file
    durable,    \* the cache file of the helpers: [plan, receipt]
    mem,        \* each helper process: [plan, receipt, consumed]
    pc,         \* where each helper is in a handler that takes several steps
    work,       \* the local variables of that handler
    shown,      \* the plan each session last showed to its user
    proposals,  \* challenges issued so far; they are numbered
    expired,    \* challenges 1..expired are past expires_at
    receipts,   \* history: the approvals, in order
    applied,    \* history: state writes of each session with each approval
    recorded,   \* history: what sessions wrote that no handler under way
                \*   is about to replace, see WriteState
    edits,      \* history: names users have taken while no handler was
                \*   between its read of that config and its write
    spent,      \* crashes, resets, edits and decisions so far
    mishaps     \* history: what the handlers do not guard against

vars == <<state, config, durable, mem, pc, work, shown, proposals, expired,
          receipts, applied, recorded, edits, spent, mishaps>>

cacheVars == <<durable, mem, shown, proposals, receipts>>
fileVars == <<state, config, recorded>>

NoServices == [c \in ClientSet |-> {}]

(* A missing file reads as this state.                                     *)
NoState == [form |-> "absent", rev |-> 0, jobs |-> NoServices, declined |-> {}]

State == [form : {"absent", "valid", "invalid"}, rev : Nat,
          jobs : [ClientSet -> SUBSET Services], declined : SUBSET Services]

Config == [managed : SUBSET Services, own : SUBSET Services]
NoEntries == [managed |-> {}, own |-> {}]

(* What plan_id and plan_digest cover, the snapshots of the two files      *)
(* included; the challenge is not covered by either.                       *)
PlanId == [client : ClientSet, services : SUBSET Services,
           base : State, config : Config]
Plan == [id : PlanId, challenge : Nat]

Cache == [plan : Plan \cup {NoPlan}, receipt : Nat]
(* Jobs and declined services on record.                                   *)
Records == [jobs : [ClientSet -> SUBSET Services], declined : SUBSET Services]
NoRecords == [jobs |-> NoServices, declined |-> {}]

EmptyCache == [plan |-> NoPlan, receipt |-> 0]
FreshProcess == [plan |-> NoPlan, receipt |-> 0, consumed |-> {}]

Label == {"idle", "provision", "plan", "config", "state", "consume",
          "reset", "erase"}

NoWork == [kind |-> "none", client |-> Clients[1], plan |-> NoPlan,
           receipt |-> 0, next |-> NoState, text |-> NoEntries, left |-> <<>>]

Work == [kind : {"none", "apply", "repair", "decide", "reset"},
         client : ClientSet, plan : Plan \cup {NoPlan}, receipt : Nat,
         next : State, text : Config, left : Seq(ClientSet)]

TypeOK ==
    /\ state \in State
    /\ config \in [ClientSet -> Config]
    /\ durable \in Cache
    /\ mem \in [Helpers -> [plan : Plan \cup {NoPlan}, receipt : Nat,
                           consumed : SUBSET (1..Len(receipts))]]
    /\ pc \in [Helpers -> Label]
    /\ work \in [Helpers -> Work]
    /\ shown \in [Helpers -> Plan \cup {NoPlan}]
    /\ proposals \in Nat
    /\ expired \in 0..proposals
    /\ receipts \in Seq([plan : Plan, shown : Plan])
    /\ applied \in [1..MaxApprovals -> [Helpers -> Nat]]
    /\ recorded \in Records
    /\ edits \in [ClientSet -> SUBSET Services]
    /\ spent \in [crashes : Nat, resets : Nat, edits : Nat, decisions : Nat]
    /\ mishaps \in SUBSET {"clash", "torn", "drift", "damage"}

Init ==
    /\ state = NoState
    /\ config = [c \in ClientSet |-> NoEntries]
    /\ durable = EmptyCache
    /\ mem = [h \in Helpers |-> FreshProcess]
    /\ pc = [h \in Helpers |-> "idle"]
    /\ work = [h \in Helpers |-> NoWork]
    /\ shown = [h \in Helpers |-> NoPlan]
    /\ proposals = 0 /\ expired = 0
    /\ receipts = <<>>
    /\ applied = [a \in 1..MaxApprovals |-> [h \in Helpers |-> 0]]
    /\ recorded = NoRecords
    /\ edits = NoServices
    /\ spent = [crashes |-> 0, resets |-> 0, edits |-> 0, decisions |-> 0]
    /\ mishaps = {}

Busy == {h \in Helpers : pc[h] # "idle"}

Goto(h, label) == pc' = [pc EXCEPT ![h] = label]

(* Two handlers under way that rewrite the same config, or a reset beside  *)
(* any other.                                                              *)
Clash(w, v) ==
    \/ "reset" \in {w.kind, v.kind}
    \/ w.client = v.client /\ {w.kind, v.kind} \subseteq {"apply", "repair"}

(* Handler h starts with the locals w.                                       *)
Start(h, label, w) ==
    /\ Goto(h, label)
    /\ work' = [work EXCEPT ![h] = w]
    /\ mishaps' = IF \E g \in Busy : Clash(w, work[g])
                    THEN mishaps \cup {"clash"} ELSE mishaps

(* Back to the caller, whose next call starts with fresh locals.           *)
Return(h) ==
    /\ Goto(h, "idle")
    /\ work' = [work EXCEPT ![h] = NoWork]

-------------------------------------------------------------------------------
(* Plans and receipts.                                                     *)

(* A config plan keeps what is there and adds an owned entry per service.  *)
Activate(cfg, services) == [cfg EXCEPT !.managed = @ \cup services]
Conflict(cfg, services) == cfg.own \cap services # {}

(* Variant: entries in the config count as an installation.                *)
InstalledByConfig(c) ==
    (state.form = "valid" /\ state.jobs[c] # {}) \/ config[c].managed # {}

(* pending_validation_resume: a client with an installed job gets that job *)
(* back instead of a new plan, unless it asks to restart_project_init.     *)
Installed(c) == state.form = "valid" /\ state.jobs[c] # {}

(* propose_project_init and _remember_plan: snapshot both files, issue a   *)
(* challenge, cache the plan beside whatever receipts are cached already.  *)
Propose(h, services, restart) ==
    LET c == ClientOf[h]
        plan == [id |-> [client |-> c, services |-> services,
                         base |-> state, config |-> config[c]],
                 challenge |-> proposals + 1]
    IN
    /\ pc[h] = "idle"
    /\ proposals < MaxProposals
    /\ services # {}
    /\ restart \/ ~Installed(c)
    /\ ~Conflict(config[c], services)
    /\ proposals' = proposals + 1
    /\ mem' = [mem EXCEPT ![h].plan = plan]
    /\ durable' = [durable EXCEPT !.plan = plan]
    /\ shown' = [shown EXCEPT ![h] = plan]
    /\ UNCHANGED <<fileVars, pc, work, expired, receipts, applied, edits,
                   spent, mishaps>>

(* _matching_cached_plan: the memory of the process first, then the file.  *)
CachedPlan(h) ==
    IF mem[h].plan # NoPlan THEN mem[h].plan ELSE durable.plan

(* _receipts_match_current_plan compares plan_id and plan_digest.          *)
ReceiptMatches(a, plan) == a # 0 /\ receipts[a].plan.id = plan.id

(* _matching_cached_receipts.                                              *)
CachedReceipt(h, plan) ==
    IF ReceiptMatches(mem[h].receipt, plan) THEN mem[h].receipt
    ELSE IF ReceiptMatches(durable.receipt, plan) THEN durable.receipt
    ELSE 0

Live(plan) == plan.challenge > expired

(* cf_project_init_approve, after the user of this session said "approve": *)
(* whatever plan is cached gets the receipts.                              *)
Approve(h) ==
    LET plan == CachedPlan(h)
        a == Len(receipts) + 1
    IN
    /\ pc[h] = "idle"
    /\ a <= MaxApprovals
    /\ shown[h] # NoPlan
    /\ plan # NoPlan
    /\ Live(plan)
    /\ receipts' = Append(receipts, [plan |-> plan, shown |-> shown[h]])
    /\ mem' = [mem EXCEPT ![h].plan = plan, ![h].receipt = a]
    /\ durable' = [plan |-> plan, receipt |-> a]
    /\ UNCHANGED <<fileVars, pc, work, shown, proposals, expired, applied,
                   edits, spent, mishaps>>

(* Variant: only the client config is compared.                            *)
FreshConfig(plan) == config[plan.id.client] = plan.id.config

(* _validate_plan_not_stale: revision, status and digest of the state, or  *)
(* the artifact digest of an invalid one, and the digest of the config.    *)
Fresh(plan) ==
    /\ state = plan.id.base
    /\ config[plan.id.client] = plan.id.config

(* Variant: consumed receipts are not looked up.                           *)
ReceiptsUnspent(h, a) == a # 0 /\ Live(receipts[a].plan)

(* _validate_receipts_for_plan.                                            *)
ReceiptsValid(h, a) ==
    /\ a # 0
    /\ a \notin mem[h].consumed
    /\ Live(receipts[a].plan)

(* cf_project_init_apply up to provisioning: every check is made here, on  *)
(* what the files hold now.  A failed check is an error to the caller,     *)
(* which has nevertheless brought the cached plan into memory.             *)
BeginApply(h) ==
    LET plan == CachedPlan(h)
        a == CachedReceipt(h, plan)
    IN
    /\ pc[h] = "idle"
    /\ plan # NoPlan
    /\ mem' = [mem EXCEPT ![h].plan = plan,
                          ![h].receipt = IF a # 0 THEN a ELSE @]
    /\ \/ /\ Live(plan) /\ Fresh(plan) /\ ReceiptsValid(h, a)
          /\ Start(h, "provision",
                   [NoWork EXCEPT !.kind = "apply", !.plan = plan,
                      !.receipt = a, !.client = plan.id.client])
       \/ /\ ~(Live(plan) /\ Fresh(plan) /\ ReceiptsValid(h, a))
          /\ UNCHANGED <<pc, work, mishaps>>
    /\ UNCHANGED <<fileVars, durable, shown, proposals, expired, receipts,
                   applied, edits, spent>>


-------------------------------------------------------------------------------
(* The steps of apply_approved_project_init after its checks.              *)

(* An invalid state file is an error, unless replacing it was approved.    *)
Readable(plan) == state.form # "invalid" \/ plan.id.base.form = "invalid"

(* Variant: the config plan made at the proposal is the one written.       *)
PlanConfigOfProposal(h) ==
    LET plan == work[h].plan IN
    /\ pc[h] = "provision"
    /\ \/ /\ Readable(plan)
          /\ work' = [work EXCEPT ![h].text =
                        Activate(plan.id.config, plan.id.services)]
          /\ Goto(h, "plan")
       \/ Return(h)
    /\ UNCHANGED <<fileVars, cacheVars, expired, applied, edits, spent, mishaps>>

(* Provisioning is over: a second config plan, from the config of now.     *)
(* Provisioning can fail, and the config can have come to conflict.        *)
PlanConfig(h) ==
    LET c == work[h].client
        plan == work[h].plan
    IN
    /\ pc[h] = "provision"
    /\ \/ /\ Readable(plan)
          /\ ~Conflict(config[c], plan.id.services)
          /\ work' = [work EXCEPT ![h].text =
                        Activate(config[c], plan.id.services)]
          /\ Goto(h, "plan")
       \/ Return(h)
    /\ UNCHANGED <<fileVars, cacheVars, expired, applied, edits, spent, mishaps>>

(* What apply_project_init_activation_to_state makes of a state read.      *)
Activated(c, services) ==
    [form |-> "valid", rev |-> 0,
     jobs |-> [(IF state.form = "valid" THEN state.jobs ELSE NoServices)
                 EXCEPT ![c] = services],
     declined |-> IF state.form = "valid" THEN state.declined \ services ELSE {}]

(* Variant: the state of the proposal is what the job is put into.         *)
ActivatedOfPlan(plan) ==
    [form |-> "valid", rev |-> 0,
     jobs |-> [(IF plan.id.base.form = "valid" THEN plan.id.base.jobs ELSE NoServices)
                 EXCEPT ![plan.id.client] = plan.id.services],
     declined |-> IF plan.id.base.form = "valid"
                    THEN plan.id.base.declined \ plan.id.services ELSE {}]

ReadStateOfPlan(h) ==
    /\ pc[h] = "plan"
    /\ work' = [work EXCEPT ![h].next = ActivatedOfPlan(work[h].plan)]
    /\ Goto(h, "config")
    /\ UNCHANGED <<fileVars, cacheVars, expired, applied, edits, spent, mishaps>>

(* The dry run that computes planned_state, from one more read.            *)
ReadState(h) ==
    LET c == work[h].client
        plan == work[h].plan
    IN
    /\ pc[h] = "plan"
    /\ IF Readable(plan) /\ ~Conflict(config[c], plan.id.services)
         THEN /\ work' = [work EXCEPT ![h].next = Activated(c, plan.id.services)]
              /\ Goto(h, "config")
         ELSE Return(h)
    /\ UNCHANGED <<fileVars, cacheVars, expired, applied, edits, spent, mishaps>>

(* _write_client_activation: the text planned before.                      *)
WriteConfig(h) ==
    /\ pc[h] = "config"
    /\ config' = [config EXCEPT ![work[h].client] = work[h].text]
    /\ Goto(h, "state")
    /\ UNCHANGED <<state, recorded, work, cacheVars, expired, applied, edits,
                   spent, mishaps>>

(* Another handler has read the state and has yet to write it.             *)
AboutToReplace(h) == \E g \in Helpers \ {h} : pc[g] \in {"config", "state"}

(* The record of an installation or a decision, once written by h.  What   *)
(* a handler still replaces is not counted on.                             *)
RecordsAfter(h) ==
    LET w == work[h]
        lasting == ~AboutToReplace(h)
    IN
    CASE w.kind = "apply" ->
           [jobs |-> [recorded.jobs EXCEPT ![w.client] =
                        IF lasting THEN w.plan.id.services ELSE {}],
            declined |-> recorded.declined \ w.plan.id.services]
      [] w.kind = "decide" /\ lasting ->
           [recorded EXCEPT !.declined = @ \cup w.next.declined]
      [] OTHER -> recorded

(* write_state_atomic without expected_revision: the state computed from   *)
(* an earlier read replaces the file, numbered after what is there now.    *)
WriteState(h) ==
    LET w == work[h]
        replaces == w.kind = "apply" /\ w.plan.id.base.form = "invalid"
    IN
    /\ pc[h] = "state"
    /\ \/ /\ state.form # "invalid" \/ replaces
          /\ state' = [w.next EXCEPT !.rev =
                         IF state.form = "valid" THEN state.rev + 1 ELSE 1]
          /\ recorded' = RecordsAfter(h)
          /\ IF w.kind = "apply"
               THEN /\ applied' = [applied EXCEPT ![w.receipt][h] = @ + 1]
                    /\ Goto(h, "consume")
                    /\ UNCHANGED work
               ELSE Return(h) /\ UNCHANGED applied
       \/ /\ state.form = "invalid" /\ ~replaces
          /\ Return(h)
          /\ UNCHANGED <<state, recorded, applied>>
    /\ UNCHANGED <<config, cacheVars, expired, edits, spent, mishaps>>

(* Variant: the challenge is marked instead of the receipts.               *)
ConsumeChallenge(h) ==
    LET a == work[h].receipt IN
    /\ pc[h] = "consume"
    /\ mem' = [mem EXCEPT ![h].consumed = @ \cup {receipts[a].plan.challenge}]
    /\ durable' = EmptyCache
    /\ Return(h)
    /\ UNCHANGED <<fileVars, shown, proposals, expired, receipts, applied,
                   edits, spent, mishaps>>

(* The receipts are validated once more, marked consumed, and the cache    *)
(* file is removed, whatever it holds by now.  Receipts that expired since *)
(* turn a finished installation into an error.                             *)
Consume(h) ==
    LET a == work[h].receipt IN
    /\ pc[h] = "consume"
    /\ IF ReceiptsValid(h, a)
         THEN /\ mem' = [mem EXCEPT ![h].consumed = @ \cup {a}]
              /\ durable' = EmptyCache
         ELSE UNCHANGED <<mem, durable>>
    /\ Return(h)
    /\ UNCHANGED <<fileVars, shown, proposals, expired, receipts, applied,
                   edits, spent, mishaps>>

-------------------------------------------------------------------------------
(* The other handlers that write.                                          *)

(* repair_pending_project_init_config: plan the entries of the installed   *)
(* job again, write the config, then the state that was read at the start. *)
(* Whether it writes when every entry is in place depends on a config      *)
(* digest in the job, which is left out: it may.                           *)
BeginRepair(h) ==
    LET c == ClientOf[h] IN
    /\ pc[h] = "idle"
    /\ spent.decisions < MaxDecisions
    /\ Installed(c)
    /\ ~Conflict(config[c], state.jobs[c])
    /\ Start(h, "config",
             [NoWork EXCEPT !.kind = "repair", !.client = c, !.next = state,
                !.text = Activate(config[c], state.jobs[c])])
    /\ spent' = [spent EXCEPT !.decisions = @ + 1]
    /\ UNCHANGED <<fileVars, cacheVars, expired, applied, edits>>

(* apply_project_init_decisions_to_state.                                  *)
Declined(services) ==
    [state EXCEPT !.form = "valid", !.declined = @ \cup services]

(* record_project_init_service_decision, up to its write: declined         *)
(* services, recorded beside whatever jobs there are.                      *)
BeginDecision(h, services) ==
    /\ pc[h] = "idle"
    /\ spent.decisions < MaxDecisions
    /\ services # {}
    /\ state.form # "invalid"
    /\ Start(h, "state",
             [NoWork EXCEPT !.kind = "decide", !.client = ClientOf[h],
                !.next = Declined(services)])
    /\ spent' = [spent EXCEPT !.decisions = @ + 1]
    /\ UNCHANGED <<fileVars, cacheVars, expired, applied, edits>>

(* Variant: the state file goes last, and here not yet.                    *)
BeginResetStateLast(h) ==
    /\ pc[h] = "idle"
    /\ spent.resets < MaxResets
    /\ Start(h, "reset", [NoWork EXCEPT !.kind = "reset", !.left = Clients])
    /\ spent' = [spent EXCEPT !.resets = @ + 1]
    /\ UNCHANGED <<fileVars, cacheVars, expired, applied, edits>>

(* reset_current_project: the state file first, then each client config.   *)
BeginReset(h) ==
    /\ pc[h] = "idle"
    /\ spent.resets < MaxResets
    /\ state' = NoState
    /\ recorded' = NoRecords
    /\ Start(h, "reset", [NoWork EXCEPT !.kind = "reset", !.left = Clients])
    /\ spent' = [spent EXCEPT !.resets = @ + 1]
    /\ UNCHANGED <<config, cacheVars, expired, applied, edits>>

(* _reset_codex_project_config and its siblings read a config and take out *)
(* the owned entries, with or without a state file that names them; the    *)
(* user's stay.  A config without owned entries is not written.            *)
ReadOwned(h) ==
    LET left == work[h].left IN
    /\ pc[h] = "reset"
    /\ \/ left = <<>> /\ Return(h)
       \/ /\ left # <<>> /\ config[Head(left)].managed = {}
          /\ work' = [work EXCEPT ![h].left = Tail(@)]
          /\ UNCHANGED pc
       \/ /\ left # <<>> /\ config[Head(left)].managed # {}
          /\ work' = [work EXCEPT ![h].text =
                        [config[Head(left)] EXCEPT !.managed = {}]]
          /\ Goto(h, "erase")
    /\ UNCHANGED <<fileVars, cacheVars, expired, applied, edits, spent, mishaps>>

(* The evidence is preserved; the text computed before replaces the file.  *)
EraseOwned(h) ==
    /\ pc[h] = "erase"
    /\ config' = [config EXCEPT ![Head(work[h].left)] = work[h].text]
    /\ work' = [work EXCEPT ![h].left = Tail(@), ![h].text = NoEntries]
    /\ Goto(h, "reset")
    /\ UNCHANGED <<state, recorded, cacheVars, expired, applied, edits, spent,
                   mishaps>>

-------------------------------------------------------------------------------
(* The environment.                                                        *)

(* A helper process ends, inside a handler or between two; the next call   *)
(* of the session starts another.  Client configs are rewritten in place,  *)
(* so a process that dies in that write leaves an empty file.              *)
Crash(h) ==
    /\ spent.crashes < MaxCrashes
    /\ spent' = [spent EXCEPT !.crashes = @ + 1]
    /\ mem' = [mem EXCEPT ![h] = FreshProcess]
    /\ Return(h)
    /\ \/ UNCHANGED <<config, mishaps>>
       \/ \E c \in ClientSet :
             /\ \/ pc[h] = "config" /\ c = work[h].client
                \/ pc[h] = "erase" /\ c = Head(work[h].left)
             /\ config' = [config EXCEPT ![c] = NoEntries]
             /\ mishaps' = mishaps \cup {"torn"}
    /\ UNCHANGED <<state, recorded, durable, shown, proposals, expired, receipts,
                   applied, edits>>

(* Fifteen minutes after it was issued a challenge expires, and with it    *)
(* the receipts of its approval.                                           *)
Expire ==
    /\ expired < proposals /\ expired < MaxExpired
    /\ expired' = expired + 1
    /\ UNCHANGED <<fileVars, cacheVars, pc, work, applied, edits, spent, mishaps>>

(* A handler has read config c and has yet to write what it made of it.    *)
Rewriting(c) ==
    \E h \in Busy :
       \/ pc[h] \in {"plan", "config"} /\ work[h].client = c
       \/ pc[h] = "erase" /\ Head(work[h].left) = c

(* The user edits a config: takes a name with an entry of his own, or      *)
(* throws the owned entries away.                                          *)
Edit(c) ==
    /\ spent.edits < MaxEdits
    /\ spent' = [spent EXCEPT !.edits = @ + 1]
    /\ \/ \E s \in Services \ (config[c].managed \cup config[c].own) :
             /\ config' = [config EXCEPT ![c].own = @ \cup {s}]
             /\ edits' = IF Rewriting(c) THEN edits
                           ELSE [edits EXCEPT ![c] = @ \cup {s}]
             /\ UNCHANGED mishaps
       \/ /\ config[c].managed # {}
          /\ config' = [config EXCEPT ![c].managed = {}]
          /\ mishaps' = mishaps \cup {"drift"}
          /\ UNCHANGED edits
    /\ UNCHANGED <<state, recorded, cacheVars, pc, work, expired, applied>>

(* Something else leaves a state file that does not validate.              *)
Damage ==
    /\ spent.edits < MaxEdits
    /\ state.form = "valid"
    /\ state' = [state EXCEPT !.form = "invalid"]
    /\ spent' = [spent EXCEPT !.edits = @ + 1]
    /\ mishaps' = mishaps \cup {"damage"}
    /\ recorded' = NoRecords
    /\ UNCHANGED <<config, cacheVars, pc, work, expired, applied, edits>>

Continue(h) ==
    \/ PlanConfig(h) \/ ReadState(h) \/ WriteConfig(h)
    \/ WriteState(h) \/ Consume(h) \/ ReadOwned(h) \/ EraseOwned(h)

Next ==
    \/ \E h \in Helpers :
         \/ \E S \in SUBSET Services, restart \in BOOLEAN : Propose(h, S, restart)
         \/ Approve(h)
         \/ BeginApply(h)
         \/ BeginRepair(h)
         \/ \E S \in SUBSET Services : BeginDecision(h, S)
         \/ BeginReset(h)
         \/ Continue(h)
         \/ Crash(h)
    \/ Expire
    \/ \E c \in ClientSet : Edit(c)
    \/ Damage

Spec == Init /\ [][Next]_vars

(* A session that wants its client set up: its user answers each question, *)
(* and asks for a new plan, a new approval or a repair when what he has is *)
(* of no more use.  Provisioning does not fail every time.                 *)
Usable(h) ==
    LET plan == CachedPlan(h) IN plan # NoPlan /\ Live(plan) /\ Fresh(plan)

Approved(h) == ReceiptsValid(h, CachedReceipt(h, CachedPlan(h)))

Drifted(c) == Installed(c) /\ ~(state.jobs[c] \subseteq config[c].managed)

Persist(h) ==
    \/ ~Usable(h) /\ \E S \in SUBSET Services : Propose(h, S, FALSE)
    \/ Usable(h) /\ ~Approved(h) /\ Approve(h)
    \/ Usable(h) /\ Approved(h) /\ BeginApply(h)
    \/ Drifted(ClientOf[h]) /\ BeginRepair(h)
    \/ Continue(h)

PersistentNext ==
    \/ \E h \in Helpers : Persist(h) \/ Crash(h)
    \/ Expire
    \/ \E c \in ClientSet : Edit(c)
    \/ Damage

PersistentSpec ==
    /\ Init /\ [][PersistentNext]_vars
    /\ \A h \in Helpers :
         /\ WF_vars(Persist(h))
         /\ SF_vars(PlanConfig(h) /\ pc'[h] = "plan")

-------------------------------------------------------------------------------
(* Properties.                                                             *)

(* The state never says that a client has services installed that its      *)
(* config does not have: apply writes the config first and reset removes   *)
(* the state first, so that a crash between the two writes errs on the     *)
(* side that the next proposal or reset repairs.  Sessions of different    *)
(* clients may install at the same time.                                   *)
InstalledIsConfigured ==
    mishaps \cap {"clash", "torn", "drift"} = {} =>
        \A c \in ClientSet : Installed(c) => state.jobs[c] \subseteq config[c].managed

(* An entry of the user's own survives every plan, apply, repair and       *)
(* reset, however long after the proposal.  Only an entry he adds in the   *)
(* short time between a handler's last read of the config and its write is *)
(* lost, and even then none of his older ones.                             *)
UserEntriesKept ==
    "torn" \notin mishaps => \A c \in ClientSet : edits[c] \subseteq config[c].own

(* What the user approves is what his session showed him.                  *)
ApprovedAsShown ==
    \A i \in 1..Len(receipts) : receipts[i].plan.id = receipts[i].shown.id

(* One approval covers one installation.  The receipts are spent because   *)
(* the installation gives the state a revision past the one the plan was   *)
(* made from.  Should a reset or a damaged file bring that one back, still *)
(* the process that installed remembers consuming them: for an approval to *)
(* install twice it takes a file that was reset or damaged and a process   *)
(* that does not remember, another session's or the successor of one that  *)
(* died first.                                                             *)
OneInstallPerApproval ==
    /\ "clash" \notin mishaps /\ spent.resets = 0 /\ "damage" \notin mishaps =>
         \A a \in 1..MaxApprovals : \A g, h \in Helpers :
            applied[a][g] > 0 /\ applied[a][h] > 0 => g = h /\ applied[a][h] = 1
    /\ spent.crashes = 0 =>
         \A a \in 1..MaxApprovals : \A h \in Helpers : applied[a][h] <= 1

(* Whatever crashes, expires or is damaged in between, a user who persists *)
(* gets his client set up: no half-made installation blocks the next one.  *)
ClientSetUp(c) ==
    state.form = "valid" /\ state.jobs[c] # {}
      /\ state.jobs[c] \subseteq config[c].managed

PersistenceInstalls == \A h \in Helpers : <>[]ClientSetUp(ClientOf[h])

(* What one session records in the state, an installed job or a declined   *)
(* service, no handler of another takes back, although each of them reads  *)
(* the file and replaces it later and none passes a revision: an apply     *)
(* reads it again when its provisioning, which may take minutes, is over.  *)
(* Only what is written while another handler is past that last read can   *)
(* be lost; a reset, a damaged file and an installation of the same client *)
(* or service change the record on purpose.                                *)
RecordsKept ==
    /\ recorded # NoRecords => state.form = "valid"
    /\ recorded.declined \subseteq state.declined
    /\ \A c \in ClientSet :
          recorded.jobs[c] # {} => recorded.jobs[c] = state.jobs[c]
===============================================================================
