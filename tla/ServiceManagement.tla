--------------------------- MODULE ServiceManagement ---------------------------
(***************************************************************************)
(* The service management tools of scripts/contextforge_helper_mcp.py:     *)
(* enable, disable, remove, repair, and the decline and defer decisions of *)
(* project initialisation, over the project state and the client configs.  *)
(* A service's status is read off the state; whether a client sees the     *)
(* service is decided by the entry in its config.                          *)
(*                                                                         *)
(* Abstractions.  A tool call stands for the confirmed one; previews,      *)
(* dry runs and listings change nothing.  Enabling is an installation as   *)
(* in ProjectInit, taken here from the point where its checks succeed.     *)
(* State file accesses are atomic, and every tool writes without           *)
(* expected_revision.  A job is the set of the services it lists; the      *)
(* catalog offers every service at any time.                               *)
(***************************************************************************)
EXTENDS Naturals, FiniteSets

CONSTANTS Helpers,       \* helper processes, one for each client session
          Services,      \* the services of the catalog
          Clients,       \* clients with a project-local config
          Removing,      \* clients whose entries disable and remove take out
          Reactivating,  \* clients whose repair records the services anew (pi)
          ClientOf,      \* the client a helper works for
          MaxCalls, MaxCrashes, MaxEdits   \* bounds

ASSUME ServiceAssumption ==
    Removing \cup Reactivating \subseteq Clients /\ ClientOf \in [Helpers -> Clients]
ASSUME CallAssumption == {MaxCalls, MaxCrashes, MaxEdits} \subseteq Nat

VARIABLES
    state,     \* services, decisions and current jobs in the state file
    config,    \* each client's config: owned entries, and the user's own
    pc,        \* where each helper is in a tool call
    work,      \* the local variables of that call
    off,       \* history: services taken off through a client, not put back
    spent,     \* calls, crashes and edits so far
    mishaps    \* history: what the tools do not guard against

vars == <<state, config, pc, work, off, spent, mishaps>>

Decision == {"none", "accepted", "disabled", "declined", "deferred"}

Config == [managed : SUBSET Services, own : SUBSET Services]
NoEntries == [managed |-> {}, own |-> {}]

(* digest is the config each current job has left behind.                  *)
State == [services : SUBSET Services, decision : [Services -> Decision],
          job : [Clients -> SUBSET Services], digest : [Clients -> Config]]
NoState == [services |-> {}, decision |-> [s \in Services |-> "none"],
            job |-> [c \in Clients |-> {}], digest |-> [c \in Clients |-> NoEntries]]

Kind == {"none", "apply", "disable", "remove", "repair", "decide"}
Label == {"idle", "row", "config", "read", "state"}

Work == [kind : Kind, services : SUBSET Services, text : Config, next : State]
NoWork == [kind |-> "none", services |-> {}, text |-> NoEntries, next |-> NoState]

Mishap == {"clash", "overlap", "torn", "cut", "drift", "repaired", "redecided"}

TypeOK ==
    /\ state \in State
    /\ config \in [Clients -> Config]
    /\ pc \in [Helpers -> Label]
    /\ work \in [Helpers -> Work]
    /\ off \in [Clients -> SUBSET Services]
    /\ spent \in [calls : Nat, crashes : Nat, edits : Nat]
    /\ mishaps \subseteq Mishap

Init ==
    /\ state = NoState
    /\ config = [c \in Clients |-> NoEntries]
    /\ pc = [h \in Helpers |-> "idle"]
    /\ work = [h \in Helpers |-> NoWork]
    /\ off = [c \in Clients |-> {}]
    /\ spent = [calls |-> 0, crashes |-> 0, edits |-> 0]
    /\ mishaps = {}

(* _service_management_catalog_rows.                                       *)
Status(s) ==
    CASE state.decision[s] = "disabled" -> "Disabled"
      [] state.decision[s] # "disabled" /\ s \in state.services -> "Enabled"
      [] OTHER -> "Available"

Busy == {h \in Helpers : pc[h] # "idle"}

(* Two calls under way that rewrite the config of one client.              *)
Clash(h, kind, g) ==
    ClientOf[h] = ClientOf[g] /\ "decide" \notin {kind, work[g].kind}

(* A call begins: label is its first write or its next read.  Mishaps      *)
(* it brings about by its arguments are in more.                           *)
Start(h, label, w, more) ==
    /\ pc[h] = "idle"
    /\ spent.calls < MaxCalls
    /\ spent' = [spent EXCEPT !.calls = @ + 1]
    /\ pc' = [pc EXCEPT ![h] = label]
    /\ work' = [work EXCEPT ![h] = w]
    /\ mishaps' = mishaps \cup more
         \cup (IF Busy # {} THEN {"overlap"} ELSE {})
         \cup (IF \E g \in Busy : Clash(h, w.kind, g) THEN {"clash"} ELSE {})
    /\ UNCHANGED <<state, config, off>>

-------------------------------------------------------------------------------
(* The calls, up to their first write.                                     *)

(* plan_project_init_opencode_config_write and its siblings.               *)
Activate(cfg, services) == [cfg EXCEPT !.managed = @ \cup services]
Conflict(cfg, services) == cfg.own \cap services # {}

(* apply_project_init_activation_to_state: the services are recorded and   *)
(* accepted, and the client's current job is the one of this installation. *)
Activated(c, services) ==
    [services |-> state.services \cup services,
     decision |-> [s \in Services |->
                     IF s \in services THEN "accepted" ELSE state.decision[s]],
     job |-> [state.job EXCEPT ![c] = services],
     digest |-> [state.digest EXCEPT ![c] = Activate(config[c], services)]]

(* A repair leaves the services as they are recorded, or records them anew.*)
Repaired(c, services) ==
    IF c \in Reactivating THEN Activated(c, services)
    ELSE [state EXCEPT !.digest[c] = Activate(config[c], services)]

(* apply_approved_project_init: the text and the state to be written are   *)
(* computed first.                                                         *)
Install(h, services) ==
    LET c == ClientOf[h] IN
    /\ services # {}
    /\ ~Conflict(config[c], services)
    /\ Start(h, "config",
             [kind |-> "apply", services |-> services,
              text |-> Activate(config[c], services),
              next |-> Activated(c, services)], {})

(* service_management_enable: plan, approval and installation in one call. *)
Enable(h, s) == Status(s) # "Enabled" /\ Install(h, {s})

(* Disable and remove look up the service's row: the status is of the      *)
(* state before the catalog is fetched.                                    *)
Row(h, kind, s) ==
    Start(h, "row", [kind |-> kind, services |-> {s},
                     text |-> NoEntries, next |-> NoState], {})

(* service_management_disable.                                             *)
Disable(h, s) == Status(s) = "Enabled" /\ Row(h, "disable", s)

(* service_management_remove, of an enabled or a disabled service.         *)
Remove(h, s) == Status(s) # "Available" /\ Row(h, "remove", s)

(* service_management_repair of an enabled service, and the repair that    *)
(* resuming project initialisation offers: repair_pending_project_init_    *)
(* config restores the entries of the client's current job, disabled or    *)
(* removed since or not, then writes the state it read at the start.       *)
(* Nothing is written if the config is complete and as the job left it.    *)
(* (The repair of a service that is not enabled is Enable.)                *)
Repair(h) ==
    LET c == ClientOf[h]
        listed == state.job[c]
        text == Activate(config[c], listed)
    IN
    /\ listed # {}
    /\ ~Conflict(config[c], listed)
    /\ {text, state.digest[c]} # {config[c]}
    /\ Start(h, "config",
             [kind |-> "repair", services |-> listed, text |-> text,
              next |-> Repaired(c, listed)],
             IF listed \cap off[c] # {} THEN {"repaired"} ELSE {})

(* record_project_init_service_decision, for any services.                 *)
Decide(h, services, choice) ==
    /\ services # {}
    /\ Start(h, "state",
             [kind |-> "decide", services |-> services, text |-> NoEntries,
              next |-> [state EXCEPT !.decision =
                          [s \in Services |->
                             IF s \in services THEN choice ELSE @[s]]]],
             IF \E s \in services : state.decision[s] = "disabled"
               THEN {"redecided"} ELSE {})

-------------------------------------------------------------------------------
(* Their reads and writes.                                                 *)

Return(h) ==
    /\ pc' = [pc EXCEPT ![h] = "idle"]
    /\ work' = [work EXCEPT ![h] = NoWork]

(* Variant: the entry is left to the user.                                 *)
ExposureLeft(h) == {}

(* _remove_service_client_exposure: only one client's owned entries are    *)
(* taken out; whatever else has the name is preserved.                     *)
Exposure(h) ==
    IF ClientOf[h] \in Removing
      THEN config[ClientOf[h]].managed \cap work[h].services ELSE {}

(* The config is read; it is rewritten only if there is an entry.          *)
TakeOff(h) ==
    LET cfg == config[ClientOf[h]] IN
    /\ pc[h] = "row"
    /\ pc' = [pc EXCEPT ![h] = IF Exposure(h) = {} THEN "read" ELSE "config"]
    /\ work' = [work EXCEPT ![h].text = [cfg EXCEPT !.managed = @ \ Exposure(h)]]
    /\ UNCHANGED <<state, config, off, spent, mishaps>>

(* The config is rewritten in place.                                       *)
WriteConfig(h) ==
    LET c == ClientOf[h] IN
    /\ pc[h] = "config"
    /\ config' = [config EXCEPT ![c] = work[h].text]
    /\ pc' = [pc EXCEPT ![h] =
                IF work[h].kind \in {"disable", "remove"} THEN "read" ELSE "state"]
    /\ off' = [off EXCEPT ![c] = IF work[h].kind = "apply"
                                   THEN @ \ work[h].services ELSE @]
    /\ UNCHANGED <<state, work, spent, mishaps>>

(* _write_disabled_decision touches the decision only.                     *)
Disabled(services) ==
    [state EXCEPT !.decision = [s \in Services |->
                                  IF s \in services THEN "disabled" ELSE @[s]]]

(* Variants: the service record is kept; the decision is no known one.      *)
RemovedDecisionOnly(services) ==
    [state EXCEPT !.decision = [s \in Services |->
                                  IF s \in services THEN "none" ELSE @[s]]]

(* _write_removed_service_state drops the service and its decision; the    *)
(* jobs keep listing it.                                                   *)
Removed(services) ==
    [state EXCEPT !.services = @ \ services,
                  !.decision = [s \in Services |->
                                  IF s \in services THEN "none" ELSE @[s]]]

(* Disable and remove read the state again after the config is written.    *)
ReadState(h) ==
    /\ pc[h] = "read"
    /\ pc' = [pc EXCEPT ![h] = "state"]
    /\ work' = [work EXCEPT ![h].next =
                  IF work[h].kind = "disable" THEN Disabled(work[h].services)
                  ELSE Removed(work[h].services)]
    /\ UNCHANGED <<state, config, off, spent, mishaps>>

(* write_state_atomic: what was computed replaces what is there.           *)
WriteState(h) ==
    LET c == ClientOf[h] IN
    /\ pc[h] = "state"
    /\ state' = work[h].next
    /\ off' = [off EXCEPT ![c] =
                 IF c \in Removing /\ work[h].kind \in {"disable", "remove"}
                   THEN @ \cup work[h].services ELSE @]
    /\ Return(h)
    /\ UNCHANGED <<config, spent, mishaps>>

(* A helper dies, at worst in the middle of rewriting a config.            *)
Crash(h) ==
    /\ pc[h] # "idle"
    /\ spent.crashes < MaxCrashes
    /\ spent' = [spent EXCEPT !.crashes = @ + 1]
    /\ Return(h)
    /\ \/ /\ mishaps' = mishaps \cup {"cut"}
          /\ UNCHANGED config
       \/ /\ pc[h] = "config"
          /\ config' = [config EXCEPT ![ClientOf[h]] = NoEntries]
          /\ mishaps' = mishaps \cup {"torn"}
    /\ UNCHANGED <<state, off>>

(* The user takes a name for an entry of his own, or deletes an owned one. *)
Edit(c, s) ==
    /\ spent.edits < MaxEdits
    /\ spent' = [spent EXCEPT !.edits = @ + 1]
    /\ \/ /\ s \notin config[c].managed \cup config[c].own
          /\ config' = [config EXCEPT ![c].own = @ \cup {s}]
          /\ UNCHANGED mishaps
       \/ /\ s \in config[c].managed
          /\ config' = [config EXCEPT ![c].managed = @ \ {s}]
          /\ mishaps' = mishaps \cup {"drift"}
    /\ UNCHANGED <<state, pc, work, off>>

Continue(h) == TakeOff(h) \/ WriteConfig(h) \/ ReadState(h) \/ WriteState(h)

Next ==
    \/ \E h \in Helpers :
         \/ \E S \in SUBSET Services : Install(h, S)
         \/ \E s \in Services : Enable(h, s) \/ Disable(h, s) \/ Remove(h, s)
         \/ Repair(h)
         \/ \E S \in SUBSET Services, choice \in {"declined", "deferred"} :
              Decide(h, S, choice)
         \/ Continue(h)
         \/ Crash(h)
    \/ \E c \in Clients, s \in Services : Edit(c, s)

Spec == Init /\ [][Next]_vars

-------------------------------------------------------------------------------
(* Properties.                                                             *)

(* A service disabled or removed through a client is not exposed to it     *)
(* until it is enabled again.  "stop exposing a service to the current     *)
(* project/client" is what disabling is for.                               *)
OffUntilEnabled ==
    \A c \in Removing : off[c] \cap config[c].managed = {}

(* What brings such an entry back against the user's choice is a repair    *)
(* of a job that still lists the service, or two calls that rewrite one    *)
(* config at the same time: no crash does, no call through another client  *)
(* and no installation of other services.                                  *)
OffUnlessRepaired ==
    mishaps \cap {"clash", "repaired"} = {} => OffUntilEnabled

(* A service listed as Enabled is in some client's config: disabling takes *)
(* the entry out and records the decision, enabling writes the entry first.*)
(* Between calls this can only fail after calls overlapped, a helper died  *)
(* or the user deleted entries, or when a disabled service was declined or *)
(* deferred, which makes it Enabled again without an entry.                *)
EnabledIsConfigured ==
    Busy = {} /\ mishaps \cap {"overlap", "cut", "torn", "drift", "redecided"} = {} =>
        \A s \in Services :
            Status(s) = "Enabled" => \E c \in Clients : s \in config[c].managed
===============================================================================
