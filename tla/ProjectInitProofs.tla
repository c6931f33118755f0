--------------------------- MODULE ProjectInitProofs ---------------------------
(***************************************************************************)
(* Theorems about ProjectInit, for any number of helpers, clients and      *)
(* services and whatever the bounds.                                       *)
(***************************************************************************)
EXTENDS ProjectInit, FiniteSetTheorems, TLAPS

(* Receipts that are cached or in use have been issued.                    *)
ReceiptsIssued ==
    /\ durable.receipt \in 0..Len(receipts)
    /\ \A h \in Helpers : /\ mem[h].receipt \in 0..Len(receipts)
                          /\ work[h].receipt \in 0..Len(receipts)

(* What a handler under way is, label by label.                            *)
InPlace(h) ==
    /\ pc[h] = "idle" <=> work[h].kind = "none"
    /\ pc[h] \in {"reset", "erase"} <=> work[h].kind = "reset"
    /\ pc[h] = "erase" => work[h].left # <<>>
    /\ pc[h] \in {"provision", "plan", "consume"} => work[h].kind = "apply"
    /\ pc[h] = "config" => work[h].kind \in {"apply", "repair"}
    /\ work[h].kind = "apply" => work[h].plan \in Plan

TypeInv == TypeOK /\ ReceiptsIssued /\ \A h \in Helpers : InPlace(h)

(* No two handlers under way clash.                                        *)
NoClash == \A g, h \in Busy : g # h => ~Clash(work[g], work[h])

(* The jobs of the state file are configured.                              *)
JobsConfigured == \A c \in ClientSet : state.jobs[c] \subseteq config[c].managed

(* The state about to be written names only jobs that are configured, or   *)
(* will be by the config that is written first.                            *)
NextConfigured(h) ==
    pc[h] \in {"config", "state"} =>
        \A c \in ClientSet :
            work[h].next.jobs[c] \subseteq
                IF pc[h] = "config" /\ c = work[h].client
                  THEN work[h].text.managed ELSE config[c].managed

(* The text about to be written keeps every owned entry that is there and  *)
(* has the ones of the plan.                                               *)
TextKeepsManaged(h) ==
    /\ pc[h] \in {"plan", "config"} =>
          config[work[h].client].managed \subseteq work[h].text.managed
    /\ pc[h] = "plan" => work[h].plan.id.services \subseteq work[h].text.managed

ResetHasNoJobs(h) ==
    pc[h] \in {"reset", "erase"} => \A c \in ClientSet : state.jobs[c] = {}

Prepared(h) == NextConfigured(h) /\ TextKeepsManaged(h) /\ ResetHasNoJobs(h)

InstallKept == NoClash /\ JobsConfigured /\ \A h \in Helpers : Prepared(h)

InstallInv == mishaps \cap {"clash", "torn", "drift"} = {} => InstallKept

(* The text about to be written has every entry the user has taken.        *)
EntriesKept ==
    /\ \A c \in ClientSet : edits[c] \subseteq config[c].own
    /\ \A h \in Helpers :
         /\ pc[h] \in {"plan", "config"} => edits[work[h].client] \subseteq work[h].text.own
         /\ pc[h] = "erase" => edits[Head(work[h].left)] \subseteq work[h].text.own

EntriesInv == "torn" \notin mishaps => EntriesKept

-------------------------------------------------------------------------------
(* Types.                                                                  *)

LEMMA NoWorkType ==
    /\ NoServices \in [ClientSet -> SUBSET Services]
    /\ NoState \in State
    /\ NoEntries \in Config
    /\ NoRecords \in Records
    /\ Clients[1] \in ClientSet
    /\ NoWork \in Work
<1>1. NoServices \in [ClientSet -> SUBSET Services]
  BY DEF NoServices
<1>2. NoState \in State
  BY <1>1 DEF NoState, State
<1>3. NoEntries \in Config
  BY DEF NoEntries, Config
<1>r. NoRecords \in Records
  BY <1>1 DEF NoRecords, Records
<1>4. Clients[1] \in ClientSet
  BY ClientAssumption DEF ClientSet
<1>5. QED
  BY <1>1, <1>2, <1>3, <1>4, <1>r DEF NoWork, Work

LEMMA ActivateType ==
    ASSUME NEW cfg \in Config, NEW S \in SUBSET Services
    PROVE  /\ Activate(cfg, S) \in Config
           /\ Activate(cfg, S).managed = cfg.managed \cup S
           /\ Activate(cfg, S).own = cfg.own
BY DEF Activate, Config

LEMMA ActivatedType ==
    ASSUME state \in State, NEW c \in ClientSet, NEW S \in SUBSET Services
    PROVE  /\ Activated(c, S) \in State
           /\ Activated(c, S).jobs[c] = S
           /\ \A k \in ClientSet \ {c} :
                 Activated(c, S).jobs[k] \subseteq state.jobs[k]
<1> DEFINE jobs == IF state.form = "valid" THEN state.jobs ELSE NoServices
<1>1. jobs \in [ClientSet -> SUBSET Services]
  BY NoWorkType DEF State
<1>2. \A k \in ClientSet : jobs[k] \subseteq state.jobs[k]
  BY DEF NoServices
<1>3. [jobs EXCEPT ![c] = S] \in [ClientSet -> SUBSET Services]
  BY <1>1
<1>4. (IF state.form = "valid" THEN state.declined \ S ELSE {}) \in SUBSET Services
  BY DEF State
<1>5. QED
  BY <1>1, <1>2, <1>3, <1>4 DEF Activated, State

LEMMA DeclinedType ==
    ASSUME state \in State, NEW S \in SUBSET Services
    PROVE  Declined(S) \in State /\ Declined(S).jobs = state.jobs
BY DEF Declined, State

LEMMA CachedType ==
    ASSUME TypeInv, NEW h \in Helpers, NEW plan
    PROVE  /\ CachedPlan(h) \in Plan \cup {NoPlan}
           /\ CachedReceipt(h, plan) \in 0..Len(receipts)
<1>1. CachedPlan(h) \in Plan \cup {NoPlan}
  BY DEF TypeInv, TypeOK, Cache, CachedPlan
<1>2. CachedReceipt(h, plan) \in 0..Len(receipts)
  BY DEF TypeInv, TypeOK, ReceiptsIssued, CachedReceipt
<1>3. QED
  BY <1>1, <1>2

(* A handler starts, returns, or goes on.                                  *)
LEMMA StartType ==
    ASSUME TypeInv, NEW h \in Helpers, NEW label \in Label, NEW w \in Work,
           Start(h, label, w)
    PROVE  /\ pc' \in [Helpers -> Label] /\ work' \in [Helpers -> Work]
           /\ mishaps' \in SUBSET {"clash", "torn", "drift", "damage"}
           /\ pc'[h] = label /\ work'[h] = w
           /\ \A g \in Helpers \ {h} : pc'[g] = pc[g] /\ work'[g] = work[g]
<1>1. pc' \in [Helpers -> Label] /\ work' \in [Helpers -> Work]
  BY DEF TypeInv, TypeOK, Start, Goto
<1>2. mishaps' \in SUBSET {"clash", "torn", "drift", "damage"}
  BY DEF TypeInv, TypeOK, Start
<1>3. QED
  BY <1>1, <1>2 DEF TypeInv, TypeOK, Start, Goto

LEMMA ReturnType ==
    ASSUME TypeInv, NEW h \in Helpers, Return(h)
    PROVE  /\ pc' \in [Helpers -> Label] /\ work' \in [Helpers -> Work]
           /\ pc'[h] = "idle" /\ work'[h] = NoWork
           /\ \A g \in Helpers \ {h} : pc'[g] = pc[g] /\ work'[g] = work[g]
           /\ InPlace(h)'
<1>1. /\ pc' \in [Helpers -> Label] /\ work' \in [Helpers -> Work]
      /\ pc'[h] = "idle" /\ work'[h] = NoWork
      /\ \A g \in Helpers \ {h} : pc'[g] = pc[g] /\ work'[g] = work[g]
  BY NoWorkType DEF TypeInv, TypeOK, Return, Goto, Label
<1>2. InPlace(h)'
  BY <1>1 DEF InPlace, NoWork
<1>3. QED
  BY <1>1, <1>2

(* What a handler's step leaves to be shown once the cache and the counters *)
(* are seen to be untouched.                                               *)
LEMMA FramedType ==
    ASSUME TypeInv,
           UNCHANGED <<cacheVars, expired, edits>>,
           state' \in State, config' \in [ClientSet -> Config], recorded' \in Records,
           pc' \in [Helpers -> Label], work' \in [Helpers -> Work],
           applied' \in [1..MaxApprovals -> [Helpers -> Nat]],
           spent' \in [crashes : Nat, resets : Nat, edits : Nat, decisions : Nat],
           mishaps' \in SUBSET {"clash", "torn", "drift", "damage"},
           NEW h \in Helpers,
           \A g \in Helpers \ {h} : pc'[g] = pc[g] /\ work'[g] = work[g],
           work'[h].receipt \in 0..Len(receipts),
           InPlace(h)'
    PROVE  TypeInv'
<1>1. TypeOK'
  BY DEF TypeInv, TypeOK, cacheVars
<1>2. ReceiptsIssued'
  BY DEF TypeInv, ReceiptsIssued, cacheVars
<1>3. \A g \in Helpers : InPlace(g)'
  <2> TAKE g \in Helpers
  <2>1. CASE g = h
    BY <2>1
  <2>2. CASE g # h
    BY <2>2 DEF TypeInv, InPlace
  <2>3. QED
    BY <2>1, <2>2
<1>4. QED
  BY <1>1, <1>2, <1>3 DEF TypeInv

LEMMA WorkType ==
    ASSUME NEW w \in Work
    PROVE  /\ \A cfg \in Config : [w EXCEPT !.text = cfg] \in Work
           /\ \A s \in State : [w EXCEPT !.next = s] \in Work
           /\ \A q \in Seq(ClientSet) : [w EXCEPT !.left = q] \in Work
BY DEF Work

LEMMA PlanType ==
    ASSUME NEW plan \in Plan
    PROVE  /\ plan.id.client \in ClientSet
           /\ plan.id.services \in SUBSET Services
           /\ plan.id.base \in State
           /\ plan.id.config \in Config
           /\ plan.challenge \in Nat
BY DEF Plan, PlanId

LEMMA SpentType ==
    ASSUME TypeInv
    PROVE  LET T == [crashes : Nat, resets : Nat, edits : Nat, decisions : Nat]
           IN  /\ spent \in T
               /\ [spent EXCEPT !.crashes = @ + 1] \in T
               /\ [spent EXCEPT !.resets = @ + 1] \in T
               /\ [spent EXCEPT !.edits = @ + 1] \in T
               /\ [spent EXCEPT !.decisions = @ + 1] \in T
<1>1. spent \in [crashes : Nat, resets : Nat, edits : Nat, decisions : Nat]
  BY DEF TypeInv, TypeOK
<1>2. QED
  BY <1>1

LEMMA PlanConfigType ==
    ASSUME TypeInv, NEW h \in Helpers, PlanConfig(h) PROVE TypeInv'
<1> DEFINE plan == work[h].plan
           cfg == Activate(config[work[h].client], plan.id.services)
<1>1. plan \in Plan /\ work[h] \in Work /\ work[h].client \in ClientSet
  BY DEF TypeInv, TypeOK, InPlace, PlanConfig, Work
<1>2. cfg \in Config
  BY <1>1, ActivateType, PlanType DEF TypeInv, TypeOK
<1>3. CASE Return(h)
  <2>1. work'[h].receipt \in 0..Len(receipts)
    BY <1>3, ReturnType DEF NoWork, TypeInv, TypeOK
  <2>2. QED
    BY <1>3, <2>1, FramedType, ReturnType DEF PlanConfig, fileVars, TypeInv, TypeOK
<1>4. CASE work' = [work EXCEPT ![h].text = cfg] /\ Goto(h, "plan")
  <2>1. work' \in [Helpers -> Work] /\ work'[h] = [work[h] EXCEPT !.text = cfg]
    BY <1>1, <1>2, <1>4, WorkType DEF TypeInv, TypeOK
  <2>2. pc' \in [Helpers -> Label] /\ pc'[h] = "plan"
    BY <1>4 DEF TypeInv, TypeOK, Goto, Label
  <2>3. \A g \in Helpers \ {h} : pc'[g] = pc[g] /\ work'[g] = work[g]
    BY <1>4 DEF TypeInv, TypeOK, Goto
  <2>4. work'[h].receipt \in 0..Len(receipts) /\ InPlace(h)'
    BY <1>1, <2>1, <2>2 DEF TypeInv, ReceiptsIssued, InPlace, PlanConfig, Work
  <2>5. QED
    BY <2>1, <2>2, <2>3, <2>4, FramedType DEF PlanConfig, fileVars, cacheVars, TypeInv, TypeOK
<1>5. QED
  BY <1>3, <1>4 DEF PlanConfig

LEMMA ReadStateType ==
    ASSUME TypeInv, NEW h \in Helpers, ReadState(h) PROVE TypeInv'
<1> DEFINE plan == work[h].plan
           next == Activated(work[h].client, plan.id.services)
<1>1. plan \in Plan /\ work[h] \in Work /\ work[h].client \in ClientSet
  BY DEF TypeInv, TypeOK, InPlace, ReadState, Work
<1>2. next \in State
  BY <1>1, ActivatedType, PlanType DEF TypeInv, TypeOK
<1>3. CASE Return(h)
  <2>1. work'[h].receipt \in 0..Len(receipts)
    BY <1>3, ReturnType DEF NoWork, TypeInv, TypeOK
  <2>2. QED
    BY <1>3, <2>1, FramedType, ReturnType DEF ReadState, fileVars, TypeInv, TypeOK
<1>4. CASE work' = [work EXCEPT ![h].next = next] /\ Goto(h, "config")
  <2>1. work' \in [Helpers -> Work] /\ work'[h] = [work[h] EXCEPT !.next = next]
    BY <1>1, <1>2, <1>4, WorkType DEF TypeInv, TypeOK
  <2>2. pc' \in [Helpers -> Label] /\ pc'[h] = "config"
    BY <1>4 DEF TypeInv, TypeOK, Goto, Label
  <2>3. \A g \in Helpers \ {h} : pc'[g] = pc[g] /\ work'[g] = work[g]
    BY <1>4 DEF TypeInv, TypeOK, Goto
  <2>4. work'[h].receipt \in 0..Len(receipts) /\ InPlace(h)'
    BY <1>1, <2>1, <2>2 DEF TypeInv, ReceiptsIssued, InPlace, ReadState, Work
  <2>5. QED
    BY <2>1, <2>2, <2>3, <2>4, FramedType DEF ReadState, fileVars, TypeInv, TypeOK
<1>5. QED
  BY <1>3, <1>4 DEF ReadState

LEMMA WriteConfigType ==
    ASSUME TypeInv, NEW h \in Helpers, WriteConfig(h) PROVE TypeInv'
<1>1. work[h] \in Work /\ work[h].text \in Config
  BY DEF TypeInv, TypeOK, Work
<1>2. config' \in [ClientSet -> Config]
  BY <1>1 DEF TypeInv, TypeOK, WriteConfig
<1>3. /\ pc' \in [Helpers -> Label] /\ pc'[h] = "state"
      /\ \A g \in Helpers \ {h} : pc'[g] = pc[g]
  BY DEF TypeInv, TypeOK, WriteConfig, Goto, Label
<1>4. InPlace(h)'
  BY <1>3 DEF TypeInv, InPlace, WriteConfig
<1>5. work'[h].receipt \in 0..Len(receipts)
  BY DEF TypeInv, ReceiptsIssued, WriteConfig
<1>6. QED
  BY <1>2, <1>3, <1>4, <1>5, FramedType DEF WriteConfig, TypeInv, TypeOK

LEMMA RecordsAfterType ==
    ASSUME TypeInv, NEW h \in Helpers PROVE RecordsAfter(h) \in Records
<1> DEFINE w == work[h]
           S == w.plan.id.services
           new == IF ~AboutToReplace(h) THEN S ELSE {}
<1>1. recorded.jobs \in [ClientSet -> SUBSET Services]
      /\ recorded.declined \in SUBSET Services /\ recorded \in Records
  BY DEF TypeInv, TypeOK, Records
<1>2. w.client \in ClientSet /\ w.next.declined \in SUBSET Services
  BY DEF TypeInv, TypeOK, Work, State
<1>3. CASE w.kind = "apply"
  <2>1. w.plan \in Plan
    BY <1>3 DEF TypeInv, InPlace
  <2>2. new \in SUBSET Services
    BY <2>1, PlanType
  <2> HIDE DEF new
  <2>3. [recorded.jobs EXCEPT ![w.client] = new] \in [ClientSet -> SUBSET Services]
    BY <1>1, <1>2, <2>2
  <2>4. recorded.declined \ S \in SUBSET Services
    BY <1>1
  <2>5. RecordsAfter(h) = [jobs |-> [recorded.jobs EXCEPT ![w.client] = new],
                           declined |-> recorded.declined \ S]
    BY <1>3 DEF RecordsAfter, new
  <2>6. QED
    BY <2>3, <2>4, <2>5 DEF Records
<1>4. CASE w.kind # "apply"
  <2>1. \A D \in SUBSET Services : [recorded EXCEPT !.declined = @ \cup D] \in Records
    BY <1>1 DEF Records
  <2>2. RecordsAfter(h) \in {recorded, [recorded EXCEPT !.declined = @ \cup w.next.declined]}
    BY <1>4 DEF RecordsAfter
  <2>3. QED
    BY <1>1, <1>2, <2>1, <2>2
<1>5. QED
  BY <1>3, <1>4

LEMMA WriteStateType ==
    ASSUME TypeInv, NEW h \in Helpers, WriteState(h) PROVE TypeInv'
<1>1. work[h] \in Work /\ work[h].next \in State
  BY DEF TypeInv, TypeOK, Work
<1>2. state' \in State
  <2>1. \A n \in Nat : [work[h].next EXCEPT !.rev = n] \in State
    BY <1>1 DEF State
  <2>2. state.rev \in Nat
    BY DEF TypeInv, TypeOK, State
  <2>3. CASE state' = state
    BY <2>3 DEF TypeInv, TypeOK
  <2>4. CASE state' = [work[h].next EXCEPT !.rev =
                         IF state.form = "valid" THEN state.rev + 1 ELSE 1]
    BY <2>1, <2>2, <2>4
  <2>5. QED
    BY <2>3, <2>4 DEF WriteState
<1>3. applied' \in [1..MaxApprovals -> [Helpers -> Nat]]
  <2>1. applied \in [1..MaxApprovals -> [Helpers -> Nat]]
    BY DEF TypeInv, TypeOK
  <2>2. CASE applied' = applied
    BY <2>1, <2>2
  <2>3. CASE applied' = [applied EXCEPT ![work[h].receipt][h] = @ + 1]
    <3>1. \A f \in [Helpers -> Nat] : [f EXCEPT ![h] = @ + 1] \in [Helpers -> Nat]
      OBVIOUS
    <3>2. QED
      BY <2>1, <2>3, <3>1
  <2>4. QED
    BY <2>2, <2>3 DEF WriteState
<1>r. recorded' \in Records
  BY RecordsAfterType DEF WriteState, TypeInv, TypeOK
<1>4. CASE Return(h)
  <2>1. work'[h].receipt \in 0..Len(receipts)
    BY <1>4, ReturnType DEF NoWork, TypeInv, TypeOK
  <2>2. QED
    BY <1>2, <1>3, <1>4, <1>r, <2>1, FramedType, ReturnType DEF WriteState, TypeInv, TypeOK
<1>5. CASE Goto(h, "consume") /\ work' = work /\ work[h].kind = "apply"
  <2>1. /\ pc' \in [Helpers -> Label] /\ pc'[h] = "consume"
        /\ \A g \in Helpers \ {h} : pc'[g] = pc[g]
    BY <1>5 DEF TypeInv, TypeOK, Goto, Label
  <2>2. InPlace(h)'
    BY <1>5, <2>1 DEF TypeInv, InPlace
  <2>3. work'[h].receipt \in 0..Len(receipts)
    BY <1>5 DEF TypeInv, ReceiptsIssued
  <2>4. QED
    BY <1>2, <1>3, <1>5, <1>r, <2>1, <2>2, <2>3, FramedType DEF WriteState, TypeInv, TypeOK
<1>6. QED
  BY <1>4, <1>5 DEF WriteState

LEMMA ReadOwnedType ==
    ASSUME TypeInv, NEW h \in Helpers, ReadOwned(h) PROVE TypeInv'
<1> DEFINE left == work[h].left
           c == Head(left)
           text == [config[c] EXCEPT !.managed = {}]
<1>1. work[h] \in Work /\ left \in Seq(ClientSet)
  BY DEF TypeInv, TypeOK, Work
<1>2. CASE Return(h)
  <2>1. work'[h].receipt \in 0..Len(receipts)
    BY <1>2, ReturnType DEF NoWork, TypeInv, TypeOK
  <2>2. QED
    BY <1>2, <2>1, FramedType, ReturnType DEF ReadOwned, fileVars, TypeInv, TypeOK
<1>3. CASE left # <<>> /\ work' = [work EXCEPT ![h].left = Tail(@)] /\ UNCHANGED pc
  <2>1. Tail(left) \in Seq(ClientSet)
    BY <1>1, <1>3
  <2>2. work' \in [Helpers -> Work] /\ work'[h] = [work[h] EXCEPT !.left = Tail(left)]
    <3>1. work' = [work EXCEPT ![h] = [work[h] EXCEPT !.left = Tail(left)]]
      BY <1>3
    <3>2. [work[h] EXCEPT !.left = Tail(left)] \in Work
      BY <1>1, <2>1, WorkType
    <3>3. QED
      BY <3>1, <3>2 DEF TypeInv, TypeOK
  <2>3. \A g \in Helpers \ {h} : work'[g] = work[g]
    BY <1>3 DEF TypeInv, TypeOK
  <2>4. work'[h].receipt \in 0..Len(receipts) /\ InPlace(h)'
    BY <1>1, <1>3, <2>2 DEF TypeInv, ReceiptsIssued, InPlace, ReadOwned, Work
  <2>5. QED
    BY <1>3, <2>2, <2>3, <2>4, FramedType DEF ReadOwned, fileVars, TypeInv, TypeOK
<1>4. CASE left # <<>> /\ work' = [work EXCEPT ![h].text = text] /\ Goto(h, "erase")
  <2>1. text \in Config
    <3>1. c \in ClientSet
      BY <1>1, <1>4
    <3>2. \A cfg \in Config : [cfg EXCEPT !.managed = {}] \in Config
      BY DEF Config
    <3>3. QED
      BY <3>1, <3>2 DEF TypeInv, TypeOK
  <2> HIDE DEF text
  <2>2. work' \in [Helpers -> Work] /\ work'[h] = [work[h] EXCEPT !.text = text]
    BY <1>1, <1>4, <2>1, WorkType DEF TypeInv, TypeOK
  <2>3. pc' \in [Helpers -> Label] /\ pc'[h] = "erase"
        /\ \A g \in Helpers \ {h} : pc'[g] = pc[g] /\ work'[g] = work[g]
    BY <1>4 DEF TypeInv, TypeOK, Goto, Label
  <2>4. work'[h].receipt \in 0..Len(receipts) /\ InPlace(h)'
    BY <1>1, <1>4, <2>2, <2>3 DEF TypeInv, ReceiptsIssued, InPlace, ReadOwned, Work
  <2>5. QED
    BY <2>2, <2>3, <2>4, FramedType DEF ReadOwned, fileVars, TypeInv, TypeOK
<1>5. QED
  BY <1>2, <1>3, <1>4 DEF ReadOwned

LEMMA EraseOwnedType ==
    ASSUME TypeInv, NEW h \in Helpers, EraseOwned(h) PROVE TypeInv'
<1> DEFINE left == work[h].left
<1>1. work[h] \in Work /\ work[h].text \in Config
      /\ left \in Seq(ClientSet) /\ left # <<>> /\ pc[h] = "erase"
  BY DEF TypeInv, TypeOK, InPlace, EraseOwned, Work
<1>2. config' \in [ClientSet -> Config]
  BY <1>1 DEF EraseOwned, TypeInv, TypeOK
<1>3. work' \in [Helpers -> Work]
      /\ work'[h] = [work[h] EXCEPT !.left = Tail(left), !.text = NoEntries]
  <2>1. [work[h] EXCEPT !.left = Tail(left), !.text = NoEntries] \in Work
    <3>1. Tail(left) \in Seq(ClientSet)
      BY <1>1
    <3>2. [work[h] EXCEPT !.left = Tail(left)] \in Work
      BY <1>1, <3>1, WorkType
    <3>3. [[work[h] EXCEPT !.left = Tail(left)] EXCEPT !.text = NoEntries] \in Work
      BY <3>2, NoWorkType, WorkType
    <3>4. [[work[h] EXCEPT !.left = Tail(left)] EXCEPT !.text = NoEntries]
            = [work[h] EXCEPT !.left = Tail(left), !.text = NoEntries]
      OBVIOUS
    <3>5. QED
      BY <3>3, <3>4
  <2>2. work' = [work EXCEPT ![h] = [work[h] EXCEPT !.left = Tail(left), !.text = NoEntries]]
    BY DEF EraseOwned, TypeInv, TypeOK
  <2>3. QED
    BY <2>1, <2>2 DEF TypeInv, TypeOK
<1>4. pc' \in [Helpers -> Label] /\ pc'[h] = "reset"
      /\ \A g \in Helpers \ {h} : pc'[g] = pc[g] /\ work'[g] = work[g]
  BY DEF EraseOwned, Goto, Label, TypeInv, TypeOK
<1>5. work'[h].receipt \in 0..Len(receipts) /\ InPlace(h)'
  BY <1>1, <1>3, <1>4 DEF TypeInv, ReceiptsIssued, InPlace, Work
<1>6. QED
  BY <1>2, <1>3, <1>4, <1>5, FramedType DEF EraseOwned, TypeInv, TypeOK

LEMMA BeginType ==
    ASSUME TypeInv, NEW h \in Helpers, BeginRepair(h) \/ BeginReset(h)
                      \/ \E S \in SUBSET Services : BeginDecision(h, S)
    PROVE  TypeInv'
<1>1. ASSUME NEW label \in {"config", "state", "reset"}, NEW w \in Work,
             Start(h, label, w), w.receipt = 0,
             label = "config" => w.kind = "repair",
             label = "state" => w.kind = "decide",
             label = "reset" => w.kind = "reset",
             state' \in State, recorded' \in Records,
             UNCHANGED <<config, cacheVars, expired, applied, edits>>,
             spent' \in [crashes : Nat, resets : Nat, edits : Nat, decisions : Nat]
      PROVE  TypeInv'
  <2>1. InPlace(h)'
    BY <1>1, StartType DEF InPlace, Label
  <2>2. work'[h].receipt \in 0..Len(receipts)
    BY <1>1, StartType DEF Label, TypeInv, TypeOK
  <2>3. /\ pc' \in [Helpers -> Label] /\ work' \in [Helpers -> Work]
        /\ mishaps' \in SUBSET {"clash", "torn", "drift", "damage"}
        /\ \A g \in Helpers \ {h} : pc'[g] = pc[g] /\ work'[g] = work[g]
    BY <1>1, StartType DEF Label
  <2>4. config' \in [ClientSet -> Config] /\ applied' \in [1..MaxApprovals -> [Helpers -> Nat]]
    BY <1>1 DEF TypeInv, TypeOK
  <2>5. QED
    BY <1>1, <2>1, <2>2, <2>3, <2>4, FramedType
<1>2. CASE BeginRepair(h)
  <2> DEFINE c == ClientOf[h]
             w == [NoWork EXCEPT !.kind = "repair", !.client = c, !.next = state,
                     !.text = Activate(config[c], state.jobs[c])]
  <2>1. c \in ClientSet
    BY ClientAssumption
  <2>2. Activate(config[c], state.jobs[c]) \in Config /\ state \in State
    <3>1. config[c] \in Config /\ state \in State
      BY <2>1 DEF TypeInv, TypeOK
    <3>2. state.jobs[c] \in SUBSET Services
      BY <2>1, <3>1 DEF State
    <3>3. QED
      BY <3>1, <3>2, ActivateType
  <2>3. w \in Work /\ w.receipt = 0 /\ w.kind = "repair"
    BY <2>1, <2>2, NoWorkType DEF NoWork, Work
  <2>4. Start(h, "config", w)
    BY <1>2 DEF BeginRepair
  <2>5. QED
    BY <1>1, <1>2, <2>3, <2>4, SpentType DEF BeginRepair, fileVars, TypeInv, TypeOK
<1>3. ASSUME NEW S \in SUBSET Services, BeginDecision(h, S) PROVE TypeInv'
  <2> DEFINE w == [NoWork EXCEPT !.kind = "decide", !.client = ClientOf[h],
                     !.next = Declined(S)]
  <2>1. Declined(S) \in State
    BY DeclinedType DEF TypeInv, TypeOK
  <2>2. w \in Work /\ w.receipt = 0 /\ w.kind = "decide"
    BY <2>1, NoWorkType, ClientAssumption DEF NoWork, Work
  <2>3. Start(h, "state", w)
    BY <1>3 DEF BeginDecision
  <2>4. QED
    BY <1>1, <1>3, <2>2, <2>3, SpentType DEF BeginDecision, fileVars, TypeInv, TypeOK
<1>4. CASE BeginReset(h)
  <2> DEFINE w == [NoWork EXCEPT !.kind = "reset", !.left = Clients]
  <2>1. w \in Work /\ w.receipt = 0 /\ w.kind = "reset"
    BY NoWorkType, ClientAssumption DEF NoWork, Work
  <2>2. Start(h, "reset", w)
    BY <1>4 DEF BeginReset
  <2>3. state' \in State /\ recorded' \in Records
    BY <1>4, NoWorkType DEF BeginReset
  <2>4. QED
    BY <1>1, <1>4, <2>1, <2>2, <2>3, SpentType DEF BeginReset
<1>5. QED
  BY <1>2, <1>3, <1>4

(* The steps that change the cache.                                        *)
LEMMA CacheType ==
    ASSUME TypeInv, UNCHANGED <<state, config, recorded, edits>>,
           NEW h \in Helpers,
           NEW m \in [plan : Plan \cup {NoPlan}, receipt : Nat,
                      consumed : SUBSET (1..Len(receipts'))],
           mem' = [mem EXCEPT ![h] = m], m.receipt \in 0..Len(receipts'),
           durable' \in Cache, durable'.receipt \in 0..Len(receipts'),
           shown' \in [Helpers -> Plan \cup {NoPlan}],
           receipts' \in Seq([plan : Plan, shown : Plan]),
           Len(receipts') >= Len(receipts),
           proposals' \in Nat, proposals' >= proposals, expired' = expired,
           applied' = applied, spent' = spent,
           mishaps' \in SUBSET {"clash", "torn", "drift", "damage"},
           pc' \in [Helpers -> Label], work' \in [Helpers -> Work],
           \A g \in Helpers : work'[g].receipt \in 0..Len(receipts') /\ InPlace(g)'
    PROVE  TypeInv'
<1>1. Len(receipts) \in Nat /\ Len(receipts') \in Nat
  BY DEF TypeInv, TypeOK
<1>2. mem' \in [Helpers -> [plan : Plan \cup {NoPlan}, receipt : Nat,
                            consumed : SUBSET (1..Len(receipts'))]]
  <2>1. \A g \in Helpers : mem[g] \in [plan : Plan \cup {NoPlan}, receipt : Nat,
                                      consumed : SUBSET (1..Len(receipts'))]
    BY <1>1 DEF TypeInv, TypeOK
  <2>2. QED
    BY <2>1 DEF TypeInv, TypeOK
<1>3. TypeOK'
  BY <1>2 DEF TypeInv, TypeOK
<1>4. ReceiptsIssued'
  BY <1>1 DEF TypeInv, TypeOK, ReceiptsIssued
<1>5. QED
  BY <1>3, <1>4 DEF TypeInv

LEMMA ProposeType ==
    ASSUME TypeInv, NEW h \in Helpers, NEW S \in SUBSET Services, NEW r \in BOOLEAN,
           Propose(h, S, r)
    PROVE  TypeInv'
<1> DEFINE c == ClientOf[h]
           plan == [id |-> [client |-> c, services |-> S,
                            base |-> state, config |-> config[c]],
                    challenge |-> proposals + 1]
<1>1. plan \in Plan
  BY ClientAssumption DEF Plan, PlanId, TypeInv, TypeOK
<1>2. mem[h] \in [plan : Plan \cup {NoPlan}, receipt : Nat,
                  consumed : SUBSET (1..Len(receipts))]
  BY DEF TypeInv, TypeOK
<1>3. [mem[h] EXCEPT !.plan = plan] \in [plan : Plan \cup {NoPlan}, receipt : Nat,
                                         consumed : SUBSET (1..Len(receipts))]
      /\ [mem[h] EXCEPT !.plan = plan].receipt = mem[h].receipt
  BY <1>1, <1>2
<1>4. mem' = [mem EXCEPT ![h] = [mem[h] EXCEPT !.plan = plan]]
  BY DEF Propose
<1>5. durable' \in Cache /\ durable'.receipt = durable.receipt
  BY <1>1 DEF Propose, Cache, TypeInv, TypeOK
<1>6. shown' \in [Helpers -> Plan \cup {NoPlan}]
  BY <1>1 DEF Propose, TypeInv, TypeOK
<1>7. proposals' \in Nat /\ proposals' >= proposals
  BY DEF Propose, TypeInv, TypeOK
<1>8. /\ UNCHANGED <<state, config, recorded, pc, work, expired, receipts, applied, edits,
                     spent, mishaps>>
  BY DEF Propose, fileVars
<1>9. \A g \in Helpers : work'[g].receipt \in 0..Len(receipts') /\ InPlace(g)'
  BY <1>8 DEF TypeInv, ReceiptsIssued, InPlace
<1>10. Len(receipts') >= Len(receipts)
  BY <1>8 DEF TypeInv, TypeOK
<1>11. [mem[h] EXCEPT !.plan = plan].receipt \in 0..Len(receipts')
       /\ durable'.receipt \in 0..Len(receipts')
  BY <1>3, <1>5, <1>8 DEF TypeInv, ReceiptsIssued
<1>12. QED
  BY <1>3, <1>4, <1>5, <1>6, <1>7, <1>8, <1>9, <1>10, <1>11, CacheType DEF TypeInv, TypeOK

LEMMA ProcessType ==
    ASSUME NEW n \in Nat, NEW k \in Nat, n <= k, NEW plan \in Plan, NEW a \in Nat,
           NEW m \in [plan : Plan \cup {NoPlan}, receipt : Nat, consumed : SUBSET (1..n)]
    PROVE  /\ [m EXCEPT !.plan = plan, !.receipt = a]
                \in [plan : Plan \cup {NoPlan}, receipt : Nat, consumed : SUBSET (1..k)]
           /\ [m EXCEPT !.plan = plan, !.receipt = a].receipt = a
<1>1. 1..n \subseteq 1..k
  OBVIOUS
<1>2. m.consumed \in SUBSET (1..k)
  BY <1>1
<1>3. QED
  BY <1>2

LEMMA ApproveType ==
    ASSUME TypeInv, NEW h \in Helpers, Approve(h) PROVE TypeInv'
<1> DEFINE plan == CachedPlan(h)
           a == Len(receipts) + 1
           m == [mem[h] EXCEPT !.plan = plan, !.receipt = a]
<1>1. plan \in Plan /\ shown[h] \in Plan
  BY DEF Approve, CachedPlan, Cache, TypeInv, TypeOK
<1>2. receipts' \in Seq([plan : Plan, shown : Plan]) /\ Len(receipts') = a /\ a \in Nat
  <2>1. receipts \in Seq([plan : Plan, shown : Plan])
    BY DEF TypeInv, TypeOK
  <2>2. [plan |-> plan, shown |-> shown[h]] \in [plan : Plan, shown : Plan]
    BY <1>1
  <2>3. receipts' = Append(receipts, [plan |-> plan, shown |-> shown[h]])
    BY DEF Approve
  <2>4. QED
    BY <2>1, <2>2, <2>3
<1>3. Len(receipts) \in Nat
  BY DEF TypeInv, TypeOK
<1>4. mem[h] \in [plan : Plan \cup {NoPlan}, receipt : Nat,
                  consumed : SUBSET (1..Len(receipts))]
  BY DEF TypeInv, TypeOK
<1>5. m \in [plan : Plan \cup {NoPlan}, receipt : Nat,
             consumed : SUBSET (1..Len(receipts'))] /\ m.receipt = a
  <2>1. Len(receipts) <= Len(receipts') /\ Len(receipts') \in Nat
    BY <1>2, <1>3
  <2>2. QED
    BY <1>1, <1>2, <1>3, <1>4, <2>1, ProcessType
<1>6. mem' = [mem EXCEPT ![h] = m]
  BY DEF Approve
<1>7. durable' \in Cache /\ durable'.receipt = a
  BY <1>1, <1>2 DEF Approve, Cache
<1>8. UNCHANGED <<state, config, recorded, pc, work, shown, proposals, expired, applied,
                  edits, spent, mishaps>>
  BY DEF Approve, fileVars
<1>9. \A g \in Helpers : work'[g].receipt \in 0..Len(receipts') /\ InPlace(g)'
  BY <1>2, <1>3, <1>8 DEF TypeInv, ReceiptsIssued, InPlace
<1>10. Len(receipts') >= Len(receipts) /\ a \in 0..Len(receipts')
       /\ proposals' \in Nat /\ proposals' >= proposals
  BY <1>2, <1>3, <1>8 DEF TypeInv, TypeOK
<1>11. QED
  BY <1>2, <1>5, <1>6, <1>7, <1>8, <1>9, <1>10, CacheType DEF TypeInv, TypeOK

LEMMA BeginApplyType ==
    ASSUME TypeInv, NEW h \in Helpers, BeginApply(h) PROVE TypeInv'
<1> DEFINE plan == CachedPlan(h)
           a == CachedReceipt(h, plan)
           m == [mem[h] EXCEPT !.plan = plan, !.receipt = IF a # 0 THEN a ELSE @]
           w == [NoWork EXCEPT !.kind = "apply", !.plan = plan, !.receipt = a,
                    !.client = plan.id.client]
<1>1. plan \in Plan /\ a \in 0..Len(receipts)
  BY CachedType DEF BeginApply
<1>2. mem[h] \in [plan : Plan \cup {NoPlan}, receipt : Nat,
                  consumed : SUBSET (1..Len(receipts))]
  BY DEF TypeInv, TypeOK
<1>3. Len(receipts) \in Nat /\ mem[h].receipt \in 0..Len(receipts)
  BY DEF TypeInv, TypeOK, ReceiptsIssued
<1>4. m \in [plan : Plan \cup {NoPlan}, receipt : Nat,
             consumed : SUBSET (1..Len(receipts))] /\ m.receipt \in 0..Len(receipts)
  <2> DEFINE b == IF a # 0 THEN a ELSE mem[h].receipt
  <2>1. b \in 0..Len(receipts) /\ b \in Nat /\ Len(receipts) <= Len(receipts)
    BY <1>1, <1>3
  <2> HIDE DEF plan, b
  <2>2. [mem[h] EXCEPT !.plan = plan, !.receipt = b]
          \in [plan : Plan \cup {NoPlan}, receipt : Nat, consumed : SUBSET (1..Len(receipts))]
        /\ [mem[h] EXCEPT !.plan = plan, !.receipt = b].receipt = b
    BY <1>1, <1>2, <1>3, <2>1, ProcessType
  <2>3. QED
    BY <2>1, <2>2 DEF b
<1>5. mem' = [mem EXCEPT ![h] = m]
  BY DEF BeginApply
<1>6. UNCHANGED <<state, config, recorded, durable, shown, proposals, expired,
                  receipts, applied, edits, spent>>
  BY DEF BeginApply, fileVars
<1>7. w \in Work /\ w.receipt = a /\ w.kind = "apply" /\ w.plan = plan
  <2>1. plan.id.client \in ClientSet /\ a \in Nat /\ plan \in Plan \cup {NoPlan}
    BY <1>1, <1>3, PlanType
  <2> HIDE DEF plan, a
  <2>2. QED
    BY <2>1, NoWorkType DEF NoWork, Work
<1>8. /\ pc' \in [Helpers -> Label] /\ work' \in [Helpers -> Work]
      /\ mishaps' \in SUBSET {"clash", "torn", "drift", "damage"}
      /\ \A g \in Helpers : work'[g].receipt \in 0..Len(receipts') /\ InPlace(g)'
  <2>1. CASE Start(h, "provision", w)
    <3>1. /\ pc' \in [Helpers -> Label] /\ work' \in [Helpers -> Work]
          /\ mishaps' \in SUBSET {"clash", "torn", "drift", "damage"}
          /\ pc'[h] = "provision" /\ work'[h] = w
          /\ \A g \in Helpers \ {h} : pc'[g] = pc[g] /\ work'[g] = work[g]
      BY <1>7, <2>1, StartType DEF Label
    <3>2. InPlace(h)' /\ work'[h].receipt \in 0..Len(receipts')
      BY <1>1, <1>6, <1>7, <3>1 DEF InPlace
    <3>3. \A g \in Helpers \ {h} : InPlace(g)' /\ work'[g].receipt \in 0..Len(receipts')
      BY <1>6, <3>1 DEF TypeInv, InPlace, ReceiptsIssued
    <3>4. QED
      BY <3>1, <3>2, <3>3
  <2>2. CASE UNCHANGED <<pc, work, mishaps>>
    BY <1>6, <2>2 DEF TypeInv, TypeOK, ReceiptsIssued, InPlace
  <2>3. QED
    BY <2>1, <2>2 DEF BeginApply
<1>9. QED
  BY <1>3, <1>4, <1>5, <1>6, <1>8, CacheType DEF TypeInv, TypeOK, ReceiptsIssued

LEMMA ReturnedType ==
    ASSUME TypeInv, NEW h \in Helpers, Return(h), receipts' = receipts
    PROVE  \A g \in Helpers : work'[g].receipt \in 0..Len(receipts') /\ InPlace(g)'
<1>1. work'[h].receipt \in 0..Len(receipts') /\ InPlace(h)'
  BY ReturnType DEF TypeInv, TypeOK, NoWork
<1>2. ASSUME NEW g \in Helpers \ {h}
      PROVE  work'[g].receipt \in 0..Len(receipts') /\ InPlace(g)'
  BY ReturnType DEF TypeInv, ReceiptsIssued, InPlace
<1>3. QED
  BY <1>1, <1>2

LEMMA ConsumeType ==
    ASSUME TypeInv, NEW h \in Helpers, Consume(h) PROVE TypeInv'
<1> DEFINE a == work[h].receipt
<1>1. Return(h) /\ pc[h] = "consume"
  BY DEF Consume
<1>2. a \in 0..Len(receipts) /\ Len(receipts) \in Nat
  BY DEF TypeInv, TypeOK, ReceiptsIssued
<1>3. UNCHANGED <<state, config, recorded, shown, proposals, expired, receipts, applied,
                  edits, spent, mishaps>>
  BY DEF Consume, fileVars
<1>4. \A g \in Helpers : work'[g].receipt \in 0..Len(receipts') /\ InPlace(g)'
  BY <1>1, <1>3, ReturnedType
<1>5. EmptyCache \in Cache /\ EmptyCache.receipt \in 0..Len(receipts)
  BY <1>2 DEF EmptyCache, Cache
<1>6. durable' \in Cache /\ durable'.receipt \in 0..Len(receipts)
  BY <1>5 DEF Consume, TypeInv, TypeOK, ReceiptsIssued
<1>7. mem[h] \in [plan : Plan \cup {NoPlan}, receipt : Nat,
                  consumed : SUBSET (1..Len(receipts))]
      /\ mem[h].receipt \in 0..Len(receipts)
  BY DEF TypeInv, TypeOK, ReceiptsIssued
<1>8. /\ pc' \in [Helpers -> Label] /\ work' \in [Helpers -> Work]
      /\ shown' \in [Helpers -> Plan \cup {NoPlan}]
      /\ receipts' \in Seq([plan : Plan, shown : Plan]) /\ Len(receipts') >= Len(receipts)
      /\ proposals' \in Nat /\ proposals' >= proposals
      /\ mishaps' \in SUBSET {"clash", "torn", "drift", "damage"}
  BY <1>1, <1>2, <1>3, ReturnType DEF TypeInv, TypeOK
<1>9. CASE ReceiptsValid(h, a)
  <2> DEFINE m == [mem[h] EXCEPT !.consumed = @ \cup {a}]
  <2>1. a \in 1..Len(receipts)
    BY <1>2, <1>9 DEF ReceiptsValid
  <2>2. m \in [plan : Plan \cup {NoPlan}, receipt : Nat,
               consumed : SUBSET (1..Len(receipts))] /\ m.receipt = mem[h].receipt
    BY <1>7, <2>1
  <2>3. mem' = [mem EXCEPT ![h] = m]
    BY <1>9 DEF Consume
  <2> HIDE DEF m
  <2>4. QED
    BY <1>3, <1>4, <1>6, <1>7, <1>8, <2>2, <2>3, CacheType
<1>10. CASE ~ReceiptsValid(h, a)
  <2>1. mem' = mem
    BY <1>10 DEF Consume
  <2>2. mem' = [mem EXCEPT ![h] = mem[h]]
    BY <2>1 DEF TypeInv, TypeOK
  <2>3. QED
    BY <1>3, <1>4, <1>6, <1>7, <1>8, <2>2, CacheType
<1>11. QED
  BY <1>9, <1>10

LEMMA CrashType ==
    ASSUME TypeInv, NEW h \in Helpers, Crash(h) PROVE TypeInv'
<1>1. /\ Return(h) /\ mem' = [mem EXCEPT ![h] = FreshProcess]
      /\ spent' = [spent EXCEPT !.crashes = @ + 1]
      /\ UNCHANGED <<state, recorded, durable, shown, proposals, expired, receipts, applied,
                     edits>>
  BY DEF Crash
<1>2. spent' \in [crashes : Nat, resets : Nat, edits : Nat, decisions : Nat]
  BY <1>1, SpentType
<1>3. config' \in [ClientSet -> Config]
  <2>1. CASE config' = config
    BY <2>1 DEF TypeInv, TypeOK
  <2>2. CASE \E c \in ClientSet : config' = [config EXCEPT ![c] = NoEntries]
    BY <2>2, NoWorkType DEF TypeInv, TypeOK
  <2>3. QED
    BY <2>1, <2>2 DEF Crash
<1>4. mishaps' \in SUBSET {"clash", "torn", "drift", "damage"}
  BY DEF Crash, TypeInv, TypeOK
<1>5. FreshProcess \in [plan : Plan \cup {NoPlan}, receipt : Nat,
                        consumed : SUBSET (1..Len(receipts))]
  BY DEF FreshProcess
<1>6. mem' \in [Helpers -> [plan : Plan \cup {NoPlan}, receipt : Nat,
                            consumed : SUBSET (1..Len(receipts))]]
  BY <1>1, <1>5 DEF TypeInv, TypeOK
<1>7. TypeOK'
  BY <1>1, <1>2, <1>3, <1>4, <1>6, ReturnType DEF TypeInv, TypeOK
<1>8. \A g \in Helpers : work'[g].receipt \in 0..Len(receipts') /\ InPlace(g)'
  BY <1>1, ReturnedType
<1>9. \A g \in Helpers : mem'[g].receipt \in 0..Len(receipts')
  BY <1>1 DEF TypeInv, TypeOK, ReceiptsIssued, FreshProcess
<1>10. QED
  BY <1>1, <1>7, <1>8, <1>9 DEF TypeInv, ReceiptsIssued

LEMMA EnvironmentType ==
    ASSUME TypeInv, Expire \/ Damage \/ \E c \in ClientSet : Edit(c) PROVE TypeInv'
<1>1. CASE Expire
  <2>1. expired' \in 0..proposals'
    BY <1>1 DEF Expire, cacheVars, TypeInv, TypeOK
  <2>2. TypeOK'
    BY <1>1, <2>1 DEF Expire, cacheVars, fileVars, TypeInv, TypeOK
  <2>3. QED
    BY <1>1, <2>2 DEF Expire, cacheVars, TypeInv, ReceiptsIssued, InPlace
<1>2. CASE Damage
  <2>1. state' \in State
    <3>1. \A s \in State : [s EXCEPT !.form = "invalid"] \in State
      BY DEF State
    <3>2. QED
      BY <1>2, <3>1 DEF Damage, TypeInv, TypeOK
  <2>2. spent' \in [crashes : Nat, resets : Nat, edits : Nat, decisions : Nat]
    BY <1>2, SpentType DEF Damage
  <2>3. TypeOK'
    BY <1>2, <2>1, <2>2, NoWorkType DEF Damage, cacheVars, TypeInv, TypeOK
  <2>4. QED
    BY <1>2, <2>3 DEF Damage, cacheVars, TypeInv, ReceiptsIssued, InPlace
<1>3. ASSUME NEW c \in ClientSet, Edit(c) PROVE TypeInv'
  <2>1. spent' \in [crashes : Nat, resets : Nat, edits : Nat, decisions : Nat]
    BY <1>3, SpentType DEF Edit
  <2>2. \A cfg \in Config :
           /\ [cfg EXCEPT !.managed = {}] \in Config
           /\ \A s \in Services : [cfg EXCEPT !.own = @ \cup {s}] \in Config
    BY DEF Config
  <2>3. config' \in [ClientSet -> Config] /\ edits' \in [ClientSet -> SUBSET Services]
    <3>1. config[c] \in Config
      BY <1>3 DEF TypeInv, TypeOK
    <3>2. CASE \E s \in Services :
                 /\ config' = [config EXCEPT ![c].own = @ \cup {s}]
                 /\ edits' \in {edits, [edits EXCEPT ![c] = @ \cup {s}]}
      <4>1. PICK s \in Services :
                 /\ config' = [config EXCEPT ![c] = [config[c] EXCEPT !.own = @ \cup {s}]]
                 /\ edits' \in {edits, [edits EXCEPT ![c] = @ \cup {s}]}
        BY <3>2
      <4>2. config \in [ClientSet -> Config] /\ edits \in [ClientSet -> SUBSET Services]
        BY DEF TypeInv, TypeOK
      <4>3. [edits EXCEPT ![c] = @ \cup {s}] \in [ClientSet -> SUBSET Services]
        BY <4>2
      <4>4. QED
        BY <2>2, <3>1, <4>1, <4>2, <4>3
    <3>3. CASE config' = [config EXCEPT ![c].managed = {}] /\ edits' = edits
      <4>1. config' = [config EXCEPT ![c] = [config[c] EXCEPT !.managed = {}]]
        BY <3>3
      <4>2. QED
        BY <2>2, <3>1, <3>3, <4>1 DEF TypeInv, TypeOK
    <3>4. QED
      BY <1>3, <3>2, <3>3 DEF Edit
  <2>4. mishaps' \in SUBSET {"clash", "torn", "drift", "damage"}
    BY <1>3 DEF Edit, TypeInv, TypeOK
  <2>5. UNCHANGED <<state, recorded, cacheVars, pc, work, expired, applied>>
    BY <1>3 DEF Edit
  <2>6. TypeOK'
    BY <2>1, <2>3, <2>4, <2>5 DEF cacheVars, TypeInv, TypeOK
  <2>7. QED
    BY <2>5, <2>6 DEF cacheVars, TypeInv, ReceiptsIssued, InPlace
<1>4. QED
  BY <1>1, <1>2, <1>3

(* A reset goes from config to config, or returns.                         *)
LEMMA ResetSteps ==
    ASSUME TypeInv, NEW h \in Helpers, ReadOwned(h) \/ EraseOwned(h)
    PROVE  /\ pc[h] \in {"reset", "erase"}
           /\ UNCHANGED <<state, recorded, cacheVars, expired, applied, edits, spent, mishaps>>
           /\ \A g \in Helpers \ {h} : pc'[g] = pc[g] /\ work'[g] = work[g]
           /\ \/ Return(h)
              \/ /\ pc'[h] \in {"reset", "erase"}
                 /\ work'[h].kind = work[h].kind /\ work'[h].client = work[h].client
<1>1. pc[h] \in {"reset", "erase"}
      /\ UNCHANGED <<state, recorded, cacheVars, expired, applied, edits, spent, mishaps>>
  BY DEF ReadOwned, EraseOwned, fileVars
<1>2. work \in [Helpers -> Work] /\ pc \in [Helpers -> Label]
  BY DEF TypeInv, TypeOK
<1>3. CASE Return(h)
  BY <1>1, <1>3, ReturnType
<1>4. ASSUME NEW q, work' = [work EXCEPT ![h].left = q], pc' = pc, pc[h] = "reset"
      PROVE  /\ pc'[h] = "reset" /\ \A g \in Helpers \ {h} : pc'[g] = pc[g] /\ work'[g] = work[g]
             /\ work'[h].kind = work[h].kind /\ work'[h].client = work[h].client
  BY <1>2, <1>4 DEF Work
<1>5. ASSUME NEW t, work' = [work EXCEPT ![h].text = t], Goto(h, "erase")
      PROVE  /\ pc'[h] = "erase" /\ \A g \in Helpers \ {h} : pc'[g] = pc[g] /\ work'[g] = work[g]
             /\ work'[h].kind = work[h].kind /\ work'[h].client = work[h].client
  BY <1>2, <1>5 DEF Goto, Work
<1>6. CASE EraseOwned(h)
  <2>1. /\ pc'[h] = "reset" /\ \A g \in Helpers \ {h} : pc'[g] = pc[g] /\ work'[g] = work[g]
    BY <1>2, <1>6 DEF EraseOwned, Goto
  <2>2. work'[h] = [work[h] EXCEPT !.left = Tail(@), !.text = NoEntries] /\ work[h] \in Work
    BY <1>2, <1>6 DEF EraseOwned
  <2>3. work'[h].kind = work[h].kind /\ work'[h].client = work[h].client
    BY <2>2 DEF Work
  <2>4. QED
    BY <1>1, <2>1, <2>3
<1>7. CASE ReadOwned(h) /\ ~ Return(h)
  <2>1. \/ /\ pc[h] = "reset" /\ pc' = pc
           /\ \E q : work' = [work EXCEPT ![h].left = q]
        \/ /\ Goto(h, "erase")
           /\ \E t : work' = [work EXCEPT ![h].text = t]
    BY <1>7 DEF ReadOwned
  <2>2. QED
    BY <1>1, <1>4, <1>5, <2>1
<1>8. QED
  BY <1>3, <1>6, <1>7

LEMMA TypeInit == Init => TypeInv
<1> SUFFICES ASSUME Init PROVE TypeInv
  OBVIOUS
<1>1. state \in State /\ config \in [ClientSet -> Config]
  BY NoWorkType DEF Init
<1>2. durable \in Cache /\ durable.receipt = 0
  BY DEF Init, EmptyCache, Cache
<1>3. FreshProcess \in [plan : Plan \cup {NoPlan}, receipt : Nat,
                        consumed : SUBSET (1..Len(receipts))]
  BY DEF FreshProcess
<1>4. /\ receipts = <<>> /\ Len(receipts) = 0
      /\ receipts \in Seq([plan : Plan, shown : Plan])
  BY DEF Init
<1>5. /\ mem \in [Helpers -> [plan : Plan \cup {NoPlan}, receipt : Nat,
                              consumed : SUBSET (1..Len(receipts))]]
      /\ \A h \in Helpers : mem[h].receipt = 0
  BY <1>3 DEF Init, FreshProcess
<1>6. work \in [Helpers -> Work] /\ pc \in [Helpers -> Label]
  BY NoWorkType DEF Init, Label
<1>7. \A h \in Helpers : work[h].receipt = 0 /\ work[h].kind = "none" /\ pc[h] = "idle"
  BY DEF Init, NoWork
<1>8. /\ shown \in [Helpers -> Plan \cup {NoPlan}] /\ proposals = 0 /\ expired = 0
      /\ applied \in [1..MaxApprovals -> [Helpers -> Nat]]
      /\ recorded \in Records
      /\ edits \in [ClientSet -> SUBSET Services] /\ mishaps = {}
      /\ spent \in [crashes : Nat, resets : Nat, edits : Nat, decisions : Nat]
  BY NoWorkType DEF Init
<1>9. TypeOK
  BY <1>1, <1>2, <1>4, <1>5, <1>6, <1>8 DEF TypeOK
<1>10. QED
  BY <1>2, <1>4, <1>5, <1>7, <1>9 DEF TypeInv, ReceiptsIssued, InPlace

LEMMA TypeStep == TypeInv /\ [Next]_vars => TypeInv'
<1> SUFFICES ASSUME TypeInv, [Next]_vars PROVE TypeInv'
  OBVIOUS
<1>1. CASE UNCHANGED vars
  BY <1>1 DEF vars, TypeInv, TypeOK, ReceiptsIssued, InPlace
<1>2. ASSUME NEW h \in Helpers, Continue(h) PROVE TypeInv'
  BY <1>2, PlanConfigType, ReadStateType, WriteConfigType, WriteStateType,
     ConsumeType, ReadOwnedType, EraseOwnedType DEF Continue
<1>3. QED
  BY <1>1, <1>2, ProposeType, ApproveType, BeginApplyType, BeginType, CrashType,
     EnvironmentType DEF Next

(* Every variable keeps its type: in particular only receipts that were     *)
(* issued are cached, held or consumed.                                    *)
THEOREM TypeCorrect == Spec => []TypeOK
<1>1. TypeInv => TypeOK
  BY DEF TypeInv
<1>2. QED
  BY <1>1, TypeInit, TypeStep, PTL DEF Spec

-------------------------------------------------------------------------------
(* The entries of the user.                                                *)

LEMMA MishapsStay == TypeInv /\ [Next]_vars => mishaps \subseteq mishaps'
<1> SUFFICES ASSUME TypeInv, [Next]_vars PROVE mishaps \subseteq mishaps'
  OBVIOUS
<1>1. ASSUME NEW h \in Helpers, NEW label, NEW w, Start(h, label, w)
      PROVE  mishaps \subseteq mishaps'
  BY <1>1 DEF Start
<1>2. ASSUME NEW h \in Helpers,
             BeginRepair(h) \/ BeginReset(h) \/ BeginApply(h)
               \/ \E S \in SUBSET Services : BeginDecision(h, S)
      PROVE  mishaps \subseteq mishaps'
  BY <1>1, <1>2 DEF BeginRepair, BeginReset, BeginApply, BeginDecision
<1>3. ASSUME NEW h \in Helpers, Continue(h) \/ Crash(h) \/ Approve(h)
      PROVE  mishaps \subseteq mishaps'
  BY <1>3 DEF Continue, PlanConfig, ReadState, WriteConfig, WriteState, Consume,
     ReadOwned, EraseOwned, Crash, Approve
<1>4. ASSUME NEW h \in Helpers, NEW S \in SUBSET Services, NEW r \in BOOLEAN,
             Propose(h, S, r)
      PROVE  mishaps \subseteq mishaps'
  BY <1>4 DEF Propose
<1>5. ASSUME Expire \/ Damage \/ \E c \in ClientSet : Edit(c)
      PROVE  mishaps \subseteq mishaps'
  BY <1>5 DEF Expire, Damage, Edit
<1>6. CASE UNCHANGED vars
  BY <1>6 DEF vars
<1>7. QED
  BY <1>2, <1>3, <1>4, <1>5, <1>6 DEF Next

(* A step that takes no entry of the user's and gives no handler a text.   *)
LEMMA EntriesQuiet ==
    ASSUME EntriesKept, edits' = edits,
           \A c \in ClientSet : config[c].own \subseteq config'[c].own,
           \A g \in Helpers : pc'[g] \in {"plan", "config", "erase"} =>
              /\ pc[g] \in {"plan", "config", "erase"}
              /\ pc'[g] = "erase" <=> pc[g] = "erase"
              /\ work'[g].client = work[g].client /\ work'[g].text = work[g].text
              /\ work'[g].left = work[g].left
    PROVE  EntriesKept'
<1>1. \A c \in ClientSet : edits'[c] \subseteq config'[c].own
  BY DEF EntriesKept
<1>2. \A g \in Helpers :
         pc'[g] \in {"plan", "config"} => edits'[work'[g].client] \subseteq work'[g].text.own
  BY DEF EntriesKept
<1>3. \A g \in Helpers :
         pc'[g] = "erase" => edits'[Head(work'[g].left)] \subseteq work'[g].text.own
  BY DEF EntriesKept
<1>4. QED
  BY <1>1, <1>2, <1>3 DEF EntriesKept

LEMMA EntriesStep == TypeInv /\ EntriesInv /\ [Next]_vars => EntriesInv'
<1> SUFFICES ASSUME TypeInv, [Next]_vars, EntriesKept,
                    "torn" \notin mishaps'
             PROVE  EntriesKept'
  BY MishapsStay DEF EntriesInv
<1>1. ASSUME NEW h \in Helpers, PlanConfig(h) PROVE EntriesKept'
  <2> DEFINE c == work[h].client
             text == Activate(config[c], work[h].plan.id.services)
  <2>1. c \in ClientSet /\ config[c] \in Config /\ work[h].plan \in Plan
    BY <1>1 DEF TypeInv, TypeOK, Work, InPlace, PlanConfig
  <2>2. text.own = config[c].own
    BY <2>1, ActivateType, PlanType
  <2>3. config' = config /\ edits' = edits
    BY <1>1 DEF PlanConfig, fileVars
  <2>4. CASE Return(h)
    BY <2>3, <2>4, EntriesQuiet, ReturnType
  <2>5. CASE work' = [work EXCEPT ![h].text = text] /\ Goto(h, "plan")
    <3>1. work'[h].client = c /\ work'[h].text = text /\ pc'[h] = "plan"
      BY <2>5 DEF TypeInv, TypeOK, Work, Goto
    <3>2. \A g \in Helpers \ {h} : pc'[g] = pc[g] /\ work'[g] = work[g]
      BY <2>5 DEF TypeInv, TypeOK, Goto
    <3>3. QED
      BY <2>1, <2>2, <2>3, <3>1, <3>2 DEF EntriesKept
  <2>6. QED
    BY <1>1, <2>4, <2>5 DEF PlanConfig
<1>2. ASSUME NEW h \in Helpers, ReadState(h) PROVE EntriesKept'
  <2>1. config' = config /\ edits' = edits /\ pc[h] = "plan"
    BY <1>2 DEF ReadState, fileVars
  <2>2. CASE Return(h)
    BY <2>1, <2>2, EntriesQuiet, ReturnType
  <2>3. CASE Goto(h, "config")
             /\ \E s \in {Activated(work[h].client, work[h].plan.id.services)} :
                   work' = [work EXCEPT ![h].next = s]
    <3>1. /\ work'[h].client = work[h].client /\ work'[h].text = work[h].text
          /\ work'[h].left = work[h].left /\ pc'[h] = "config"
      BY <2>3 DEF TypeInv, TypeOK, Goto, Work
    <3>2. \A g \in Helpers \ {h} : pc'[g] = pc[g] /\ work'[g] = work[g]
      BY <2>3 DEF TypeInv, TypeOK, Goto
    <3>3. QED
      BY <2>1, <3>1, <3>2, EntriesQuiet
  <2>4. QED
    BY <1>2, <2>2, <2>3 DEF ReadState
<1>3. ASSUME NEW h \in Helpers, WriteConfig(h) PROVE EntriesKept'
  <2>1. /\ config' = [config EXCEPT ![work[h].client] = work[h].text]
        /\ edits' = edits /\ work' = work /\ pc[h] = "config"
    BY <1>3 DEF WriteConfig
  <2>2. pc' = [pc EXCEPT ![h] = "state"]
    BY <1>3 DEF WriteConfig, Goto
  <2>3. \A c \in ClientSet : edits[c] \subseteq config'[c].own
    BY <2>1 DEF EntriesKept, TypeInv, TypeOK
  <2>4. QED
    BY <2>1, <2>2, <2>3 DEF EntriesKept, TypeInv, TypeOK
<1>4. ASSUME NEW h \in Helpers, WriteState(h) \/ Consume(h) PROVE EntriesKept'
  <2>1. config' = config /\ edits' = edits
    BY <1>4 DEF WriteState, Consume, fileVars
  <2>2. Return(h) \/ (Goto(h, "consume") /\ work' = work)
    BY <1>4 DEF WriteState, Consume
  <2>3. CASE Return(h)
    BY <2>1, <2>3, EntriesQuiet, ReturnType
  <2>4. CASE Goto(h, "consume") /\ work' = work
    BY <2>1, <2>4, EntriesQuiet DEF Goto, TypeInv, TypeOK
  <2>5. QED
    BY <2>2, <2>3, <2>4
<1>5. ASSUME NEW h \in Helpers, ReadOwned(h) PROVE EntriesKept'
  <2> DEFINE c == Head(work[h].left)
             text == [config[c] EXCEPT !.managed = {}]
  <2>1. edits' = edits /\ config' = config /\ pc[h] = "reset" /\ work[h] \in Work
    BY <1>5 DEF ReadOwned, fileVars, TypeInv, TypeOK
  <2>2. CASE Return(h)
    BY <2>1, <2>2, EntriesQuiet, ReturnType
  <2>3. CASE pc' = pc /\ work' = [work EXCEPT ![h].left = Tail(@)]
    <3>1. \A g \in Helpers \ {h} : work'[g] = work[g]
      BY <2>3 DEF TypeInv, TypeOK
    <3>2. QED
      BY <2>1, <2>3, <3>1, EntriesQuiet
  <2>4. CASE /\ work[h].left # <<>>
             /\ work' = [work EXCEPT ![h].text = text] /\ Goto(h, "erase")
    <3>1. c \in ClientSet /\ config[c] \in Config
      <4>1. work[h].left \in Seq(ClientSet)
        BY <2>1 DEF Work
      <4>2. QED
        BY <2>4, <4>1 DEF TypeInv, TypeOK
    <3>2. text.own = config[c].own
      BY <3>1 DEF Config
    <3>3. work'[h] = [work[h] EXCEPT !.text = text]
      BY <2>4 DEF TypeInv, TypeOK
    <3>4. Head(work'[h].left) = c /\ work'[h].text.own = config[c].own
      BY <2>1, <3>2, <3>3 DEF Work
    <3>5. pc'[h] = "erase" /\ \A g \in Helpers \ {h} : pc'[g] = pc[g] /\ work'[g] = work[g]
      BY <2>4 DEF TypeInv, TypeOK, Goto
    <3> HIDE DEF c, text
    <3>6. QED
      BY <2>1, <3>1, <3>4, <3>5 DEF EntriesKept
  <2>5. QED
    BY <1>5, <2>2, <2>3, <2>4 DEF ReadOwned
<1>e. ASSUME NEW h \in Helpers, EraseOwned(h) PROVE EntriesKept'
  <2> DEFINE c == Head(work[h].left)
  <2>1. /\ config' = [config EXCEPT ![c] = work[h].text]
        /\ edits' = edits /\ pc[h] = "erase"
    BY <1>e DEF EraseOwned
  <2>2. edits[c] \subseteq work[h].text.own
    BY <2>1 DEF EntriesKept
  <2>3. \A k \in ClientSet : edits'[k] \subseteq config'[k].own
    BY <2>1, <2>2 DEF EntriesKept, TypeInv, TypeOK
  <2>4. pc'[h] = "reset" /\ \A g \in Helpers \ {h} : pc'[g] = pc[g] /\ work'[g] = work[g]
    BY <1>e DEF EraseOwned, Goto, TypeInv, TypeOK
  <2> HIDE DEF c
  <2>5. QED
    BY <2>1, <2>3, <2>4 DEF EntriesKept
<1>6. ASSUME NEW h \in Helpers, BeginRepair(h) PROVE EntriesKept'
  <2> DEFINE c == ClientOf[h]
             w == [NoWork EXCEPT !.kind = "repair", !.client = c, !.next = state,
                     !.text = Activate(config[c], state.jobs[c])]
  <2>1. c \in ClientSet /\ config[c] \in Config /\ state.jobs[c] \in SUBSET Services
    BY ClientAssumption DEF TypeInv, TypeOK, State
  <2>2. Activate(config[c], state.jobs[c]).own = config[c].own
    BY <2>1, ActivateType
  <2>3. /\ w.client = c /\ w.text = Activate(config[c], state.jobs[c])
        /\ w \in Work
    BY <2>1, ActivateType, NoWorkType DEF NoWork, Work, TypeInv, TypeOK
  <2>4. config' = config /\ edits' = edits /\ Start(h, "config", w)
    BY <1>6 DEF BeginRepair, fileVars
  <2>5. /\ work'[h].client = c /\ work'[h].text.own = config[c].own
        /\ pc'[h] = "config"
        /\ \A g \in Helpers \ {h} : pc'[g] = pc[g] /\ work'[g] = work[g]
    BY <2>2, <2>3, <2>4, StartType DEF Label
  <2>6. QED
    BY <2>1, <2>4, <2>5 DEF EntriesKept
<1>7. ASSUME NEW h \in Helpers,
             BeginReset(h) \/ BeginApply(h) \/ \E S \in SUBSET Services : BeginDecision(h, S)
      PROVE  EntriesKept'
  <2>1. config' = config /\ edits' = edits
    BY <1>7 DEF BeginReset, BeginApply, BeginDecision, fileVars
  <2>2. \/ UNCHANGED <<pc, work>>
        \/ \E label \in {"provision", "state", "reset"} :
              Goto(h, label) /\ \A g \in Helpers \ {h} : work'[g] = work[g]
    BY <1>7 DEF BeginReset, BeginApply, BeginDecision, Start, TypeInv, TypeOK
  <2>3. QED
    BY <2>1, <2>2, EntriesQuiet DEF Goto, TypeInv, TypeOK
<1>8. ASSUME NEW h \in Helpers, Crash(h) PROVE EntriesKept'
  <2>1. edits' = edits /\ Return(h) /\ config' = config
    BY <1>8 DEF Crash
  <2>2. QED
    BY <2>1, EntriesQuiet, ReturnType
<1>9. ASSUME NEW c \in ClientSet, Edit(c) PROVE EntriesKept'
  <2>1. UNCHANGED <<pc, work>>
    BY <1>9 DEF Edit
  <2>2. CASE config' = [config EXCEPT ![c].managed = {}] /\ edits' = edits
    BY <2>1, <2>2, EntriesQuiet DEF TypeInv, TypeOK, Config
  <2>3. ASSUME NEW s \in Services, config' = [config EXCEPT ![c].own = @ \cup {s}],
               edits' = IF Rewriting(c) THEN edits ELSE [edits EXCEPT ![c] = @ \cup {s}]
        PROVE  EntriesKept'
    <3>1. /\ \A k \in ClientSet : config[k].own \subseteq config'[k].own
          /\ s \in config'[c].own
      BY <2>3 DEF TypeInv, TypeOK, Config
    <3>2. CASE edits' = edits
      BY <2>1, <3>1, <3>2, EntriesQuiet
    <3>3. CASE ~ Rewriting(c) /\ edits' = [edits EXCEPT ![c] = @ \cup {s}]
      <4>1. \A h \in Helpers :
               /\ pc[h] \in {"plan", "config"} => work[h].client # c
               /\ pc[h] = "erase" => Head(work[h].left) # c
        BY <3>3 DEF Rewriting, Busy
      <4>2. /\ edits'[c] = edits[c] \cup {s}
            /\ \A k \in ClientSet \ {c} : edits'[k] = edits[k]
        BY <3>3 DEF TypeInv, TypeOK
      <4>3. \A k \in ClientSet : edits'[k] \subseteq config'[k].own
        BY <3>1, <4>2 DEF EntriesKept
      <4>4. ASSUME NEW h \in Helpers
            PROVE  /\ work[h].client \in ClientSet
                   /\ pc[h] = "erase" => Head(work[h].left) \in ClientSet
        <5>1. work[h].client \in ClientSet /\ work[h].left \in Seq(ClientSet)
          BY DEF TypeInv, TypeOK, Work
        <5>2. pc[h] = "erase" => work[h].left # <<>>
          BY DEF TypeInv, InPlace
        <5>3. QED
          BY <5>1, <5>2
      <4>5. QED
        BY <2>1, <4>1, <4>2, <4>3, <4>4 DEF EntriesKept
    <3>4. QED
      BY <2>3, <3>2, <3>3
  <2>4. QED
    BY <1>9, <2>2, <2>3 DEF Edit
<1>10. ASSUME UNCHANGED <<config, pc, work, edits>> PROVE EntriesKept'
  BY <1>10 DEF EntriesKept
<1>11. ASSUME NEW h \in Helpers, NEW S \in SUBSET Services, NEW r \in BOOLEAN,
              Propose(h, S, r)
       PROVE  EntriesKept'
  BY <1>10, <1>11 DEF Propose, fileVars
<1>12. ASSUME NEW h \in Helpers, Approve(h) PROVE EntriesKept'
  BY <1>10, <1>12 DEF Approve, fileVars
<1>13. CASE Expire \/ Damage \/ UNCHANGED vars
  BY <1>10, <1>13 DEF Expire, Damage, fileVars, vars
<1>14. QED
  BY <1>1, <1>2, <1>3, <1>4, <1>5, <1>e, <1>6, <1>7, <1>8, <1>9, <1>11, <1>12, <1>13
     DEF Next, Continue

(* An entry the user has taken while no handler was between its last read  *)
(* of that config and its write survives every plan, apply, repair and     *)
(* reset, of any session.                                                  *)
THEOREM EntriesSafety == Spec => []UserEntriesKept
<1>1. Init => EntriesInv
  BY DEF Init, EntriesInv, EntriesKept, NoServices
<1>2. EntriesInv => UserEntriesKept
  BY DEF EntriesInv, EntriesKept, UserEntriesKept
<1>3. QED
  BY <1>1, <1>2, TypeInit, TypeStep, EntriesStep, PTL DEF Spec

-------------------------------------------------------------------------------
(* Installed and configured.                                               *)

LEMMA NoClashQuiet ==
    ASSUME NoClash,
           \A g \in Helpers : pc'[g] # "idle" =>
              /\ pc[g] # "idle"
              /\ work'[g].kind = work[g].kind /\ work'[g].client = work[g].client
    PROVE  NoClash'
BY DEF NoClash, Busy, Clash

LEMMA NoClashStart ==
    ASSUME TypeInv, NoClash, NEW h \in Helpers, NEW label \in Label, NEW w \in Work,
           Start(h, label, w), "clash" \notin mishaps'
    PROVE  NoClash'
<1>1. \A g \in Busy : ~Clash(w, work[g]) /\ ~Clash(work[g], w)
  BY DEF Start, Clash
<1>2. /\ work'[h] = w
      /\ \A g \in Helpers \ {h} : pc'[g] = pc[g] /\ work'[g] = work[g]
  BY StartType
<1>3. \A g \in Helpers : g \in Busy' /\ g # h => g \in Busy /\ work'[g] = work[g]
  BY <1>2 DEF Busy
<1>4. ASSUME NEW f \in Busy', NEW g \in Busy', f # g PROVE ~Clash(work'[f], work'[g])
  <2>1. f \in Helpers /\ g \in Helpers
    BY DEF Busy
  <2>2. CASE f = h
    BY <1>1, <1>2, <1>3, <1>4, <2>1, <2>2
  <2>3. CASE g = h
    BY <1>1, <1>2, <1>3, <1>4, <2>1, <2>3
  <2>4. CASE f # h /\ g # h
    BY <1>3, <1>4, <2>1, <2>4 DEF NoClash
  <2>5. QED
    BY <2>2, <2>3, <2>4
<1>5. QED
  BY <1>4 DEF NoClash, Clash

LEMMA NoClashStep ==
    ASSUME TypeInv, NoClash, [Next]_vars, "clash" \notin mishaps' PROVE NoClash'
<1>1. ASSUME NEW h \in Helpers, Return(h) PROVE NoClash'
  BY <1>1, ReturnType, NoClashQuiet
<1>2. ASSUME UNCHANGED <<pc, work>> PROVE NoClash'
  BY <1>2, NoClashQuiet
<1>3. ASSUME NEW h \in Helpers, pc[h] # "idle",
             \A g \in Helpers \ {h} : pc'[g] = pc[g] /\ work'[g] = work[g],
             work'[h].kind = work[h].kind, work'[h].client = work[h].client
      PROVE  NoClash'
  BY <1>3, NoClashQuiet
<1>4. ASSUME NEW h \in Helpers, PlanConfig(h) \/ ReadState(h) \/ ReadOwned(h) \/ EraseOwned(h)
      PROVE  NoClash'
  <2>1. pc[h] # "idle" /\ work[h] \in Work
    BY <1>4 DEF PlanConfig, ReadState, ReadOwned, EraseOwned, TypeInv, TypeOK
  <2>2. ASSUME \/ \E t : work' = [work EXCEPT ![h].text = t]
               \/ \E t : work' = [work EXCEPT ![h].next = t],
               \A g \in Helpers \ {h} : pc'[g] = pc[g]
        PROVE  NoClash'
    <3>1. work'[h].kind = work[h].kind /\ work'[h].client = work[h].client
      BY <2>1, <2>2 DEF TypeInv, TypeOK, Work
    <3>2. \A g \in Helpers \ {h} : work'[g] = work[g]
      BY <2>2 DEF TypeInv, TypeOK
    <3>3. QED
      BY <1>3, <2>1, <2>2, <3>1, <3>2
  <2>3. CASE PlanConfig(h)
    BY <1>1, <2>2, <2>3 DEF PlanConfig, Goto, TypeInv, TypeOK
  <2>4. CASE ReadState(h)
    BY <1>1, <2>2, <2>4 DEF ReadState, Goto, TypeInv, TypeOK
  <2>5. CASE ReadOwned(h) \/ EraseOwned(h)
    BY <1>1, <1>3, <2>1, <2>5, ResetSteps
  <2>6. QED
    BY <1>4, <2>3, <2>4, <2>5
<1>5. ASSUME NEW h \in Helpers, WriteConfig(h) \/ WriteState(h) \/ Consume(h)
      PROVE  NoClash'
  <2>1. pc[h] # "idle"
    BY <1>5 DEF WriteConfig, WriteState, Consume
  <2>2. Return(h) \/ (work' = work /\ \A g \in Helpers \ {h} : pc'[g] = pc[g])
    BY <1>5 DEF WriteConfig, WriteState, Consume, Goto, TypeInv, TypeOK
  <2>3. QED
    BY <1>1, <1>3, <2>1, <2>2
<1>6. ASSUME NEW h \in Helpers, BeginApply(h) PROVE NoClash'
  <2> DEFINE plan == CachedPlan(h)
             a == CachedReceipt(h, plan)
             w == [NoWork EXCEPT !.kind = "apply", !.plan = plan, !.receipt = a,
                      !.client = plan.id.client]
  <2>1. CASE UNCHANGED <<pc, work>>
    BY <1>2, <2>1
  <2>2. CASE Start(h, "provision", w)
    <3>1. plan \in Plan /\ a \in 0..Len(receipts) /\ Len(receipts) \in Nat
      BY <1>6, CachedType DEF BeginApply, TypeInv, TypeOK
    <3>2. plan.id.client \in ClientSet /\ a \in Nat /\ plan \in Plan \cup {NoPlan}
      BY <3>1, PlanType
    <3> HIDE DEF plan, a
    <3>3. w \in Work
      BY <3>2, NoWorkType DEF NoWork, Work
    <3>4. QED
      BY <2>2, <3>3, NoClashStart DEF Label
  <2>3. QED
    BY <1>6, <2>1, <2>2 DEF BeginApply
<1>7. ASSUME NEW h \in Helpers, BeginRepair(h) PROVE NoClash'
  <2> DEFINE c == ClientOf[h]
             w == [NoWork EXCEPT !.kind = "repair", !.client = c, !.next = state,
                     !.text = Activate(config[c], state.jobs[c])]
  <2>1. c \in ClientSet /\ config[c] \in Config /\ state.jobs[c] \in SUBSET Services
        /\ state \in State
    BY ClientAssumption DEF TypeInv, TypeOK, State
  <2>2. w \in Work
    BY <2>1, ActivateType, NoWorkType DEF NoWork, Work
  <2>3. Start(h, "config", w)
    BY <1>7 DEF BeginRepair
  <2>4. QED
    BY <2>2, <2>3, NoClashStart DEF Label
<1>8. ASSUME NEW h \in Helpers, NEW S \in SUBSET Services, BeginDecision(h, S)
      PROVE  NoClash'
  <2> DEFINE w == [NoWork EXCEPT !.kind = "decide", !.client = ClientOf[h],
                     !.next = Declined(S)]
  <2>1. w \in Work
    BY DeclinedType, NoWorkType, ClientAssumption DEF NoWork, Work, TypeInv, TypeOK
  <2>2. Start(h, "state", w)
    BY <1>8 DEF BeginDecision
  <2>3. QED
    BY <2>1, <2>2, NoClashStart DEF Label
<1>9. ASSUME NEW h \in Helpers, BeginReset(h) PROVE NoClash'
  <2> DEFINE w == [NoWork EXCEPT !.kind = "reset", !.left = Clients]
  <2>1. w \in Work
    BY NoWorkType, ClientAssumption DEF NoWork, Work
  <2>2. Start(h, "reset", w)
    BY <1>9 DEF BeginReset
  <2>3. QED
    BY <2>1, <2>2, NoClashStart DEF Label
<1>10. ASSUME NEW h \in Helpers,
              Approve(h) \/ \E S \in SUBSET Services, r \in BOOLEAN : Propose(h, S, r)
       PROVE  NoClash'
  BY <1>2, <1>10 DEF Approve, Propose
<1>11. CASE Expire \/ Damage \/ (\E c \in ClientSet : Edit(c)) \/ UNCHANGED vars
  BY <1>2, <1>11 DEF Expire, Damage, Edit, vars
<1>12. ASSUME NEW h \in Helpers, Crash(h) PROVE NoClash'
  BY <1>1, <1>12 DEF Crash
<1>13. QED
  BY <1>4, <1>5, <1>6, <1>7, <1>8, <1>9, <1>10, <1>11, <1>12 DEF Next, Continue

(* A handler whose step, if it has one, leaves it nothing to prepare.      *)
LEMMA PreparedQuiet ==
    ASSUME TypeInv, NEW g \in Helpers, Prepared(g),
           \A c \in ClientSet : config'[c].managed = config[c].managed,
           \A c \in ClientSet : state'.jobs[c] \subseteq state.jobs[c],
           \/ pc'[g] = pc[g] /\ work'[g] = work[g]
           \/ pc'[g] \in {"idle", "provision", "consume"}
    PROVE  Prepared(g)'
<1>1. work[g].client \in ClientSet
  BY DEF TypeInv, TypeOK, Work
<1>2. QED
  BY <1>1 DEF Prepared, NextConfigured, TextKeepsManaged, ResetHasNoJobs

LEMMA InstallQuiet ==
    ASSUME TypeInv, JobsConfigured, \A g \in Helpers : Prepared(g),
           \A c \in ClientSet : config'[c].managed = config[c].managed,
           \A c \in ClientSet : state'.jobs[c] \subseteq state.jobs[c],
           \A g \in Helpers : \/ pc'[g] = pc[g] /\ work'[g] = work[g]
                              \/ pc'[g] \in {"idle", "provision", "consume"}
    PROVE  JobsConfigured' /\ \A g \in Helpers : Prepared(g)'
<1>1. JobsConfigured'
  BY DEF JobsConfigured
<1>2. QED
  BY <1>1, PreparedQuiet

LEMMA InstallReturn ==
    ASSUME TypeInv, JobsConfigured, \A g \in Helpers : Prepared(g),
           state' = state, config' = config, NEW h \in Helpers, Return(h)
    PROVE  JobsConfigured' /\ \A g \in Helpers : Prepared(g)'
BY ReturnType, InstallQuiet

LEMMA InstallStep == TypeInv /\ InstallInv /\ [Next]_vars => InstallInv'
<1> DEFINE Body == JobsConfigured /\ \A g \in Helpers : Prepared(g)
<1> SUFFICES ASSUME TypeInv, [Next]_vars, InstallKept,
                    mishaps' \cap {"clash", "torn", "drift"} = {}
             PROVE  Body'
  BY MishapsStay, NoClashStep DEF InstallInv, InstallKept
<1>a. NoClash' /\ NoClash /\ Body
  BY NoClashStep DEF InstallKept
<1>b. /\ \A g \in Helpers : work[g] \in Work /\ work[g].client \in ClientSet
      /\ \A c \in ClientSet : config[c] \in Config /\ state.jobs[c] \in SUBSET Services
      /\ state \in State
  BY DEF TypeInv, TypeOK, Work, State
<1>1. ASSUME NEW h \in Helpers, PlanConfig(h) PROVE Body'
  <2> DEFINE c == work[h].client
             text == Activate(config[c], work[h].plan.id.services)
  <2>1. work[h].plan \in Plan /\ config' = config /\ state' = state
    BY <1>1 DEF TypeInv, InPlace, PlanConfig, fileVars
  <2>2. CASE Return(h)
    BY <1>a, <2>1, <2>2, InstallReturn
  <2>3. CASE work' = [work EXCEPT ![h].text = text] /\ Goto(h, "plan")
    <3>1. text.managed = config[c].managed \cup work[h].plan.id.services
      BY <1>b, <2>1, ActivateType, PlanType
    <3>2. /\ work'[h].text = text /\ work'[h].client = c /\ pc'[h] = "plan"
          /\ work'[h].plan = work[h].plan
          /\ \A g \in Helpers \ {h} : pc'[g] = pc[g] /\ work'[g] = work[g]
      BY <1>b, <2>3 DEF TypeInv, TypeOK, Goto, Work
    <3>3. Prepared(h)'
      BY <2>1, <3>1, <3>2 DEF Prepared, NextConfigured, TextKeepsManaged, ResetHasNoJobs
    <3>4. \A g \in Helpers \ {h} : Prepared(g)'
      BY <1>a, <2>1, <3>2, PreparedQuiet
    <3>5. QED
      BY <1>a, <2>1, <3>3, <3>4 DEF JobsConfigured
  <2>4. QED
    BY <1>1, <2>2, <2>3 DEF PlanConfig
<1>2. ASSUME NEW h \in Helpers, ReadState(h) PROVE Body'
  <2> DEFINE c == work[h].client
             S == work[h].plan.id.services
             next == Activated(c, S)
  <2>1. work[h].plan \in Plan /\ config' = config /\ state' = state /\ pc[h] = "plan"
    BY <1>2 DEF TypeInv, InPlace, ReadState, fileVars
  <2>2. CASE Return(h)
    BY <1>a, <2>1, <2>2, InstallReturn
  <2>3. CASE work' = [work EXCEPT ![h].next = next] /\ Goto(h, "config")
    <3>1. /\ next.jobs[c] = S
          /\ \A k \in ClientSet \ {c} : next.jobs[k] \subseteq state.jobs[k]
      BY <1>b, <2>1, ActivatedType, PlanType
    <3>2. /\ work'[h].text = work[h].text /\ work'[h].client = c /\ pc'[h] = "config"
          /\ work'[h].next = next
          /\ \A g \in Helpers \ {h} : pc'[g] = pc[g] /\ work'[g] = work[g]
      BY <1>b, <2>3 DEF TypeInv, TypeOK, Goto, Work
    <3>3. config[c].managed \subseteq work[h].text.managed /\ S \subseteq work[h].text.managed
      BY <1>a, <2>1 DEF Prepared, TextKeepsManaged
    <3>4. \A k \in ClientSet \ {c} : next.jobs[k] \subseteq config[k].managed
      BY <1>a, <3>1 DEF JobsConfigured
    <3> HIDE DEF next, S, c
    <3>5. Prepared(h)'
      BY <2>1, <3>1, <3>2, <3>3, <3>4
         DEF Prepared, NextConfigured, TextKeepsManaged, ResetHasNoJobs
    <3>6. \A g \in Helpers \ {h} : Prepared(g)'
      BY <1>a, <2>1, <3>2, PreparedQuiet
    <3>7. QED
      BY <1>a, <2>1, <3>5, <3>6 DEF JobsConfigured
  <2>4. QED
    BY <1>2, <2>2, <2>3 DEF ReadState
<1>3. ASSUME NEW h \in Helpers, WriteConfig(h) PROVE Body'
  <2> DEFINE c == work[h].client
  <2>1. /\ config' = [config EXCEPT ![c] = work[h].text] /\ pc[h] = "config"
        /\ state' = state /\ work' = work /\ Goto(h, "state")
    BY <1>3 DEF WriteConfig
  <2>2. /\ pc'[h] = "state"
        /\ \A g \in Helpers \ {h} : pc'[g] = pc[g]
    BY <2>1 DEF Goto, TypeInv, TypeOK
  <2>3. config[c].managed \subseteq work[h].text.managed
    BY <1>a, <2>1 DEF Prepared, TextKeepsManaged
  <2>4. /\ config'[c] = work[h].text
        /\ \A k \in ClientSet \ {c} : config'[k] = config[k]
        /\ \A k \in ClientSet : config[k].managed \subseteq config'[k].managed
    BY <1>b, <2>1, <2>3 DEF TypeInv, TypeOK
  <2>5. JobsConfigured'
    BY <1>a, <2>1, <2>4 DEF JobsConfigured
  <2>6. Prepared(h)'
    BY <1>a, <1>b, <2>1, <2>2, <2>4
       DEF Prepared, NextConfigured, TextKeepsManaged, ResetHasNoJobs
  <2>7. ASSUME NEW g \in Helpers \ {h} PROVE Prepared(g)'
    <3>1. pc[g] \in {"plan", "config"} => work[g].client # c
      BY <1>a, <2>1 DEF NoClash, Busy, Clash, TypeInv, InPlace
    <3>2. NextConfigured(g)'
      BY <1>a, <2>1, <2>2, <2>4 DEF Prepared, NextConfigured
    <3>3. TextKeepsManaged(g)'
      BY <1>a, <1>b, <2>1, <2>2, <2>4, <3>1 DEF Prepared, TextKeepsManaged
    <3>4. ResetHasNoJobs(g)'
      BY <1>a, <2>1, <2>2 DEF Prepared, ResetHasNoJobs
    <3>5. QED
      BY <3>2, <3>3, <3>4 DEF Prepared
  <2>8. QED
    BY <2>5, <2>6, <2>7
<1>4. ASSUME NEW h \in Helpers, WriteState(h) PROVE Body'
  <2>1. config' = config /\ pc[h] = "state"
    BY <1>4 DEF WriteState
  <2>2. CASE state' = state
    BY <1>4, <1>a, <2>1, <2>2, InstallQuiet, ReturnType
       DEF WriteState, Goto, TypeInv, TypeOK
  <2>3. CASE \E n : state' = [work[h].next EXCEPT !.rev = n]
    <3>1. state'.jobs = work[h].next.jobs
      BY <1>b, <2>3 DEF Work, State
    <3>2. JobsConfigured'
      BY <1>a, <2>1, <3>1 DEF JobsConfigured, Prepared, NextConfigured
    <3>3. Return(h) \/ (Goto(h, "consume") /\ work' = work)
      BY <1>4 DEF WriteState
    <3>4. /\ pc'[h] \in {"idle", "consume"}
          /\ \A g \in Helpers \ {h} : pc'[g] = pc[g] /\ work'[g] = work[g]
      BY <3>3, ReturnType DEF Goto, TypeInv, TypeOK
    <3>5. \A g \in Helpers : pc[g] \notin {"reset", "erase"}
      BY <1>a, <2>1 DEF NoClash, Busy, Clash, TypeInv, InPlace
    <3>6. \A g \in Helpers : Prepared(g)'
      BY <1>a, <2>1, <3>4, <3>5
         DEF Prepared, NextConfigured, TextKeepsManaged, ResetHasNoJobs
    <3>7. QED
      BY <3>2, <3>6
  <2>4. QED
    BY <1>4, <2>2, <2>3 DEF WriteState
<1>5. ASSUME NEW h \in Helpers, ReadOwned(h) \/ EraseOwned(h) PROVE Body'
  <2>1. /\ state' = state /\ pc[h] \in {"reset", "erase"}
        /\ \A g \in Helpers \ {h} : pc'[g] = pc[g] /\ work'[g] = work[g]
        /\ pc'[h] \in {"idle", "reset", "erase"}
    BY <1>5, ResetSteps, ReturnType
  <2>2. \A c \in ClientSet : state.jobs[c] = {}
    BY <1>a, <2>1 DEF Prepared, ResetHasNoJobs
  <2>3. \A g \in Helpers \ {h} : pc[g] = "idle"
    BY <1>a, <2>1 DEF NoClash, Busy, Clash, TypeInv, InPlace
  <2>4. QED
    BY <2>1, <2>2, <2>3
       DEF JobsConfigured, Prepared, NextConfigured, TextKeepsManaged, ResetHasNoJobs
<1>6. ASSUME NEW h \in Helpers, BeginRepair(h) PROVE Body'
  <2> DEFINE c == ClientOf[h]
             text == Activate(config[c], state.jobs[c])
             w == [NoWork EXCEPT !.kind = "repair", !.client = c, !.next = state,
                     !.text = text]
  <2>1. c \in ClientSet
    BY ClientAssumption
  <2>2. text \in Config /\ text.managed = config[c].managed \cup state.jobs[c]
    BY <1>b, <2>1, ActivateType
  <2>3. /\ w.client = c /\ w.text = text /\ w.next = state /\ w \in Work
    BY <1>b, <2>1, <2>2, NoWorkType DEF NoWork, Work
  <2>4. config' = config /\ state' = state /\ Start(h, "config", w)
    BY <1>6 DEF BeginRepair, fileVars
  <2>5. /\ work'[h] = w /\ pc'[h] = "config"
        /\ \A g \in Helpers \ {h} : pc'[g] = pc[g] /\ work'[g] = work[g]
    BY <2>3, <2>4, StartType DEF Label
  <2> HIDE DEF text, w, c
  <2>6. Prepared(h)'
    BY <1>a, <2>1, <2>2, <2>3, <2>4, <2>5
       DEF JobsConfigured, Prepared, NextConfigured, TextKeepsManaged, ResetHasNoJobs
  <2>7. \A g \in Helpers \ {h} : Prepared(g)'
    BY <1>a, <2>4, <2>5, PreparedQuiet
  <2>8. QED
    BY <1>a, <2>4, <2>6, <2>7 DEF JobsConfigured
<1>7. ASSUME NEW h \in Helpers, NEW S \in SUBSET Services, BeginDecision(h, S)
      PROVE  Body'
  <2> DEFINE w == [NoWork EXCEPT !.kind = "decide", !.client = ClientOf[h],
                     !.next = Declined(S)]
  <2>1. Declined(S) \in State /\ Declined(S).jobs = state.jobs
    BY <1>b, DeclinedType
  <2>2. w \in Work /\ w.next = Declined(S)
    BY <2>1, NoWorkType, ClientAssumption DEF NoWork, Work
  <2>3. config' = config /\ state' = state /\ Start(h, "state", w)
    BY <1>7 DEF BeginDecision, fileVars
  <2>4. /\ work'[h] = w /\ pc'[h] = "state"
        /\ \A g \in Helpers \ {h} : pc'[g] = pc[g] /\ work'[g] = work[g]
    BY <2>2, <2>3, StartType DEF Label
  <2> HIDE DEF w
  <2>5. Prepared(h)'
    BY <1>a, <2>1, <2>2, <2>3, <2>4
       DEF JobsConfigured, Prepared, NextConfigured, TextKeepsManaged, ResetHasNoJobs
  <2>6. \A g \in Helpers \ {h} : Prepared(g)'
    BY <1>a, <2>3, <2>4, PreparedQuiet
  <2>7. QED
    BY <1>a, <2>3, <2>5, <2>6 DEF JobsConfigured
<1>8. ASSUME NEW h \in Helpers, BeginReset(h) PROVE Body'
  <2> DEFINE w == [NoWork EXCEPT !.kind = "reset", !.left = Clients]
  <2>1. w \in Work
    BY NoWorkType, ClientAssumption DEF NoWork, Work
  <2>2. config' = config /\ state' = NoState /\ Start(h, "reset", w)
    BY <1>8 DEF BeginReset
  <2>3. /\ pc'[h] = "reset"
        /\ \A g \in Helpers \ {h} : pc'[g] = pc[g] /\ work'[g] = work[g]
    BY <2>1, <2>2, StartType DEF Label
  <2>4. \A c \in ClientSet : state'.jobs[c] = {}
    BY <2>2 DEF NoState, NoServices
  <2>5. Prepared(h)'
    BY <2>3, <2>4 DEF Prepared, NextConfigured, TextKeepsManaged, ResetHasNoJobs
  <2>6. \A g \in Helpers \ {h} : Prepared(g)'
    BY <1>a, <2>2, <2>3, <2>4, PreparedQuiet
  <2>7. QED
    BY <2>4, <2>5, <2>6 DEF JobsConfigured
<1>9. ASSUME NEW h \in Helpers, BeginApply(h) PROVE Body'
  <2>1. config' = config /\ state' = state
    BY <1>9 DEF BeginApply, fileVars
  <2>2. \/ UNCHANGED <<pc, work>>
        \/ Goto(h, "provision") /\ \A g \in Helpers \ {h} : work'[g] = work[g]
    BY <1>9 DEF BeginApply, Start, TypeInv, TypeOK
  <2>3. QED
    BY <1>a, <2>1, <2>2, InstallQuiet DEF Goto, TypeInv, TypeOK
<1>10. ASSUME NEW h \in Helpers, Consume(h) \/ Crash(h) PROVE Body'
  <2>1. config' = config /\ state' = state /\ Return(h)
    BY <1>10 DEF Consume, Crash, fileVars
  <2>2. QED
    BY <1>a, <2>1, InstallReturn
<1>11. ASSUME UNCHANGED <<pc, work>>,
              \A c \in ClientSet : config'[c].managed = config[c].managed,
              \A c \in ClientSet : state'.jobs[c] \subseteq state.jobs[c]
       PROVE  Body'
  BY <1>a, <1>11, InstallQuiet
<1>12. ASSUME NEW h \in Helpers,
              Approve(h) \/ \E S \in SUBSET Services, r \in BOOLEAN : Propose(h, S, r)
       PROVE  Body'
  BY <1>11, <1>12 DEF Approve, Propose, fileVars
<1>13. ASSUME NEW c \in ClientSet, Edit(c) PROVE Body'
  <2>1. UNCHANGED <<pc, work>> /\ state' = state
    BY <1>13 DEF Edit
  <2>2. \E s \in Services : config' = [config EXCEPT ![c].own = @ \cup {s}]
    BY <1>13 DEF Edit
  <2>3. \A k \in ClientSet : config'[k].managed = config[k].managed
    BY <1>b, <2>2 DEF TypeInv, TypeOK, Config
  <2>4. QED
    BY <1>11, <2>1, <2>3
<1>14. CASE Expire \/ Damage \/ UNCHANGED vars
  <2>1. UNCHANGED <<pc, work, config>>
    BY <1>14 DEF Expire, Damage, fileVars, vars
  <2>2. state'.jobs = state.jobs
    BY <1>14, <1>b DEF Expire, Damage, fileVars, vars, State
  <2>3. QED
    BY <1>11, <2>1, <2>2
<1>15. QED
  BY <1>1, <1>2, <1>3, <1>4, <1>5, <1>6, <1>7, <1>8, <1>9, <1>10, <1>12, <1>13,
     <1>14 DEF Next, Continue

(* While no two handlers rewrite the same config at once, no process dies  *)
(* in a config write and the user leaves the owned entries alone, whatever *)
(* the state calls installed is in the client's config.                    *)
THEOREM InstallSafety == Spec => []InstalledIsConfigured
<1>1. Init => InstallInv
  <2> SUFFICES ASSUME Init PROVE InstallKept
    BY DEF InstallInv
  <2>1. NoClash
    BY DEF Init, NoClash, Busy
  <2>2. JobsConfigured
    BY DEF Init, JobsConfigured, NoState, NoServices
  <2>3. \A h \in Helpers : Prepared(h)
    BY DEF Init, Prepared, NextConfigured, TextKeepsManaged, ResetHasNoJobs
  <2>4. QED
    BY <2>1, <2>2, <2>3 DEF InstallKept
<1>2. InstallInv => InstalledIsConfigured
  BY DEF InstallInv, InstallKept, JobsConfigured, InstalledIsConfigured
<1>3. QED
  BY <1>1, <1>2, TypeInit, TypeStep, InstallStep, PTL DEF Spec

-------------------------------------------------------------------------------
(* One approval, one installation.                                         *)

(* A handler that applies a plan holds the receipts of that very plan.     *)
Carries(h) ==
    work[h].kind = "apply" =>
        /\ work[h].receipt \in 1..Len(receipts)
        /\ work[h].plan.id = receipts[work[h].receipt].plan.id
        /\ work[h].client = work[h].plan.id.client

CarryInv == Len(receipts) <= MaxApprovals /\ \A h \in Helpers : Carries(h)

(* h is between its checks and its write of the state.                     *)
Installing(h) == work[h].kind = "apply" /\ pc[h] # "consume"

(* Only an approval that was given has installed.                          *)
Given == \A a \in 1..MaxApprovals, h \in Helpers : applied[a][h] # 0 => a <= Len(receipts)

(* An approval has installed once at most, in one session, and not before  *)
(* the handler that is about to install with it.                           *)
Once ==
    /\ Given
    /\ \A a \in 1..MaxApprovals : \A g, h \in Helpers :
          applied[a][g] # 0 /\ applied[a][h] # 0 => g = h /\ applied[a][h] = 1
    /\ \A g, h \in Helpers : Installing(h) => applied[work[h].receipt][g] = 0

(* The same of one session by itself.                                      *)
OnceEach ==
    /\ Given
    /\ \A a \in 1..MaxApprovals, h \in Helpers : applied[a][h] <= 1
    /\ \A h \in Helpers : Installing(h) => applied[work[h].receipt][h] = 0

(* The revision of the state only grows: it has passed the one that the    *)
(* plan of every installation was made from.                               *)
Growing ==
    /\ state.form # "invalid" /\ (state.form = "absent" => state.rev = 0)
    /\ \A h \in Helpers : pc[h] \in {"config", "state"} => work[h].next.form = "valid"
    /\ \A h \in Helpers : Installing(h) => work[h].plan.id.base.rev <= state.rev
    /\ \A a \in 1..MaxApprovals, h \in Helpers :
          applied[a][h] # 0 => receipts[a].plan.id.base.rev < state.rev

GrowInv ==
    "clash" \notin mishaps /\ spent.resets = 0 /\ "damage" \notin mishaps
        => NoClash /\ Once /\ Growing

(* The process remembers what it has installed, or is about to remember.   *)
Remembered(h) ==
    \A a \in 1..MaxApprovals : applied[a][h] # 0 =>
        \/ a \in mem[h].consumed
        \/ ~ Live(receipts[a].plan)
        \/ pc[h] = "consume" /\ work[h].receipt = a

MemoryInv ==
    spent.crashes = 0 => OnceEach /\ \A h \in Helpers : Remembered(h)

(* A handler that applies goes on with what it began with.                 *)
GoesOn(g) ==
    /\ work[g].kind = "apply"
    /\ work'[g].receipt = work[g].receipt
    /\ work'[g].plan = work[g].plan
    /\ work'[g].client = work[g].client
    /\ pc[g] = "consume" => pc'[g] = "consume"

(* BeginApply has passed its checks.                                       *)
BeginsApply(h) ==
    LET plan == CachedPlan(h)
        a == CachedReceipt(h, plan)
    IN  /\ plan \in Plan /\ a \in 1..Len(receipts)
        /\ receipts[a].plan.id = plan.id /\ a \notin mem[h].consumed /\ Live(receipts[a].plan)
        /\ state = plan.id.base
        /\ pc' = [pc EXCEPT ![h] = "provision"]
        /\ work' = [work EXCEPT ![h] = [NoWork EXCEPT !.kind = "apply", !.plan = plan,
                                          !.receipt = a, !.client = plan.id.client]]

LEMMA BeginApplies ==
    ASSUME TypeInv, NEW h \in Helpers, BeginApply(h)
    PROVE  /\ UNCHANGED <<state, config, applied, receipts, expired, spent>>
           /\ UNCHANGED <<pc, work>> \/ BeginsApply(h)
<1> DEFINE plan == CachedPlan(h)
           a == CachedReceipt(h, plan)
<1>1. UNCHANGED <<state, config, applied, receipts, expired, spent>>
  BY DEF BeginApply, fileVars
<1>2. plan \in Plan /\ a \in 0..Len(receipts) /\ Len(receipts) \in Nat
  BY CachedType DEF BeginApply, TypeInv, TypeOK
<1>3. a # 0 => receipts[a].plan.id = plan.id
  BY DEF CachedReceipt, ReceiptMatches
<1>4. CASE UNCHANGED <<pc, work>>
  BY <1>1, <1>4
<1>5. CASE ~ UNCHANGED <<pc, work>>
  <2>1. /\ Fresh(plan) /\ ReceiptsValid(h, a)
        /\ Start(h, "provision", [NoWork EXCEPT !.kind = "apply", !.plan = plan,
                                    !.receipt = a, !.client = plan.id.client])
    BY <1>5 DEF BeginApply
  <2>2. a \in 1..Len(receipts)
    BY <1>2, <2>1 DEF ReceiptsValid
  <2>3. /\ pc' = [pc EXCEPT ![h] = "provision"]
        /\ work' = [work EXCEPT ![h] = [NoWork EXCEPT !.kind = "apply", !.plan = plan,
                                          !.receipt = a, !.client = plan.id.client]]
    BY <2>1 DEF Start, Goto
  <2>4. BeginsApply(h)
    BY <1>2, <1>3, <2>1, <2>2, <2>3 DEF BeginsApply, Fresh, ReceiptsValid
  <2>5. QED
    BY <1>1, <2>4
<1>6. QED
  BY <1>4, <1>5

(* Only BeginApply makes a handler apply.                                  *)
LEMMA Applying ==
    ASSUME TypeInv, [Next]_vars, NEW g \in Helpers, work'[g].kind = "apply"
    PROVE  GoesOn(g) \/ (BeginApply(g) /\ BeginsApply(g))
<1> USE DEF GoesOn
<1>1. ASSUME work'[g] = work[g], pc'[g] = pc[g] PROVE GoesOn(g)
  BY <1>1
<1>2. ASSUME NEW h \in Helpers, Return(h) PROVE GoesOn(g)
  BY <1>1, <1>2, ReturnType DEF NoWork
<1>3. ASSUME NEW h \in Helpers, NEW label, NEW w, Start(h, label, w), w.kind # "apply"
      PROVE  GoesOn(g)
  BY <1>1, <1>3 DEF Start, Goto, TypeInv, TypeOK
<1>4. ASSUME NEW h \in Helpers,
             \/ \E t : work' = [work EXCEPT ![h].text = t]
             \/ \E t : work' = [work EXCEPT ![h].next = t]
             \/ \E t : work' = [work EXCEPT ![h].left = t],
             \A k \in Helpers \ {h} : pc'[k] = pc[k], pc[h] # "consume"
      PROVE  GoesOn(g)
  <2>1. work[h] \in Work
    BY DEF TypeInv, TypeOK
  <2>2. CASE g = h
    BY <1>4, <2>1, <2>2 DEF TypeInv, TypeOK, Work
  <2>3. CASE g # h
    BY <1>1, <1>4, <2>3 DEF TypeInv, TypeOK
  <2>4. QED
    BY <2>2, <2>3
<1>5. ASSUME NEW h \in Helpers, PlanConfig(h) PROVE GoesOn(g)
  BY <1>2, <1>4, <1>5 DEF PlanConfig, Goto, TypeInv, TypeOK
<1>6. ASSUME NEW h \in Helpers, ReadState(h) PROVE GoesOn(g)
  BY <1>2, <1>4, <1>6 DEF ReadState, Goto, TypeInv, TypeOK
<1>7. ASSUME NEW h \in Helpers, WriteConfig(h) PROVE GoesOn(g)
  BY <1>7 DEF WriteConfig, Goto, TypeInv, TypeOK
<1>8. ASSUME NEW h \in Helpers, WriteState(h) PROVE GoesOn(g)
  <2>1. CASE Return(h)
    BY <1>2, <2>1
  <2>2. CASE Goto(h, "consume") /\ UNCHANGED work
    BY <2>2 DEF Goto, TypeInv, TypeOK
  <2>3. QED
    BY <1>8, <2>1, <2>2 DEF WriteState
<1>9. ASSUME NEW h \in Helpers, Consume(h) PROVE GoesOn(g)
  BY <1>2, <1>9 DEF Consume
<1>10. ASSUME NEW h \in Helpers, ReadOwned(h) \/ EraseOwned(h) PROVE GoesOn(g)
  <2>1. work'[h].kind # "apply" /\ (g # h => pc'[g] = pc[g] /\ work'[g] = work[g])
    BY <1>10, ResetSteps, ReturnType DEF NoWork, TypeInv, InPlace
  <2>2. QED
    BY <1>1, <2>1
<1>11. ASSUME NEW h \in Helpers, Crash(h) PROVE GoesOn(g)
  BY <1>2, <1>11 DEF Crash
<1>12. ASSUME NEW h \in Helpers, BeginRepair(h) \/ BeginReset(h)
                 \/ \E S \in SUBSET Services : BeginDecision(h, S)
       PROVE  GoesOn(g)
  BY <1>3, <1>12 DEF BeginRepair, BeginReset, BeginDecision, NoWork
<1>13. ASSUME NEW h \in Helpers, BeginApply(h)
       PROVE  GoesOn(g) \/ (BeginApply(g) /\ BeginsApply(g))
  <2>1. CASE BeginsApply(h) /\ g # h
    BY <1>1, <2>1 DEF BeginsApply, TypeInv, TypeOK
  <2>2. QED
    BY <1>1, <1>13, <2>1, BeginApplies
<1>14. CASE UNCHANGED <<pc, work>>
  BY <1>1, <1>14
<1>15. ASSUME NEW h \in Helpers,
              Approve(h) \/ \E S \in SUBSET Services, r \in BOOLEAN : Propose(h, S, r)
       PROVE  UNCHANGED <<pc, work>>
  BY <1>15 DEF Approve, Propose
<1>16. Expire \/ Damage \/ (\E c \in ClientSet : Edit(c)) \/ UNCHANGED vars
         => UNCHANGED <<pc, work>>
  BY DEF Expire, Damage, Edit, vars
<1>17. QED
  BY <1>5, <1>6, <1>7, <1>8, <1>9, <1>10, <1>11, <1>12, <1>13, <1>14, <1>15, <1>16
     DEF Next, Continue

(* The approvals grow one at a time, and only a write of the state counts  *)
(* as an installation.                                                     *)
LEMMA Histories ==
    ASSUME TypeInv, [Next]_vars
    PROVE  /\ \/ receipts' = receipts
              \/ \E h \in Helpers : Approve(h)
           /\ \/ applied' = applied
              \/ \E h \in Helpers : WriteState(h)
           /\ Len(receipts) <= Len(receipts')
           /\ \A a \in 1..Len(receipts) : receipts'[a] = receipts[a]
           /\ expired <= expired'
           /\ spent'.resets = 0 => spent.resets = 0
           /\ spent'.crashes = 0 => spent.crashes = 0
<1>1. ASSUME NEW h \in Helpers, NEW S \in SUBSET Services, BeginDecision(h, S)
      PROVE  UNCHANGED <<receipts, applied, expired, spent.resets, spent.crashes>>
  BY <1>1 DEF BeginDecision, cacheVars, TypeInv, TypeOK
<1>2. ASSUME NEW h \in Helpers, BeginRepair(h) \/ BeginReset(h) \/ Crash(h)
      PROVE  /\ UNCHANGED <<receipts, applied, expired>>
             /\ spent'.resets = 0 => spent.resets = 0
             /\ spent'.crashes = 0 => spent.crashes = 0
  BY <1>2 DEF BeginRepair, BeginReset, Crash, cacheVars, TypeInv, TypeOK
<1>3. ASSUME NEW h \in Helpers, PlanConfig(h) \/ ReadState(h) \/ WriteConfig(h) \/ Consume(h)
               \/ ReadOwned(h) \/ EraseOwned(h) \/ BeginApply(h)
      PROVE  UNCHANGED <<receipts, applied, expired, spent>>
  BY <1>3 DEF PlanConfig, ReadState, WriteConfig, Consume, ReadOwned, EraseOwned, BeginApply,
     cacheVars
<1>4. ASSUME NEW h \in Helpers, NEW S \in SUBSET Services, NEW r \in BOOLEAN, Propose(h, S, r)
      PROVE  UNCHANGED <<receipts, applied, expired, spent>>
  BY <1>4 DEF Propose
<1>5. ASSUME NEW h \in Helpers, WriteState(h)
      PROVE  UNCHANGED <<receipts, expired, spent>>
  BY <1>5 DEF WriteState, cacheVars
<1>6. ASSUME NEW h \in Helpers, Approve(h)
      PROVE  /\ UNCHANGED <<applied, expired, spent>>
             /\ Len(receipts) <= Len(receipts')
             /\ \A a \in 1..Len(receipts) : receipts'[a] = receipts[a]
  BY <1>6 DEF Approve, TypeInv, TypeOK
<1>7. CASE Expire \/ Damage \/ (\E c \in ClientSet : Edit(c)) \/ UNCHANGED vars
  BY <1>7 DEF Expire, Damage, Edit, vars, cacheVars, TypeInv, TypeOK
<1>8. expired \in Nat
  BY DEF TypeInv, TypeOK
<1>9. QED
  BY <1>1, <1>2, <1>3, <1>4, <1>5, <1>6, <1>7, <1>8 DEF Next, Continue

LEMMA ElementType ==
    ASSUME NEW T, NEW q \in Seq(T), NEW i \in 1..Len(q)
    PROVE  q[i] \in T
OBVIOUS

(* A receipt is for a plan.                                                *)
LEMMA ReceiptType ==
    ASSUME TypeInv, NEW a \in 1..Len(receipts)
    PROVE  receipts[a].plan \in Plan
<1>1. receipts \in Seq([plan : Plan, shown : Plan])
  BY DEF TypeInv, TypeOK
<1>2. receipts[a] \in [plan : Plan, shown : Plan]
  BY <1>1, ElementType
<1>3. QED
  BY <1>2

LEMMA CarryStep == TypeInv /\ CarryInv /\ [Next]_vars => CarryInv'
<1> SUFFICES ASSUME TypeInv, CarryInv, [Next]_vars PROVE CarryInv'
  OBVIOUS
<1>1. Len(receipts') <= MaxApprovals
  <2>1. ASSUME NEW h \in Helpers, Approve(h) PROVE Len(receipts') <= MaxApprovals
    BY <2>1 DEF Approve, TypeInv, TypeOK
  <2>2. QED
    BY <2>1, Histories DEF CarryInv
<1>2. ASSUME NEW g \in Helpers, work'[g].kind = "apply" PROVE Carries(g)'
  <2>1. CASE GoesOn(g)
    <3>1. work[g].receipt \in 1..Len(receipts)
          /\ work[g].plan.id = receipts[work[g].receipt].plan.id
          /\ work[g].client = work[g].plan.id.client
      BY <2>1 DEF GoesOn, CarryInv, Carries
    <3>2. receipts'[work[g].receipt] = receipts[work[g].receipt]
          /\ work[g].receipt \in 1..Len(receipts')
      BY <3>1, Histories DEF TypeInv, TypeOK
    <3>3. QED
      BY <2>1, <3>1, <3>2 DEF GoesOn, Carries
  <2>2. CASE BeginApply(g) /\ BeginsApply(g)
    <3> DEFINE plan == CachedPlan(g)
               a == CachedReceipt(g, plan)
    <3>1. a \in 1..Len(receipts) /\ receipts[a].plan.id = plan.id /\ receipts' = receipts
      BY <2>2, BeginApplies DEF BeginsApply
    <3>2. work'[g] = [NoWork EXCEPT !.kind = "apply", !.plan = plan, !.receipt = a,
                        !.client = plan.id.client]
      BY <2>2 DEF BeginsApply, TypeInv, TypeOK
    <3>3. work'[g].plan = plan /\ work'[g].receipt = a /\ work'[g].client = plan.id.client
      BY <3>2 DEF NoWork
    <3>4. QED
      BY <3>1, <3>3 DEF Carries
  <2>3. QED
    BY <1>2, <2>1, <2>2, Applying
<1>3. QED
  BY <1>1, <1>2 DEF CarryInv, Carries

(* What a write of the state does.                                         *)
Written(h) == [work[h].next EXCEPT !.rev = IF state.form = "valid" THEN state.rev + 1 ELSE 1]

LEMMA Writes ==
    ASSUME TypeInv, NEW h \in Helpers, WriteState(h)
    PROVE  /\ pc[h] = "state" /\ \A g \in Helpers \ {h} : pc'[g] = pc[g] /\ work'[g] = work[g]
           /\ UNCHANGED <<receipts, mem, expired>>
           /\ \/ state' = Written(h) /\ applied' = applied /\ work'[h].kind # "apply"
              \/ /\ state' = Written(h) /\ work[h].kind = "apply" /\ pc'[h] = "consume"
                 /\ work' = work
                 /\ applied' = [applied EXCEPT ![work[h].receipt][h] = @ + 1]
                 /\ state.form # "invalid" \/ work[h].plan.id.base.form = "invalid"
              \/ state' = state /\ applied' = applied /\ work'[h].kind # "apply"
<1>1. pc[h] = "state" /\ UNCHANGED <<receipts, mem, expired>>
  BY DEF WriteState, cacheVars
<1>2. \A g \in Helpers \ {h} : pc'[g] = pc[g] /\ work'[g] = work[g]
  BY DEF WriteState, Return, Goto, TypeInv, TypeOK
<1>3. Return(h) => work'[h].kind # "apply"
  BY ReturnType DEF NoWork
<1>4. Goto(h, "consume") => pc'[h] = "consume"
  BY DEF Goto, TypeInv, TypeOK
<1>5. QED
  BY <1>1, <1>2, <1>3, <1>4 DEF WriteState, Written

(* A write of the state that installs.                                     *)
LEMMA Installs ==
    ASSUME TypeInv, CarryInv, NEW h \in Helpers, WriteState(h), applied' # applied
    PROVE  LET r == work[h].receipt
           IN  /\ r \in 1..Len(receipts) /\ r \in 1..MaxApprovals /\ receipts' = receipts
               /\ Installing(h) /\ pc'[h] = "consume" /\ work' = work
               /\ \A g \in Helpers \ {h} : pc'[g] = pc[g]
               /\ state' = Written(h) /\ pc[h] = "state"
               /\ applied'[r][h] = applied[r][h] + 1
               /\ \A a \in 1..MaxApprovals, g \in Helpers :
                     a # r \/ g # h => applied'[a][g] = applied[a][g]
<1> DEFINE r == work[h].receipt
<1>1. /\ work[h].kind = "apply" /\ pc[h] = "state" /\ pc'[h] = "consume" /\ work' = work
      /\ applied' = [applied EXCEPT ![r][h] = @ + 1]
      /\ \A g \in Helpers \ {h} : pc'[g] = pc[g]
      /\ receipts' = receipts /\ state' = Written(h)
  BY Writes
<1>2. /\ Len(receipts) \in Nat /\ Len(receipts) <= MaxApprovals /\ MaxApprovals \in Nat
      /\ applied \in [1..MaxApprovals -> [Helpers -> Nat]]
  BY LimitAssumption DEF CarryInv, TypeInv, TypeOK
<1>3. r \in 1..Len(receipts) /\ r \in 1..MaxApprovals
  BY <1>1, <1>2 DEF CarryInv, Carries
<1>4. /\ applied'[r][h] = applied[r][h] + 1
      /\ \A a \in 1..MaxApprovals, g \in Helpers :
            a # r \/ g # h => applied'[a][g] = applied[a][g]
  BY <1>1, <1>2, <1>3
<1>5. QED
  BY <1>1, <1>3, <1>4 DEF Installing

(* What has installed stays with an approval that was given.               *)
LEMMA GivenStep ==
    ASSUME TypeInv, CarryInv, Given, [Next]_vars
    PROVE  Given'
<1>1. Len(receipts) \in Nat /\ Len(receipts') \in Nat /\ Len(receipts) <= Len(receipts')
  BY TypeStep, Histories DEF TypeInv, TypeOK
<1>2. CASE applied' = applied
  BY <1>1, <1>2 DEF Given
<1>3. ASSUME NEW h \in Helpers, WriteState(h), applied' # applied PROVE Given'
  BY <1>1, <1>3, Installs DEF Given
<1>4. QED
  BY <1>2, <1>3, Histories

(* An approval installs once if a handler begins only with one that has    *)
(* not, and no two of them are about to install with the same.             *)
LEMMA OnceStep ==
    ASSUME TypeInv, CarryInv, Once, [Next]_vars,
           \A g, h \in Helpers :
              BeginApply(h) /\ BeginsApply(h) => applied[CachedReceipt(h, CachedPlan(h))][g] = 0,
           \A g, h \in Helpers : g # h /\ Installing(g) /\ Installing(h)
              => work[g].receipt # work[h].receipt
    PROVE  Once'
<1>1. Given'
  BY GivenStep DEF Once
<1>2. CASE applied' = applied
  <2>1. ASSUME NEW g \in Helpers, NEW k \in Helpers, Installing(g)'
        PROVE  applied'[work'[g].receipt][k] = 0
    <3>1. CASE GoesOn(g)
      BY <1>2, <2>1, <3>1 DEF GoesOn, Installing, Once
    <3>2. CASE BeginApply(g) /\ BeginsApply(g)
      <4>1. work'[g].receipt = CachedReceipt(g, CachedPlan(g))
        BY <3>2 DEF BeginsApply, NoWork, TypeInv, TypeOK
      <4>2. QED
        BY <1>2, <3>2, <4>1
    <3>3. QED
      BY <2>1, <3>1, <3>2, Applying DEF Installing
  <2>2. QED
    BY <1>1, <1>2, <2>1 DEF Once
<1>3. ASSUME NEW h \in Helpers, WriteState(h), applied' # applied PROVE Once'
  <2> DEFINE r == work[h].receipt
  <2>1. /\ r \in 1..MaxApprovals /\ Installing(h) /\ pc'[h] = "consume" /\ work' = work
        /\ \A g \in Helpers \ {h} : pc'[g] = pc[g]
        /\ applied'[r][h] = applied[r][h] + 1
        /\ \A a \in 1..MaxApprovals, g \in Helpers :
              a # r \/ g # h => applied'[a][g] = applied[a][g]
    BY <1>3, Installs
  <2>2. \A g \in Helpers : applied[r][g] = 0
    BY <2>1 DEF Once
  <2>3. ASSUME NEW a \in 1..MaxApprovals, NEW g \in Helpers, NEW k \in Helpers,
               applied'[a][g] # 0, applied'[a][k] # 0
        PROVE  g = k /\ applied'[a][k] = 1
    <3>1. CASE a = r
      BY <2>1, <2>2, <2>3, <3>1
    <3>2. CASE a # r
      BY <2>1, <2>3, <3>2 DEF Once
    <3>3. QED
      BY <3>1, <3>2
  <2>4. ASSUME NEW g \in Helpers, NEW k \in Helpers, Installing(g)'
        PROVE  applied'[work'[g].receipt][k] = 0
    <3>1. g # h /\ Installing(g) /\ work'[g] = work[g]
      BY <2>1, <2>4 DEF Installing
    <3>2. work[g].receipt # r /\ applied[work[g].receipt][k] = 0
      BY <2>1, <3>1 DEF Once
    <3>3. work[g].receipt \in 1..MaxApprovals
      BY <3>1, LimitAssumption DEF CarryInv, Carries, Installing, TypeInv, TypeOK
    <3>4. QED
      BY <2>1, <3>1, <3>2, <3>3
  <2>5. QED
    BY <1>1, <2>3, <2>4 DEF Once
<1>4. QED
  BY <1>2, <1>3, Histories

(* One session installs once with an approval if it begins only with one   *)
(* that it has not installed with.                                         *)
LEMMA OnceEachStep ==
    ASSUME TypeInv, CarryInv, OnceEach, [Next]_vars,
           \A h \in Helpers :
              BeginApply(h) /\ BeginsApply(h) => applied[CachedReceipt(h, CachedPlan(h))][h] = 0
    PROVE  OnceEach'
<1>1. Given'
  BY GivenStep DEF OnceEach
<1>2. CASE applied' = applied
  <2>1. ASSUME NEW g \in Helpers, Installing(g)' PROVE applied'[work'[g].receipt][g] = 0
    <3>1. CASE GoesOn(g)
      BY <1>2, <2>1, <3>1 DEF GoesOn, Installing, OnceEach
    <3>2. CASE BeginApply(g) /\ BeginsApply(g)
      <4>1. work'[g].receipt = CachedReceipt(g, CachedPlan(g))
        BY <3>2 DEF BeginsApply, NoWork, TypeInv, TypeOK
      <4>2. QED
        BY <1>2, <3>2, <4>1
    <3>3. QED
      BY <2>1, <3>1, <3>2, Applying DEF Installing
  <2>2. QED
    BY <1>1, <1>2, <2>1 DEF OnceEach
<1>3. ASSUME NEW h \in Helpers, WriteState(h), applied' # applied PROVE OnceEach'
  <2> DEFINE r == work[h].receipt
  <2>1. /\ r \in 1..MaxApprovals /\ Installing(h) /\ pc'[h] = "consume" /\ work' = work
        /\ \A g \in Helpers \ {h} : pc'[g] = pc[g]
        /\ applied'[r][h] = applied[r][h] + 1
        /\ \A a \in 1..MaxApprovals, g \in Helpers :
              a # r \/ g # h => applied'[a][g] = applied[a][g]
    BY <1>3, Installs
  <2>2. applied[r][h] = 0
    BY <2>1 DEF OnceEach
  <2>3. \A a \in 1..MaxApprovals, g \in Helpers : applied'[a][g] <= 1
    BY <2>1, <2>2 DEF OnceEach
  <2>4. ASSUME NEW g \in Helpers, Installing(g)' PROVE applied'[work'[g].receipt][g] = 0
    <3>1. g # h /\ Installing(g) /\ work'[g] = work[g]
      BY <2>1, <2>4 DEF Installing
    <3>2. work[g].receipt \in 1..MaxApprovals
      BY <3>1, LimitAssumption DEF CarryInv, Carries, Installing, TypeInv, TypeOK
    <3>3. QED
      BY <2>1, <3>1, <3>2 DEF OnceEach
  <2>5. QED
    BY <1>1, <2>3, <2>4 DEF OnceEach
<1>4. QED
  BY <1>2, <1>3, Histories

(* What the next state of a handler is from: where it begins, a valid one. *)
LEMMA NextIsValid ==
    ASSUME TypeInv, [Next]_vars, NEW g \in Helpers, pc'[g] \in {"config", "state"}
    PROVE  \/ pc[g] \in {"config", "state"} /\ work'[g].next = work[g].next
           \/ work'[g].next.form = "valid"
<1> DEFINE Goal == \/ pc[g] \in {"config", "state"} /\ work'[g].next = work[g].next
                   \/ work'[g].next.form = "valid"
<1>1. ASSUME work'[g] = work[g], pc'[g] = pc[g] PROVE Goal
  BY <1>1
<1>2. ASSUME NEW h \in Helpers, Return(h) PROVE Goal
  BY <1>1, <1>2, ReturnType
<1>3. ASSUME NEW h \in Helpers, NEW label, NEW w, Start(h, label, w),
             label \in {"config", "state"} => w.next.form = "valid"
      PROVE  Goal
  BY <1>1, <1>3 DEF Start, Goto, TypeInv, TypeOK
<1>4. ASSUME NEW h \in Helpers, PlanConfig(h) PROVE Goal
  <2>1. ASSUME NEW t, work' = [work EXCEPT ![h].text = t], Goto(h, "plan") PROVE Goal
    BY <1>1, <2>1 DEF Goto, TypeInv, TypeOK
  <2>2. QED
    BY <1>2, <1>4, <2>1 DEF PlanConfig
<1>5. ASSUME NEW h \in Helpers, ReadState(h) PROVE Goal
  <2> DEFINE next == Activated(work[h].client, work[h].plan.id.services)
  <2>1. CASE work' = [work EXCEPT ![h].next = next] /\ Goto(h, "config")
    <3>1. next.form = "valid"
      BY DEF Activated
    <3>2. CASE g = h
      <4>1. work[h] \in Work
        BY DEF TypeInv, TypeOK
      <4>2. work'[h].next = next
        BY <2>1, <4>1 DEF TypeInv, TypeOK, Work
      <4>3. QED
        BY <3>1, <3>2, <4>2
    <3>3. CASE g # h
      BY <1>1, <2>1, <3>3 DEF Goto, TypeInv, TypeOK
    <3>4. QED
      BY <3>2, <3>3
  <2>2. QED
    BY <1>2, <1>5, <2>1 DEF ReadState
<1>6. ASSUME NEW h \in Helpers, WriteConfig(h) PROVE Goal
  BY <1>6 DEF WriteConfig, Goto, TypeInv, TypeOK
<1>7. ASSUME NEW h \in Helpers, WriteState(h) PROVE Goal
  <2>1. CASE Goto(h, "consume") /\ UNCHANGED work
    BY <2>1 DEF Goto, TypeInv, TypeOK
  <2>2. QED
    BY <1>2, <1>7, <2>1 DEF WriteState
<1>8. ASSUME NEW h \in Helpers, Consume(h) \/ Crash(h) PROVE Goal
  BY <1>2, <1>8 DEF Consume, Crash
<1>9. ASSUME NEW h \in Helpers, ReadOwned(h) \/ EraseOwned(h) PROVE Goal
  <2>1. pc'[h] \notin {"config", "state"} /\ (g # h => pc'[g] = pc[g] /\ work'[g] = work[g])
    BY <1>9, ResetSteps, ReturnType
  <2>2. QED
    BY <1>1, <2>1
<1>10. ASSUME NEW h \in Helpers, BeginRepair(h) PROVE Goal
  BY <1>3, <1>10 DEF BeginRepair, Installed, NoWork
<1>11. ASSUME NEW h \in Helpers, NEW S \in SUBSET Services, BeginDecision(h, S) PROVE Goal
  <2>1. state \in State
    BY DEF TypeInv, TypeOK
  <2>2. Declined(S).form = "valid"
    BY <2>1 DEF Declined, State
  <2>3. QED
    BY <1>3, <1>11, <2>2 DEF BeginDecision, NoWork
<1>12. ASSUME NEW h \in Helpers, BeginReset(h) PROVE Goal
  BY <1>3, <1>12 DEF BeginReset
<1>13. ASSUME NEW h \in Helpers, BeginApply(h) PROVE Goal
  <2>1. CASE BeginsApply(h)
    BY <1>1, <2>1 DEF BeginsApply, TypeInv, TypeOK
  <2>2. QED
    BY <1>1, <1>13, <2>1, BeginApplies
<1>14. CASE UNCHANGED <<pc, work>>
  BY <1>1, <1>14
<1>15. ASSUME NEW h \in Helpers,
              Approve(h) \/ \E S \in SUBSET Services, r \in BOOLEAN : Propose(h, S, r)
       PROVE  UNCHANGED <<pc, work>>
  BY <1>15 DEF Approve, Propose
<1>16. Expire \/ Damage \/ (\E c \in ClientSet : Edit(c)) \/ UNCHANGED vars
         => UNCHANGED <<pc, work>>
  BY DEF Expire, Damage, Edit, vars
<1>17. QED
  BY <1>4, <1>5, <1>6, <1>7, <1>8, <1>9, <1>10, <1>11, <1>12, <1>13, <1>14, <1>15, <1>16
     DEF Next, Continue

(* What changes the state of the project.                                  *)
LEMMA StateChanges ==
    ASSUME [Next]_vars, state' # state
    PROVE  Damage \/ \E h \in Helpers : BeginReset(h) \/ WriteState(h)
<1>1. ASSUME NEW h \in Helpers, BeginApply(h) \/ BeginRepair(h)
               \/ \E S \in SUBSET Services : BeginDecision(h, S)
      PROVE  state' = state
  BY <1>1 DEF BeginApply, BeginRepair, BeginDecision, fileVars
<1>2. ASSUME NEW h \in Helpers, PlanConfig(h) \/ ReadState(h) \/ WriteConfig(h) \/ Consume(h)
               \/ ReadOwned(h) \/ EraseOwned(h) \/ Crash(h) \/ Approve(h)
               \/ \E S \in SUBSET Services, r \in BOOLEAN : Propose(h, S, r)
      PROVE  state' = state
  BY <1>2 DEF PlanConfig, ReadState, WriteConfig, Consume, ReadOwned, EraseOwned, Crash, Approve,
     Propose, fileVars
<1>3. Expire \/ (\E c \in ClientSet : Edit(c)) \/ UNCHANGED vars => state' = state
  BY DEF Expire, Edit, vars, fileVars
<1>4. QED
  BY <1>1, <1>2, <1>3 DEF Next, Continue

(* While no file is reset or damaged it is the write of a handler.         *)
LEMMA StateWritten ==
    ASSUME TypeInv, [Next]_vars, spent'.resets = 0, "damage" \notin mishaps'
    PROVE  \/ state' = state
           \/ \E h \in Helpers : WriteState(h) /\ state' = Written(h)
<1>1. ASSUME NEW h \in Helpers, BeginReset(h) PROVE FALSE
  <2>1. spent'.resets = spent.resets + 1 /\ spent.resets \in Nat
    BY <1>1 DEF BeginReset, TypeInv, TypeOK
  <2>2. QED
    BY <2>1
<1>2. ASSUME NEW h \in Helpers, WriteState(h)
      PROVE  state' = state \/ state' = Written(h)
  BY <1>2, Writes
<1>3. ~ Damage
  BY DEF Damage
<1>4. QED
  BY <1>1, <1>2, <1>3, StateChanges

LEMMA GrowStep == TypeInv /\ CarryInv /\ GrowInv /\ [Next]_vars => GrowInv'
<1> SUFFICES ASSUME TypeInv, CarryInv, [Next]_vars, NoClash, Once, Growing,
                    "clash" \notin mishaps', spent'.resets = 0, "damage" \notin mishaps'
             PROVE  NoClash' /\ Once' /\ Growing'
  BY MishapsStay, Histories DEF GrowInv
<1>1. NoClash'
  BY NoClashStep
<1>2. state.rev \in Nat /\ Len(receipts) \in Nat
      /\ Len(receipts) <= MaxApprovals /\ MaxApprovals \in Nat
      /\ \A a \in 1..Len(receipts) : receipts[a].plan.id.base.rev \in Nat
  <2>1. state.rev \in Nat /\ receipts \in Seq([plan : Plan, shown : Plan])
    BY DEF TypeInv, TypeOK, State
  <2>2. MaxApprovals \in Nat
    BY LimitAssumption
  <2>3. ASSUME NEW a \in 1..Len(receipts) PROVE receipts[a].plan.id.base.rev \in Nat
    <3>1. PICK plan \in Plan : plan = receipts[a].plan
      BY ReceiptType
    <3>2. plan.id.base \in State
      BY PlanType
    <3>3. QED
      BY <3>1, <3>2 DEF State
  <2>4. QED
    BY <2>1, <2>2, <2>3 DEF CarryInv
<1>3. Once'
  <2>1. ASSUME NEW g \in Helpers, NEW h \in Helpers, BeginApply(h), BeginsApply(h)
        PROVE  applied[CachedReceipt(h, CachedPlan(h))][g] = 0
    <3>1. PICK a \in 1..Len(receipts) :
            a = CachedReceipt(h, CachedPlan(h)) /\ state = receipts[a].plan.id.base
      BY <2>1 DEF BeginsApply
    <3>2. a \in 1..MaxApprovals
      BY <1>2
    <3>3. QED
      BY <1>2, <3>1, <3>2 DEF Growing
  <2>2. ASSUME NEW g \in Helpers, NEW h \in Helpers, g # h, Installing(g), Installing(h),
               work[g].receipt = work[h].receipt
        PROVE  FALSE
    <3>1. work[g].client = work[h].client
      BY <2>2 DEF CarryInv, Carries, Installing
    <3>2. g \in Busy /\ h \in Busy
      BY <2>2 DEF Installing, TypeInv, InPlace, Busy
    <3>3. QED
      BY <2>2, <3>1, <3>2 DEF NoClash, Clash, Installing
  <2>3. QED
    BY <2>1, <2>2, OnceStep
<1>4. /\ state'.form # "invalid" /\ (state'.form = "absent" => state'.rev = 0)
      /\ state'.rev \in Nat /\ state.rev <= state'.rev
      /\ \A h \in Helpers : WriteState(h) /\ state' = Written(h) => state.rev < state'.rev
  <2>1. ASSUME NEW h \in Helpers, WriteState(h), state' = Written(h)
        PROVE  state'.form = "valid" /\ state'.rev = state.rev + 1
    <3>1. pc[h] = "state" /\ work[h].next \in State
      BY <2>1, Writes DEF TypeInv, TypeOK, Work
    <3>2. work[h].next.form = "valid"
      BY <3>1 DEF Growing
    <3>3. state.form # "valid" => state.rev = 0
      BY DEF Growing, TypeInv, TypeOK, State
    <3>4. QED
      BY <1>2, <2>1, <3>1, <3>2, <3>3 DEF Written, State
  <2>2. CASE state' = state
    BY <1>2, <2>1, <2>2 DEF Growing
  <2>3. QED
    BY <1>2, <2>1, <2>2, StateWritten
<1>5. ASSUME NEW h \in Helpers, pc'[h] \in {"config", "state"}
      PROVE  work'[h].next.form = "valid"
  BY <1>5, NextIsValid DEF Growing
<1>6. ASSUME NEW h \in Helpers, Installing(h)'
      PROVE  work'[h].plan.id.base.rev <= state'.rev
  <2>1. CASE GoesOn(h)
    <3>1. work'[h].plan = work[h].plan /\ Installing(h)
      BY <1>6, <2>1 DEF GoesOn, Installing
    <3>2. work[h].plan.id.base.rev \in Nat /\ work[h].plan.id.base.rev <= state.rev
      <4>1. work[h].plan \in Plan
        BY <3>1 DEF Installing, TypeInv, InPlace
      <4>2. QED
        BY <3>1, <4>1, PlanType DEF Growing, State
    <3>3. QED
      BY <1>2, <1>4, <3>1, <3>2
  <2>2. CASE BeginApply(h) /\ BeginsApply(h)
    <3>1. work'[h].plan.id.base = state
      BY <2>2 DEF BeginsApply, NoWork, TypeInv, TypeOK
    <3>2. QED
      BY <1>4, <3>1
  <2>3. QED
    BY <1>6, <2>1, <2>2, Applying DEF Installing
<1>7. ASSUME NEW a \in 1..MaxApprovals, NEW k \in Helpers, applied'[a][k] # 0
      PROVE  receipts'[a].plan.id.base.rev < state'.rev
  <2>1. CASE applied[a][k] # 0
    <3>1. a \in 1..Len(receipts) /\ receipts[a].plan.id.base.rev < state.rev
      BY <1>2, <2>1 DEF Once, Given, Growing
    <3>2. receipts'[a] = receipts[a]
      BY <3>1, Histories
    <3>3. QED
      BY <1>2, <1>4, <3>1, <3>2
  <2>2. CASE applied[a][k] = 0
    <3>1. PICK h \in Helpers : WriteState(h)
      BY <1>7, <2>2, Histories
    <3>2. /\ state' = Written(h) /\ receipts' = receipts /\ Installing(h)
          /\ work[h].receipt = a /\ a \in 1..Len(receipts)
      BY <1>7, <2>2, <3>1, Installs
    <3>3. work[h].plan.id = receipts[a].plan.id
      BY <3>2 DEF Installing, CarryInv, Carries
    <3>4. receipts[a].plan.id.base.rev <= state.rev
      BY <3>2, <3>3 DEF Growing
    <3>5. QED
      BY <1>2, <1>4, <3>1, <3>2, <3>4
  <2>3. QED
    BY <2>1, <2>2
<1>8. QED
  BY <1>1, <1>3, <1>4, <1>5, <1>6, <1>7 DEF Growing

(* What a process has consumed, it forgets only by ending.                 *)
LEMMA ConsumedStay ==
    ASSUME TypeInv, [Next]_vars, spent'.crashes = 0, NEW g \in Helpers
    PROVE  mem[g].consumed \subseteq mem'[g].consumed
<1> DEFINE Process == [plan : Plan \cup {NoPlan}, receipt : Nat,
                       consumed : SUBSET (1..Len(receipts))]
<1>1. mem \in [Helpers -> Process]
  BY DEF TypeInv, TypeOK
<1>2. ASSUME NEW h \in Helpers, Crash(h) PROVE FALSE
  <2>1. spent'.crashes = spent.crashes + 1 /\ spent.crashes \in Nat
    BY <1>2 DEF Crash, TypeInv, TypeOK
  <2>2. QED
    BY <2>1
<1>3. ASSUME NEW h \in Helpers, Approve(h) \/ BeginApply(h)
               \/ \E S \in SUBSET Services, r \in BOOLEAN : Propose(h, S, r)
      PROVE  mem'[g].consumed = mem[g].consumed
  <2>1. ASSUME NEW plan, NEW a, mem' = [mem EXCEPT ![h].plan = plan, ![h].receipt = a]
        PROVE  mem'[g].consumed = mem[g].consumed
    BY <1>1, <2>1
  <2>2. ASSUME NEW plan, mem' = [mem EXCEPT ![h].plan = plan]
        PROVE  mem'[g].consumed = mem[g].consumed
    BY <1>1, <2>2
  <2>3. CASE Approve(h)
    BY <2>1, <2>3 DEF Approve
  <2>4. CASE BeginApply(h)
    BY <1>1, <2>4 DEF BeginApply
  <2>5. QED
    BY <1>3, <2>2, <2>3, <2>4 DEF Propose
<1>4. ASSUME NEW h \in Helpers, Consume(h) PROVE mem[g].consumed \subseteq mem'[g].consumed
  <2>1. CASE mem' = mem
    BY <2>1
  <2>2. CASE mem' = [mem EXCEPT ![h].consumed = @ \cup {work[h].receipt}]
    BY <1>1, <2>2
  <2>3. QED
    BY <1>4, <2>1, <2>2 DEF Consume
<1>5. ASSUME NEW h \in Helpers, PlanConfig(h) \/ ReadState(h) \/ WriteConfig(h) \/ WriteState(h)
               \/ ReadOwned(h) \/ EraseOwned(h) \/ BeginRepair(h) \/ BeginReset(h)
               \/ \E S \in SUBSET Services : BeginDecision(h, S)
      PROVE  mem' = mem
  BY <1>5 DEF PlanConfig, ReadState, WriteConfig, WriteState, ReadOwned, EraseOwned, BeginRepair,
     BeginReset, BeginDecision, cacheVars
<1>6. Expire \/ Damage \/ (\E c \in ClientSet : Edit(c)) \/ UNCHANGED vars => mem' = mem
  BY DEF Expire, Damage, Edit, vars, cacheVars
<1>7. QED
  BY <1>2, <1>3, <1>4, <1>5, <1>6 DEF Next, Continue

(* A handler leaves its last step only by taking it.                       *)
LEMMA ConsumeStays ==
    ASSUME TypeInv, [Next]_vars, spent'.crashes = 0, NEW g \in Helpers, pc[g] = "consume"
    PROVE  (pc'[g] = "consume" /\ work'[g] = work[g]) \/ Consume(g)
<1>1. ASSUME NEW h \in Helpers, Crash(h) PROVE FALSE
  <2>1. spent'.crashes = spent.crashes + 1 /\ spent.crashes \in Nat
    BY <1>1 DEF Crash, TypeInv, TypeOK
  <2>2. QED
    BY <2>1
<1>2. ASSUME NEW h \in Helpers, PlanConfig(h) \/ ReadState(h) \/ WriteConfig(h) \/ WriteState(h)
               \/ ReadOwned(h) \/ EraseOwned(h)
      PROVE  pc'[g] = pc[g] /\ work'[g] = work[g]
  <2>1. pc[h] # "consume"
    BY <1>2 DEF PlanConfig, ReadState, WriteConfig, WriteState, ReadOwned, EraseOwned
  <2>2. QED
    BY <1>2, <2>1 DEF PlanConfig, ReadState, WriteConfig, WriteState, ReadOwned, EraseOwned,
       Return, Goto, TypeInv, TypeOK
<1>3. ASSUME NEW h \in Helpers, NEW label, NEW w, pc[h] = "idle", Start(h, label, w)
      PROVE  pc'[g] = pc[g] /\ work'[g] = work[g]
  BY <1>3 DEF Start, Goto, TypeInv, TypeOK
<1>4. ASSUME NEW h \in Helpers, BeginRepair(h) \/ BeginReset(h)
               \/ \E S \in SUBSET Services : BeginDecision(h, S)
      PROVE  pc'[g] = pc[g] /\ work'[g] = work[g]
  BY <1>3, <1>4 DEF BeginRepair, BeginReset, BeginDecision
<1>5. ASSUME NEW h \in Helpers, BeginApply(h) PROVE pc'[g] = pc[g] /\ work'[g] = work[g]
  BY <1>3, <1>5 DEF BeginApply
<1>6. ASSUME NEW h \in Helpers, Consume(h), h # g PROVE pc'[g] = pc[g] /\ work'[g] = work[g]
  BY <1>6 DEF Consume, Return, Goto, TypeInv, TypeOK
<1>7. ASSUME NEW h \in Helpers,
             Approve(h) \/ \E S \in SUBSET Services, r \in BOOLEAN : Propose(h, S, r)
      PROVE  UNCHANGED <<pc, work>>
  BY <1>7 DEF Approve, Propose
<1>8. Expire \/ Damage \/ (\E c \in ClientSet : Edit(c)) \/ UNCHANGED vars
        => UNCHANGED <<pc, work>>
  BY DEF Expire, Damage, Edit, vars
<1>9. QED
  BY <1>1, <1>2, <1>4, <1>5, <1>6, <1>7, <1>8 DEF Next, Continue

LEMMA MemoryStep == TypeInv /\ CarryInv /\ MemoryInv /\ [Next]_vars => MemoryInv'
<1> SUFFICES ASSUME TypeInv, CarryInv, [Next]_vars, OnceEach, \A h \in Helpers : Remembered(h),
                    spent'.crashes = 0
             PROVE  OnceEach' /\ \A h \in Helpers : Remembered(h)'
  BY Histories DEF MemoryInv
<1>2. Len(receipts) \in Nat /\ Len(receipts) <= MaxApprovals /\ MaxApprovals \in Nat
  BY LimitAssumption DEF CarryInv, TypeInv, TypeOK
<1>3. OnceEach'
  <2>1. ASSUME NEW h \in Helpers, BeginApply(h), BeginsApply(h)
        PROVE  applied[CachedReceipt(h, CachedPlan(h))][h] = 0
    <3>1. PICK a \in 1..Len(receipts) :
            a = CachedReceipt(h, CachedPlan(h)) /\ a \notin mem[h].consumed
              /\ Live(receipts[a].plan)
      BY <2>1 DEF BeginsApply
    <3>2. a \in 1..MaxApprovals /\ pc[h] = "idle"
      BY <1>2, <2>1 DEF BeginApply
    <3>3. QED
      BY <3>1, <3>2 DEF Remembered
  <2>2. QED
    BY <2>1, OnceEachStep
<1>4. ASSUME NEW h \in Helpers, NEW a \in 1..MaxApprovals, applied'[a][h] # 0
      PROVE  \/ a \in mem'[h].consumed
             \/ ~ Live(receipts[a].plan)'
             \/ pc'[h] = "consume" /\ work'[h].receipt = a
  <2>1. CASE applied[a][h] # 0
    <3>1. a \in 1..Len(receipts) /\ receipts'[a] = receipts[a]
      BY <1>2, <2>1, Histories DEF OnceEach, Given
    <3>2. ~ Live(receipts[a].plan) => ~ Live(receipts[a].plan)'
      <4>1. PICK plan \in Plan : plan = receipts[a].plan
        BY <3>1, ReceiptType
      <4>2. plan.challenge \in Nat
        BY PlanType
      <4>3. expired \in Nat /\ expired' \in Nat /\ expired <= expired'
        <5>1. TypeOK /\ TypeOK'
          BY TypeStep DEF TypeInv
        <5>2. QED
          BY <5>1, Histories DEF TypeOK
      <4>4. QED
        BY <3>1, <4>1, <4>2, <4>3 DEF Live
    <3>3. CASE pc[h] = "consume" /\ work[h].receipt = a
      <4>1. ASSUME Consume(h)
            PROVE  a \in mem'[h].consumed \/ ~ Live(receipts[a].plan)
        <5>1. a # 0
          BY <3>1
        <5>2. CASE ReceiptsValid(h, a)
          BY <3>3, <4>1, <5>2 DEF Consume, TypeInv, TypeOK
        <5>3. CASE ~ ReceiptsValid(h, a)
          BY <3>3, <4>1, <5>1, <5>3 DEF Consume, ReceiptsValid
        <5>4. QED
          BY <5>2, <5>3
      <4>2. QED
        BY <3>2, <3>3, <4>1, ConsumeStays
    <3>4. QED
      BY <2>1, <3>2, <3>3, ConsumedStay DEF Remembered
  <2>2. CASE applied[a][h] = 0
    <3>1. PICK k \in Helpers : WriteState(k)
      BY <1>4, <2>2, Histories
    <3>2. k = h /\ pc'[h] = "consume" /\ work' = work /\ work[h].receipt = a
      BY <1>4, <2>2, <3>1, Installs
    <3>3. QED
      BY <3>2
  <2>3. QED
    BY <2>1, <2>2
<1>5. QED
  BY <1>3, <1>4 DEF Remembered

LEMMA OnceInit == Init => CarryInv /\ GrowInv /\ MemoryInv
<1> SUFFICES ASSUME Init PROVE CarryInv /\ GrowInv /\ MemoryInv
  OBVIOUS
<1>1. /\ \A h \in Helpers : work[h].kind = "none" /\ pc[h] = "idle"
      /\ \A a \in 1..MaxApprovals, h \in Helpers : applied[a][h] = 0
      /\ Len(receipts) = 0 /\ MaxApprovals \in Nat
      /\ state.form = "absent" /\ state.rev = 0
  BY LimitAssumption DEF Init, NoWork, NoState
<1>2. CarryInv
  BY <1>1 DEF CarryInv, Carries
<1>3. Once /\ OnceEach /\ Growing /\ NoClash /\ \A h \in Helpers : Remembered(h)
  BY <1>1 DEF Once, OnceEach, Given, Growing, NoClash, Busy, Remembered, Installing
<1>4. QED
  BY <1>2, <1>3 DEF GrowInv, MemoryInv

(* One approval covers one installation: while no file is reset or damaged *)
(* and no two handlers rewrite one config, whatever sessions overlap and   *)
(* processes die; and of one session while no process dies, whatever is    *)
(* reset, damaged or expires and whatever the other sessions do.           *)
THEOREM OnceSafety == Spec => []OneInstallPerApproval
<1>1. TypeInv /\ GrowInv /\ MemoryInv => OneInstallPerApproval
  BY DEF TypeInv, TypeOK, GrowInv, MemoryInv, Once, OnceEach, OneInstallPerApproval
<1>2. QED
  BY <1>1, OnceInit, TypeInit, TypeStep, CarryStep, GrowStep, MemoryStep, PTL DEF Spec

-------------------------------------------------------------------------------
(* What the sessions record.                                               *)

(* st has every record, but for the job of the clients in own and for the  *)
(* declined services in dropped.                                           *)
Covers(st, own, dropped) ==
    /\ recorded.declined \ dropped \subseteq st.declined
    /\ \A c \in ClientSet \ own : recorded.jobs[c] # {} => recorded.jobs[c] = st.jobs[c]

(* What h is about to write has every record, but for the job and the      *)
(* services that h itself installs.                                        *)
NextCovers(h) ==
    LET w == work[h] IN
    /\ w.next.form = "valid"
    /\ w.kind # "apply" => Covers(w.next, {}, {})
    /\ w.kind = "apply" =>
          /\ Covers(w.next, {w.client}, w.plan.id.services)
          /\ w.next.jobs[w.client] = w.plan.id.services

RecordsInv ==
    /\ recorded # NoRecords => state.form = "valid"
    /\ Covers(state, {}, {})
    /\ \A h \in Helpers : pc[h] \in {"config", "state"} => NextCovers(h)

(* No record is added and g computes no state.                             *)
LEMMA NextQuiet ==
    ASSUME RecordsInv, NEW g \in Helpers, pc'[g] \in {"config", "state"},
           pc[g] \in {"config", "state"} /\ work'[g] = work[g],
           recorded'.declined \subseteq recorded.declined,
           \A c \in ClientSet : recorded'.jobs[c] \in {{}, recorded.jobs[c]}
    PROVE  NextCovers(g)'
<1>1. NextCovers(g)
  BY DEF RecordsInv
<1>2. \A own, dropped :
         Covers(work[g].next, own, dropped)
           => /\ recorded'.declined \ dropped \subseteq work[g].next.declined
              /\ \A c \in ClientSet \ own :
                    recorded'.jobs[c] # {} => recorded'.jobs[c] = work[g].next.jobs[c]
  BY DEF Covers
<1>3. QED
  BY <1>1, <1>2 DEF NextCovers, Covers

(* A step that reads and writes no state and computes none.                *)
LEMMA RecordsQuiet ==
    ASSUME RecordsInv, state' = state, recorded' = recorded,
           \A g \in Helpers : pc'[g] \in {"config", "state"} =>
              pc[g] \in {"config", "state"} /\ work'[g] = work[g]
    PROVE  RecordsInv'
<1>1. \A g \in Helpers : pc'[g] \in {"config", "state"} => NextCovers(g)'
  BY NextQuiet
<1>2. QED
  BY <1>1 DEF RecordsInv, Covers

(* A handler that computes a state from the file as it is now.             *)
LEMMA RecordsRead ==
    ASSUME RecordsInv, state' = state, recorded' = recorded, NEW h \in Helpers,
           NextCovers(h)',
           \A g \in Helpers \ {h} : pc'[g] = pc[g] /\ work'[g] = work[g]
    PROVE  RecordsInv'
<1>1. \A g \in Helpers \ {h} : pc'[g] \in {"config", "state"} => NextCovers(g)'
  BY NextQuiet
<1>2. QED
  BY <1>1 DEF RecordsInv, Covers

(* Nothing is on record of a file that is not there or not valid.          *)
LEMMA NothingRecorded ==
    ASSUME RecordsInv, state.form # "valid"
    PROVE  recorded.declined = {} /\ \A c \in ClientSet : recorded.jobs[c] = {}
BY DEF RecordsInv, NoRecords, NoServices

LEMMA RecordsStep == TypeInv /\ RecordsInv /\ [Next]_vars => RecordsInv'
<1> SUFFICES ASSUME TypeInv, RecordsInv, [Next]_vars PROVE RecordsInv'
  OBVIOUS
<1>a. /\ state \in State /\ recorded \in Records
      /\ work \in [Helpers -> Work] /\ pc \in [Helpers -> Label]
  BY DEF TypeInv, TypeOK
<1>1. ASSUME NEW h \in Helpers, ReadState(h) PROVE RecordsInv'
  <2> DEFINE c == work[h].client
             S == work[h].plan.id.services
             next == Activated(c, S)
  <2>1. state' = state /\ recorded' = recorded /\ pc[h] = "plan"
    BY <1>1 DEF ReadState, fileVars
  <2>2. CASE Return(h)
    BY <2>1, <2>2, ReturnType, RecordsQuiet
  <2>3. CASE work' = [work EXCEPT ![h].next = next] /\ Goto(h, "config")
    <3>1. /\ work'[h].next = next /\ work'[h].client = c /\ work'[h].plan = work[h].plan
          /\ work'[h].kind = work[h].kind
          /\ \A g \in Helpers \ {h} : pc'[g] = pc[g] /\ work'[g] = work[g]
      BY <1>a, <2>3 DEF Work, Goto
    <3>2. work[h].kind = "apply" /\ work[h].plan \in Plan /\ c \in ClientSet
      BY <1>a, <2>1 DEF TypeInv, InPlace, Work
    <3>3. S \in SUBSET Services
      BY <3>2, PlanType
    <3>4. next.form = "valid" /\ next.jobs[c] = S
      BY <1>a, <3>2, <3>3, ActivatedType DEF Activated
    <3>5. recorded.declined \ S \subseteq next.declined
      BY NothingRecorded DEF RecordsInv, Covers, Activated
    <3>6. ASSUME NEW k \in ClientSet \ {c}, recorded.jobs[k] # {}
          PROVE  recorded.jobs[k] = next.jobs[k]
      <4>1. state.form = "valid" /\ recorded.jobs[k] = state.jobs[k]
        BY <3>6, NothingRecorded DEF RecordsInv, Covers
      <4>2. next.jobs[k] = state.jobs[k]
        BY <1>a, <3>2, <4>1 DEF Activated, State
      <4>3. QED
        BY <4>1, <4>2
    <3> HIDE DEF next, S, c
    <3>7. Covers(next, {c}, S)
      BY <3>5, <3>6 DEF Covers
    <3>8. NextCovers(h)'
      BY <2>1, <3>1, <3>2, <3>4, <3>7 DEF NextCovers, Covers, S
    <3>9. QED
      BY <2>1, <3>1, <3>8, RecordsRead
  <2>4. QED
    BY <1>1, <2>2, <2>3 DEF ReadState
<1>2. ASSUME NEW h \in Helpers, BeginRepair(h) PROVE RecordsInv'
  <2> DEFINE w == [NoWork EXCEPT !.kind = "repair", !.client = ClientOf[h], !.next = state,
                     !.text = Activate(config[ClientOf[h]], state.jobs[ClientOf[h]])]
  <2>1. w.next = state /\ w.kind = "repair" /\ state.form = "valid"
    BY <1>2 DEF NoWork, BeginRepair, Installed
  <2>2. state' = state /\ recorded' = recorded /\ Start(h, "config", w)
    BY <1>2 DEF BeginRepair, fileVars
  <2>3. /\ work'[h] = w
        /\ \A g \in Helpers \ {h} : pc'[g] = pc[g] /\ work'[g] = work[g]
    BY <1>a, <2>2 DEF Start, Goto
  <2> HIDE DEF w
  <2>4. NextCovers(h)'
    BY <2>1, <2>2, <2>3 DEF RecordsInv, NextCovers, Covers
  <2>5. QED
    BY <2>2, <2>3, <2>4, RecordsRead
<1>3. ASSUME NEW h \in Helpers, NEW S \in SUBSET Services, BeginDecision(h, S)
      PROVE  RecordsInv'
  <2> DEFINE w == [NoWork EXCEPT !.kind = "decide", !.client = ClientOf[h],
                     !.next = Declined(S)]
  <2>1. w.next = Declined(S) /\ w.kind = "decide"
    BY DEF NoWork
  <2>2. /\ Declined(S).form = "valid" /\ Declined(S).jobs = state.jobs
        /\ state.declined \subseteq Declined(S).declined
    BY <1>a DEF Declined, State
  <2>3. state' = state /\ recorded' = recorded /\ Start(h, "state", w)
    BY <1>3 DEF BeginDecision, fileVars
  <2>4. /\ work'[h] = w
        /\ \A g \in Helpers \ {h} : pc'[g] = pc[g] /\ work'[g] = work[g]
    BY <1>a, <2>3 DEF Start, Goto
  <2> HIDE DEF w
  <2>5. NextCovers(h)'
    BY <2>1, <2>2, <2>3, <2>4 DEF RecordsInv, NextCovers, Covers
  <2>6. QED
    BY <2>3, <2>4, <2>5, RecordsRead
<1>4. ASSUME NEW h \in Helpers, WriteState(h) PROVE RecordsInv'
  <2>1. CASE state' = state /\ recorded' = recorded /\ Return(h)
    BY <2>1, ReturnType, RecordsQuiet
  <2>2. CASE state' = Written(h) /\ recorded' = RecordsAfter(h)
    <3> DEFINE w == work[h]
    <3>1. pc[h] = "state" /\ w \in Work /\ NextCovers(h)
      BY <1>4, <1>a DEF WriteState, RecordsInv
    <3>2. /\ state'.form = "valid" /\ state'.jobs = w.next.jobs
          /\ state'.declined = w.next.declined
      BY <2>2, <3>1 DEF NextCovers, Written, Work, State
    <3>3. pc'[h] \notin {"config", "state"}
          /\ \A g \in Helpers \ {h} : pc'[g] = pc[g] /\ work'[g] = work[g]
      BY <1>4, <1>a DEF WriteState, Return, Goto
    <3>4. recorded.jobs \in [ClientSet -> SUBSET Services]
      BY <1>a DEF Records
    <3>5. CASE w.kind = "apply"
      <4>1. /\ recorded'.declined = recorded.declined \ w.plan.id.services
            /\ recorded'.jobs = [recorded.jobs EXCEPT ![w.client] =
                                   IF AboutToReplace(h) THEN {} ELSE w.plan.id.services]
        BY <2>2, <3>5 DEF RecordsAfter
      <4>2. Covers(state, {}, {})'
        BY <3>1, <3>2, <3>4, <3>5, <4>1 DEF NextCovers, Covers, Work
      <4>3. ASSUME NEW g \in Helpers, pc'[g] \in {"config", "state"} PROVE NextCovers(g)'
        <5>1. g # h /\ pc[g] \in {"config", "state"} /\ work'[g] = work[g]
          BY <3>3, <4>3
        <5>2. AboutToReplace(h)
          BY <5>1 DEF AboutToReplace
        <5>3. \A c \in ClientSet : recorded'.jobs[c] \in {{}, recorded.jobs[c]}
          BY <3>4, <4>1, <5>2
        <5>4. QED
          BY <4>1, <4>3, <5>1, <5>3, NextQuiet
      <4>4. QED
        BY <3>2, <4>2, <4>3 DEF RecordsInv
    <3>6. CASE w.kind # "apply" /\ recorded' = recorded
      <4>1. Covers(state, {}, {})'
        BY <3>1, <3>2, <3>6 DEF NextCovers, Covers
      <4>2. \A g \in Helpers : pc'[g] \in {"config", "state"} => NextCovers(g)'
        BY <3>3, <3>6, NextQuiet
      <4>3. QED
        BY <3>2, <4>1, <4>2 DEF RecordsInv
    <3>7. CASE w.kind = "decide" /\ ~AboutToReplace(h)
      <4>1. recorded' = [recorded EXCEPT !.declined = @ \cup w.next.declined]
        BY <2>2, <3>7 DEF RecordsAfter
      <4>2. recorded'.declined = recorded.declined \cup w.next.declined
            /\ recorded'.jobs = recorded.jobs
        BY <1>a, <4>1 DEF Records
      <4>3. Covers(state, {}, {})'
        BY <3>1, <3>2, <3>7, <4>2 DEF NextCovers, Covers
      <4>4. \A g \in Helpers : pc'[g] \notin {"config", "state"}
        BY <3>3, <3>7 DEF AboutToReplace
      <4>5. QED
        BY <3>2, <4>3, <4>4 DEF RecordsInv
    <3>8. QED
      BY <2>2, <3>5, <3>6, <3>7 DEF RecordsAfter
  <2>3. QED
    BY <1>4, <2>1, <2>2 DEF WriteState, Written
<1>5. ASSUME recorded' = NoRecords, UNCHANGED <<pc, work>>
                 \/ \E h \in Helpers, w \in Work : Start(h, "reset", w)
      PROVE  RecordsInv'
  <2>1. recorded'.declined = {} /\ \A c \in ClientSet : recorded'.jobs[c] = {}
    BY <1>5 DEF NoRecords, NoServices
  <2>2. \A g \in Helpers : pc'[g] \in {"config", "state"} =>
           pc[g] \in {"config", "state"} /\ work'[g] = work[g]
    BY <1>5, <1>a DEF Start, Goto
  <2>3. \A g \in Helpers : pc'[g] \in {"config", "state"} => NextCovers(g)'
    BY <2>1, <2>2, NextQuiet
  <2>4. QED
    BY <1>5, <2>1, <2>3 DEF RecordsInv, Covers
<1>6. ASSUME NEW h \in Helpers, BeginReset(h) PROVE RecordsInv'
  <2>1. [NoWork EXCEPT !.kind = "reset", !.left = Clients] \in Work
    BY NoWorkType, ClientAssumption DEF NoWork, Work
  <2>2. QED
    BY <1>5, <1>6, <2>1 DEF BeginReset
<1>7. CASE Damage
  BY <1>5, <1>7 DEF Damage
<1>8. ASSUME NEW h \in Helpers, PlanConfig(h) PROVE RecordsInv'
  <2>1. /\ state' = state /\ recorded' = recorded /\ pc'[h] \notin {"config", "state"}
        /\ \A g \in Helpers \ {h} : pc'[g] = pc[g] /\ work'[g] = work[g]
    BY <1>8, <1>a DEF PlanConfig, fileVars, Return, Goto
  <2>2. QED
    BY <2>1, RecordsQuiet
<1>9. ASSUME NEW h \in Helpers, WriteConfig(h) PROVE RecordsInv'
  <2>1. /\ state' = state /\ recorded' = recorded /\ pc[h] = "config" /\ work' = work
        /\ \A g \in Helpers \ {h} : pc'[g] = pc[g]
    BY <1>9, <1>a DEF WriteConfig, Goto
  <2>2. QED
    BY <2>1, RecordsQuiet
<1>10. ASSUME NEW h \in Helpers, Consume(h) \/ Crash(h) PROVE RecordsInv'
  <2>1. state' = state /\ recorded' = recorded /\ Return(h)
    BY <1>10 DEF Consume, Crash, fileVars
  <2>2. QED
    BY <2>1, ReturnType, RecordsQuiet
<1>11. ASSUME NEW h \in Helpers, ReadOwned(h) \/ EraseOwned(h) PROVE RecordsInv'
  BY <1>11, ResetSteps, ReturnType, RecordsQuiet
<1>12. ASSUME NEW h \in Helpers, BeginApply(h) PROVE RecordsInv'
  <2>1. state' = state /\ recorded' = recorded
    BY <1>12 DEF BeginApply, fileVars
  <2>2. CASE BeginsApply(h)
    <3>1. pc'[h] = "provision"
          /\ \A g \in Helpers \ {h} : pc'[g] = pc[g] /\ work'[g] = work[g]
      BY <1>a, <2>2 DEF BeginsApply
    <3>2. QED
      BY <2>1, <3>1, RecordsQuiet
  <2>3. QED
    BY <1>12, <2>1, <2>2, BeginApplies, RecordsQuiet
<1>13. ASSUME NEW h \in Helpers,
              Approve(h) \/ \E S \in SUBSET Services, r \in BOOLEAN : Propose(h, S, r)
       PROVE  UNCHANGED <<state, recorded, pc, work>>
  BY <1>13 DEF Approve, Propose, fileVars
<1>14. Expire \/ (\E c \in ClientSet : Edit(c)) \/ UNCHANGED vars
         => UNCHANGED <<state, recorded, pc, work>>
  BY DEF Expire, Edit, vars, fileVars
<1>15. CASE UNCHANGED <<state, recorded, pc, work>>
  BY <1>15, RecordsQuiet
<1>16. QED
  BY <1>1, <1>2, <1>3, <1>4, <1>6, <1>7, <1>8, <1>9, <1>10, <1>11, <1>12, <1>13, <1>14, <1>15
     DEF Next, Continue

(* However many sessions read the state and replace it later, what one of  *)
(* them recorded while no other had a replacement ready stays on record,   *)
(* whatever crashes, is approved twice or fails in between.                *)
THEOREM RecordsSafety == Spec => []RecordsKept
<1>1. Init => RecordsInv
  BY DEF Init, RecordsInv, Covers, NoRecords, NoServices
<1>2. RecordsInv => RecordsKept
  BY DEF RecordsInv, Covers, RecordsKept
<1>3. QED
  BY <1>1, <1>2, TypeInit, TypeStep, RecordsStep, PTL DEF Spec

-------------------------------------------------------------------------------
(* What the user was shown.                                                *)

(* What an only session has cached, in memory or on disk, is what it last  *)
(* showed.                                                                 *)
ShownInv ==
    Cardinality(Helpers) = 1 =>
        /\ \A h \in Helpers : mem[h].plan \in {NoPlan, shown[h]} /\ durable.plan \in {NoPlan, shown[h]}
        /\ ApprovedAsShown

LEMMA ShownStep == TypeInv /\ ShownInv /\ [Next]_vars => ShownInv'
<1> SUFFICES ASSUME TypeInv, [Next]_vars, Cardinality(Helpers) = 1, ShownInv
             PROVE  ShownInv'
  BY DEF ShownInv
<1> DEFINE Process == [plan : Plan \cup {NoPlan}, receipt : Nat,
                       consumed : SUBSET (1..Len(receipts))]
<1>1. PICK only : Helpers = {only}
  BY FS_Singleton, HelpersAssumption
<1>2. /\ mem[only].plan \in {NoPlan, shown[only]} /\ durable.plan \in {NoPlan, shown[only]}
      /\ ApprovedAsShown
  BY <1>1 DEF ShownInv
<1>3. /\ mem \in [Helpers -> Process] /\ durable \in Cache
      /\ shown \in [Helpers -> Plan \cup {NoPlan}]
      /\ receipts \in Seq([plan : Plan, shown : Plan])
  BY DEF TypeInv, TypeOK
<1>4. SUFFICES /\ mem'[only].plan \in {NoPlan, shown'[only]}
               /\ durable'.plan \in {NoPlan, shown'[only]}
               /\ ApprovedAsShown'
  BY <1>1 DEF ShownInv
<1>5. ASSUME NEW S, NEW r, Propose(only, S, r)
      PROVE  /\ mem'[only].plan \in {NoPlan, shown'[only]}
             /\ durable'.plan \in {NoPlan, shown'[only]}
             /\ receipts' = receipts
  <2>1. PICK plan : /\ mem' = [mem EXCEPT ![only].plan = plan]
                    /\ durable' = [durable EXCEPT !.plan = plan]
                    /\ shown' = [shown EXCEPT ![only] = plan]
    BY <1>5 DEF Propose
  <2>2. mem'[only].plan = plan /\ durable'.plan = plan /\ shown'[only] = plan
    BY <1>1, <1>3, <2>1 DEF Cache
  <2>3. QED
    BY <1>5, <2>2 DEF Propose
<1>6. CASE Approve(only)
  <2> DEFINE plan == CachedPlan(only)
             receipt == [plan |-> plan, shown |-> shown[only]]
  <2>1. plan = shown[only]
    BY <1>2, <1>6 DEF Approve, CachedPlan
  <2>2. /\ receipts' = Append(receipts, receipt) /\ shown' = shown
        /\ mem' = [mem EXCEPT ![only].plan = plan, ![only].receipt = Len(receipts) + 1]
        /\ durable' = [plan |-> plan, receipt |-> Len(receipts) + 1]
    BY <1>6 DEF Approve
  <2>3. mem'[only].plan = plan /\ durable'.plan = plan
    BY <1>1, <1>3, <2>2
  <2>4. ASSUME NEW i \in 1..Len(receipts') PROVE receipts'[i].plan.id = receipts'[i].shown.id
    <3> HIDE DEF receipt
    <3>1. CASE i \in 1..Len(receipts)
      BY <1>2, <1>3, <2>2, <3>1 DEF ApprovedAsShown
    <3>2. CASE i = Len(receipts) + 1
      <4>1. receipts'[i] = receipt
        BY <1>3, <2>2, <3>2
      <4>2. QED
        BY <2>1, <4>1 DEF receipt
    <3>3. QED
      BY <1>3, <2>2, <3>1, <3>2
  <2>5. QED
    BY <2>1, <2>2, <2>3, <2>4 DEF ApprovedAsShown
<1>7. CASE BeginApply(only)
  <2>1. PICK a : mem' = [mem EXCEPT ![only].plan = CachedPlan(only), ![only].receipt = a]
    BY <1>7 DEF BeginApply
  <2>2. mem'[only].plan = CachedPlan(only)
    BY <1>1, <1>3, <2>1
  <2>3. UNCHANGED <<durable, shown, receipts>>
    BY <1>7 DEF BeginApply
  <2>4. QED
    BY <1>2, <2>2, <2>3 DEF CachedPlan, ApprovedAsShown
<1>8. CASE Consume(only)
  <2>1. mem'[only].plan = mem[only].plan /\ durable'.plan \in {NoPlan, durable.plan}
    BY <1>1, <1>3, <1>8 DEF Consume, EmptyCache
  <2>2. QED
    BY <1>2, <1>8, <2>1 DEF Consume, ApprovedAsShown
<1>9. CASE Crash(only)
  <2>1. mem'[only].plan = NoPlan
    BY <1>1, <1>3, <1>9 DEF Crash, FreshProcess
  <2>2. QED
    BY <1>2, <1>9, <2>1 DEF Crash, ApprovedAsShown
<1>10. CASE UNCHANGED cacheVars
  BY <1>2, <1>10 DEF cacheVars, ApprovedAsShown
<1>11. ASSUME PlanConfig(only) \/ ReadState(only) \/ WriteConfig(only) \/ WriteState(only)
                \/ ReadOwned(only) \/ EraseOwned(only) \/ BeginRepair(only) \/ BeginReset(only)
                \/ \E S \in SUBSET Services : BeginDecision(only, S)
       PROVE  UNCHANGED cacheVars
  BY <1>11 DEF PlanConfig, ReadState, WriteConfig, WriteState, ReadOwned, EraseOwned, BeginRepair,
     BeginReset, BeginDecision
<1>12. Expire \/ Damage \/ (\E c \in ClientSet : Edit(c)) \/ UNCHANGED vars
         => UNCHANGED cacheVars
  BY DEF Expire, Damage, Edit, vars, cacheVars
<1>13. QED
  BY <1>1, <1>2, <1>5, <1>6, <1>7, <1>8, <1>9, <1>10, <1>11, <1>12 DEF Next, Continue, ApprovedAsShown

(* In a project with one session what the user approves is what he was     *)
(* shown, through crashes, resets and consumed caches: the counterexample  *)
(* to ApprovedAsShown needs a second session.                              *)
THEOREM ShownSafety ==
    ASSUME Cardinality(Helpers) = 1
    PROVE  Spec => []ApprovedAsShown
<1>1. Init => ShownInv
  BY DEF Init, ShownInv, ApprovedAsShown, FreshProcess, EmptyCache
<1>2. ShownInv => ApprovedAsShown
  BY DEF ShownInv
<1>3. QED
  BY <1>1, <1>2, TypeInit, TypeStep, ShownStep, PTL DEF Spec
===============================================================================
