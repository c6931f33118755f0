------------------------ MODULE ServiceManagementProofs ------------------------
(***************************************************************************)
(* Theorems about ServiceManagement, for any helpers, clients, services    *)
(* and bounds.                                                             *)
(***************************************************************************)
EXTENDS ServiceManagement, TLAPS

-------------------------------------------------------------------------------
(* Types.                                                                  *)

(* A decision map updated at some services is a decision map.              *)
LEMMA DecisionUpdate ==
  ASSUME NEW d \in [Services -> Decision], NEW S, NEW e \in Decision
  PROVE  [s \in Services |-> IF s \in S THEN e ELSE d[s]] \in [Services -> Decision]
  OBVIOUS

(* The states the calls compute are states.                                *)
LEMMA StateUpdates ==
  ASSUME TypeOK, NEW c \in Clients, NEW S \in SUBSET Services
  PROVE  /\ Activated(c, S) \in State
         /\ Repaired(c, S) \in State
         /\ Disabled(S) \in State
         /\ Removed(S) \in State
         /\ \A choice \in {"declined", "deferred"} :
              [state EXCEPT !.decision =
                 [s \in Services |-> IF s \in S THEN choice ELSE @[s]]] \in State
<1>1. state \in State /\ state.decision \in [Services -> Decision]
  BY DEF TypeOK, State
<1>2. [s \in Services |-> IF s \in S THEN "accepted" ELSE state.decision[s]]
        \in [Services -> Decision]
  BY <1>1, DecisionUpdate DEF Decision
<1>3. Activate(config[c], S) \in Config
  BY DEF TypeOK, Config, Activate
<1>4. Activated(c, S) \in State
  BY <1>1, <1>2, <1>3 DEF Activated, State
<1>5. Repaired(c, S) \in State
  BY <1>1, <1>3, <1>4 DEF Repaired, State
<1>6. Disabled(S) \in State
  BY <1>1 DEF Disabled, State, Decision
<1>7. Removed(S) \in State
  BY <1>1 DEF Removed, State, Decision
<1>8. ASSUME NEW choice \in {"declined", "deferred"}
      PROVE  [state EXCEPT !.decision =
                [s \in Services |-> IF s \in S THEN choice ELSE @[s]]] \in State
  BY <1>1, <1>8 DEF State, Decision
<1>9. QED
  BY <1>4, <1>5, <1>6, <1>7, <1>8

(* A call that begins with well-typed locals keeps the types.              *)
LEMMA StartTypes ==
  ASSUME TypeOK, NEW h \in Helpers, NEW label \in Label, NEW w \in Work,
         NEW more \in SUBSET Mishap, Start(h, label, w, more)
  PROVE  TypeOK'
<1>1. spent' \in [calls : Nat, crashes : Nat, edits : Nat]
  BY DEF Start, TypeOK
<1>2. mishaps' \subseteq Mishap
  BY DEF Start, TypeOK, Mishap
<1>3. QED
  BY <1>1, <1>2 DEF Start, TypeOK

LEMMA InstallTypes ==
  ASSUME TypeOK, NEW h \in Helpers, NEW S \in SUBSET Services, Install(h, S)
  PROVE  TypeOK'
<1> DEFINE c == ClientOf[h]
           w == [kind |-> "apply", services |-> S,
                 text |-> Activate(config[c], S), next |-> Activated(c, S)]
<1>1. c \in Clients
  BY ServiceAssumption
<1>2. Activate(config[c], S) \in Config
  BY <1>1 DEF TypeOK, Config, Activate
<1>3. w \in Work
  BY <1>1, <1>2, StateUpdates DEF Work, Kind
<1>4. Start(h, "config", w, {})
  BY DEF Install
<1>5. QED
  BY <1>3, <1>4, StartTypes DEF Label

LEMMA RowTypes ==
  ASSUME TypeOK, NEW h \in Helpers, NEW s \in Services,
         NEW kind \in {"disable", "remove"}, Row(h, kind, s)
  PROVE  TypeOK'
<1> DEFINE w == [kind |-> kind, services |-> {s}, text |-> NoEntries, next |-> NoState]
<1>1. NoEntries \in Config
  BY DEF NoEntries, Config
<1>2. NoState \in State
  BY <1>1 DEF NoState, State, Decision
<1>3. w \in Work
  BY <1>1, <1>2 DEF Work, Kind
<1>4. Start(h, "row", w, {})
  BY DEF Row
<1>5. QED
  BY <1>3, <1>4, StartTypes DEF Label

(* What TakeOff changes.                                                   *)
LEMMA TakeOffEffect ==
  ASSUME TypeOK, NEW h \in Helpers, TakeOff(h)
  PROVE  /\ work'[h].text \in Config
         /\ work'[h].text = [config[ClientOf[h]] EXCEPT !.managed = @ \ Exposure(h)]
         /\ work'[h].text.managed = config[ClientOf[h]].managed \ Exposure(h)
         /\ work'[h].kind = work[h].kind
         /\ work'[h].services = work[h].services
         /\ work'[h].next = work[h].next
         /\ work'[h] \in Work
         /\ pc[h] = "row"
         /\ pc'[h] = IF Exposure(h) = {} THEN "read" ELSE "config"
         /\ \A g \in Helpers \ {h} : pc'[g] = pc[g] /\ work'[g] = work[g]
<1> DEFINE text == [config[ClientOf[h]] EXCEPT !.managed = @ \ Exposure(h)]
<1>1. config[ClientOf[h]] \in Config
  BY ServiceAssumption DEF TypeOK
<1>2. text \in Config /\ text.managed = config[ClientOf[h]].managed \ Exposure(h)
  BY <1>1 DEF Config
<1>3. work[h] \in Work
  BY DEF TypeOK
<1>4. work'[h] = [work[h] EXCEPT !.text = text]
  BY DEF TakeOff, TypeOK
<1>5. /\ work'[h].text = text /\ work'[h] \in Work
      /\ work'[h].kind = work[h].kind /\ work'[h].services = work[h].services
      /\ work'[h].next = work[h].next
  BY <1>2, <1>3, <1>4 DEF Work
<1>6. QED
  BY <1>2, <1>5 DEF TakeOff, TypeOK

LEMMA RepairTypes ==
  ASSUME TypeOK, NEW h \in Helpers, Repair(h)
  PROVE  TypeOK'
<1> DEFINE c == ClientOf[h]
           S == state.job[c]
           w == [kind |-> "repair", services |-> S,
                 text |-> Activate(config[c], S), next |-> Repaired(c, S)]
           more == IF S \cap off[c] # {} THEN {"repaired"} ELSE {}
<1>1. c \in Clients
  BY ServiceAssumption
<1>2. S \in SUBSET Services
  BY <1>1 DEF TypeOK, State
<1>3. Activate(config[c], S) \in Config
  BY <1>1, <1>2 DEF TypeOK, Config, Activate
<1>4. Repaired(c, S) \in State
  BY <1>1, <1>2, StateUpdates
<1>5. w \in Work
  BY <1>2, <1>3, <1>4 DEF Work, Kind
<1>6. Start(h, "config", w, more)
  BY DEF Repair
<1>7. more \in SUBSET Mishap
  BY DEF Mishap
<1>8. QED
  BY <1>5, <1>6, <1>7, StartTypes DEF Label

LEMMA DecideTypes ==
  ASSUME TypeOK, NEW h \in Helpers, NEW S \in SUBSET Services,
         NEW choice \in {"declined", "deferred"}, Decide(h, S, choice)
  PROVE  TypeOK'
<1> DEFINE next == [state EXCEPT !.decision =
                      [s \in Services |-> IF s \in S THEN choice ELSE @[s]]]
           w == [kind |-> "decide", services |-> S, text |-> NoEntries, next |-> next]
           more == IF \E s \in S : state.decision[s] = "disabled"
                     THEN {"redecided"} ELSE {}
<1>1. ClientOf[h] \in Clients
  BY ServiceAssumption
<1>2. next \in State
  BY <1>1, StateUpdates
<1>3. w \in Work
  BY <1>2 DEF Work, Kind, NoEntries, Config
<1>4. Start(h, "state", w, more)
  BY DEF Decide
<1>5. more \in SUBSET Mishap
  BY DEF Mishap
<1>6. QED
  BY <1>3, <1>4, <1>5, StartTypes DEF Label

(* NoWork is well-typed, so a call that returns keeps the types.           *)
LEMMA NoWorkType == NoWork \in Work
  BY DEF NoWork, Work, Kind, NoEntries, Config, NoState, State, Decision

(* Every step keeps the types.                                             *)
LEMMA TypeStep ==
  ASSUME TypeOK, [Next]_vars
  PROVE  TypeOK'
<1>1. ASSUME NEW h \in Helpers, NEW S \in SUBSET Services, Install(h, S)
      PROVE  TypeOK'
  BY <1>1, InstallTypes
<1>2. ASSUME NEW h \in Helpers, NEW s \in Services, Enable(h, s)
      PROVE  TypeOK'
  BY <1>2, InstallTypes DEF Enable
<1>3. ASSUME NEW h \in Helpers, NEW s \in Services, Disable(h, s) \/ Remove(h, s)
      PROVE  TypeOK'
  BY <1>3, RowTypes DEF Disable, Remove
<1>4. ASSUME NEW h \in Helpers, Repair(h)
      PROVE  TypeOK'
  BY <1>4, RepairTypes
<1>5. ASSUME NEW h \in Helpers, NEW S \in SUBSET Services,
             NEW choice \in {"declined", "deferred"}, Decide(h, S, choice)
      PROVE  TypeOK'
  BY <1>5, DecideTypes
<1>6. ASSUME NEW h \in Helpers, WriteConfig(h)
      PROVE  TypeOK'
  <2>1. ClientOf[h] \in Clients /\ work[h].text \in Config
    BY ServiceAssumption DEF TypeOK, Work
  <2>2. config' \in [Clients -> Config]
    BY <1>6, <2>1 DEF WriteConfig, TypeOK
  <2>3. pc' \in [Helpers -> Label]
    BY <1>6 DEF WriteConfig, TypeOK, Label
  <2>4. off' \in [Clients -> SUBSET Services]
    BY <1>6, <2>1 DEF WriteConfig, TypeOK
  <2>5. QED
    BY <1>6, <2>2, <2>3, <2>4 DEF WriteConfig, TypeOK
<1>7. ASSUME NEW h \in Helpers, ReadState(h)
      PROVE  TypeOK'
  <2> DEFINE next == IF work[h].kind = "disable" THEN Disabled(work[h].services)
                     ELSE Removed(work[h].services)
  <2>1. work[h] \in Work /\ work[h].services \in SUBSET Services /\ ClientOf[h] \in Clients
    BY ServiceAssumption DEF TypeOK, Work
  <2>2. next \in State
    BY <2>1, StateUpdates
  <2>3. [work[h] EXCEPT !.next = next] \in Work
    BY <2>1, <2>2 DEF Work
  <2>4. work' = [work EXCEPT ![h] = [work[h] EXCEPT !.next = next]]
    BY <1>7 DEF ReadState
  <2>5. work' \in [Helpers -> Work]
    BY <2>3, <2>4 DEF TypeOK
  <2>6. QED
    BY <1>7, <2>5 DEF ReadState, TypeOK, Label
<1>8. ASSUME NEW h \in Helpers, WriteState(h)
      PROVE  TypeOK'
  <2>1. ClientOf[h] \in Clients /\ work[h].next \in State
          /\ work[h].services \in SUBSET Services
    BY ServiceAssumption DEF TypeOK, Work
  <2>2. off' \in [Clients -> SUBSET Services]
    BY <1>8, <2>1 DEF WriteState, TypeOK
  <2>3. QED
    BY <1>8, <2>1, <2>2, NoWorkType DEF WriteState, Return, TypeOK, Label
<1>9. ASSUME NEW h \in Helpers, Crash(h)
      PROVE  TypeOK'
  <2>1. ClientOf[h] \in Clients /\ NoEntries \in Config
    BY ServiceAssumption DEF NoEntries, Config
  <2>2. config' \in [Clients -> Config]
    BY <1>9, <2>1 DEF Crash, TypeOK
  <2>3. spent' \in [calls : Nat, crashes : Nat, edits : Nat]
    BY <1>9 DEF Crash, TypeOK
  <2>4. mishaps' \subseteq Mishap
    BY <1>9 DEF Crash, TypeOK, Mishap
  <2>5. QED
    BY <1>9, <2>2, <2>3, <2>4, NoWorkType DEF Crash, Return, TypeOK, Label
<1>10. ASSUME NEW c \in Clients, NEW s \in Services, Edit(c, s)
       PROVE  TypeOK'
  <2>1. config[c] \in Config
    BY DEF TypeOK
  <2>2. /\ [config[c] EXCEPT !.own = @ \cup {s}] \in Config
        /\ [config[c] EXCEPT !.managed = @ \ {s}] \in Config
    BY <2>1 DEF Config
  <2>3. config' \in [Clients -> Config]
    BY <1>10, <2>2 DEF Edit, TypeOK
  <2>4. spent' \in [calls : Nat, crashes : Nat, edits : Nat]
    BY <1>10 DEF Edit, TypeOK
  <2>5. QED
    BY <1>10, <2>3, <2>4 DEF Edit, TypeOK, Mishap
<1>11. ASSUME NEW h \in Helpers, TakeOff(h)
       PROVE  TypeOK'
  <2>1. work' \in [Helpers -> Work]
    BY <1>11, TakeOffEffect DEF TakeOff, TypeOK
  <2>2. pc' \in [Helpers -> Label]
    BY <1>11 DEF TakeOff, TypeOK, Label
  <2>3. QED
    BY <1>11, <2>1, <2>2 DEF TakeOff, TypeOK
<1>12. CASE UNCHANGED vars
  BY <1>12 DEF vars, TypeOK
<1>13. QED
  BY <1>1, <1>2, <1>3, <1>4, <1>5, <1>6, <1>7, <1>8, <1>9, <1>10, <1>11, <1>12
  DEF Next, Continue

(* The variables keep their types.                                         *)
THEOREM TypeCorrect == Spec => []TypeOK
<1>1. Init => TypeOK
  BY NoWorkType
  DEF Init, TypeOK, NoState, State, Decision, NoEntries, Config, Label
<1>2. QED
  BY <1>1, TypeStep, PTL DEF Spec

-------------------------------------------------------------------------------
(* Services taken off stay off.                                            *)

TakingOff == {"disable", "remove"}

(* A label belongs to certain calls.                                       *)
InPlace ==
    \A h \in Helpers :
        /\ pc[h] = "config" => work[h].kind # "decide"
        /\ pc[h] \in {"row", "read"} => work[h].kind \in TakingOff

(* Two calls under way that rewrite one config have been noticed.          *)
ClashNoticed ==
    "clash" \notin mishaps =>
        \A g, h \in Helpers :
            g # h /\ ClientOf[g] = ClientOf[h] /\ pc[g] # "idle" /\ pc[h] # "idle"
              => "decide" \in {work[g].kind, work[h].kind}

(* What a call under way is about to write, or has taken out, agrees with  *)
(* what is off for its client.                                             *)
CallAgrees(h) ==
    LET c == ClientOf[h]
        w == work[h]
    IN
    /\ pc[h] = "config" =>
         /\ w.kind = "apply" => off[c] \cap w.text.managed \subseteq w.services
         /\ w.kind # "apply" => off[c] \cap w.text.managed = {}
         /\ w.kind \in TakingOff => w.services \cap w.text.managed = {}
    /\ pc[h] \in {"read", "state"} /\ w.kind \in TakingOff =>
         w.services \cap config[c].managed = {}

OffInv ==
    mishaps \cap {"clash", "repaired"} = {} =>
        /\ OffUntilEnabled
        /\ \A h \in Helpers : ClientOf[h] \in Removing => CallAgrees(h)

IInv == TypeOK /\ InPlace /\ ClashNoticed /\ OffInv

(* Every step keeps calls at labels of their kind.                         *)
LEMMA PlaceStep ==
  ASSUME TypeOK, InPlace, [Next]_vars
  PROVE  InPlace'
<1> USE DEF TypeOK, InPlace, TakingOff, Start, Return
<1>1. ASSUME NEW h \in Helpers, NEW S \in SUBSET Services, Install(h, S)
      PROVE  InPlace'
  BY <1>1 DEF Install
<1>2. ASSUME NEW h \in Helpers, NEW s \in Services, NEW kind \in TakingOff,
             Row(h, kind, s)
      PROVE  InPlace'
  BY <1>2 DEF Row
<1>3. ASSUME NEW h \in Helpers, Repair(h)
      PROVE  InPlace'
  BY <1>3 DEF Repair
<1>4. ASSUME NEW h \in Helpers, NEW S \in SUBSET Services,
             NEW choice \in {"declined", "deferred"}, Decide(h, S, choice)
      PROVE  InPlace'
  BY <1>4 DEF Decide
<1>5. ASSUME NEW h \in Helpers, WriteConfig(h)
      PROVE  InPlace'
  BY <1>5 DEF WriteConfig
<1>6. ASSUME NEW h \in Helpers, ReadState(h)
      PROVE  InPlace'
  <2>1. work'[h].kind = work[h].kind /\ \A g \in Helpers \ {h} : work'[g] = work[g]
    BY <1>6 DEF ReadState, Work
  <2>2. QED
    BY <1>6, <2>1 DEF ReadState
<1>7. ASSUME NEW h \in Helpers, WriteState(h) \/ Crash(h)
      PROVE  InPlace'
  BY <1>7 DEF WriteState, Crash
<1>8. ASSUME NEW c \in Clients, NEW s \in Services, Edit(c, s)
      PROVE  InPlace'
  BY <1>8 DEF Edit
<1>9. CASE UNCHANGED vars
  BY <1>9 DEF vars
<1>10. ASSUME NEW h \in Helpers, TakeOff(h)
       PROVE  InPlace'
  BY <1>10, TakeOffEffect
<1> HIDE DEF TypeOK, InPlace, TakingOff, Start, Return
<1>11. QED
  BY <1>1, <1>2, <1>3, <1>4, <1>5, <1>6, <1>7, <1>8, <1>9, <1>10
  DEF Next, Continue, Enable, Disable, Remove, TakingOff

(* A call that begins beside another one over the same config is noticed.  *)
LEMMA StartNoticed ==
  ASSUME TypeOK, ClashNoticed, NEW h \in Helpers, NEW label, NEW w, NEW more,
         Start(h, label, w, more)
  PROVE  ClashNoticed'
  BY DEF Start, TypeOK, ClashNoticed, Busy, Clash

(* Every step keeps clashes noticed.                                       *)
LEMMA ClashStep ==
  ASSUME TypeOK, ClashNoticed, [Next]_vars
  PROVE  ClashNoticed'
<1>1. ASSUME NEW h \in Helpers, NEW S \in SUBSET Services, Install(h, S)
      PROVE  ClashNoticed'
  BY <1>1, StartNoticed DEF Install
<1>2. ASSUME NEW h \in Helpers, NEW s \in Services, NEW kind \in TakingOff,
             Row(h, kind, s)
      PROVE  ClashNoticed'
  BY <1>2, StartNoticed DEF Row
<1>3. ASSUME NEW h \in Helpers, Repair(h)
      PROVE  ClashNoticed'
  BY <1>3, StartNoticed DEF Repair
<1>4. ASSUME NEW h \in Helpers, NEW S \in SUBSET Services,
             NEW choice \in {"declined", "deferred"}, Decide(h, S, choice)
      PROVE  ClashNoticed'
  BY <1>4, StartNoticed DEF Decide
<1>5. ASSUME NEW h \in Helpers, WriteConfig(h)
      PROVE  ClashNoticed'
  BY <1>5 DEF WriteConfig, TypeOK, ClashNoticed
<1>6. ASSUME NEW h \in Helpers, ReadState(h)
      PROVE  ClashNoticed'
  <2>1. work'[h].kind = work[h].kind /\ \A g \in Helpers \ {h} : work'[g] = work[g]
    BY <1>6 DEF ReadState, TypeOK, Work
  <2>2. QED
    BY <1>6, <2>1 DEF ReadState, TypeOK, ClashNoticed
<1>7. ASSUME NEW h \in Helpers, WriteState(h) \/ Crash(h)
      PROVE  ClashNoticed'
  BY <1>7 DEF WriteState, Crash, Return, TypeOK, ClashNoticed
<1>8. ASSUME NEW c \in Clients, NEW s \in Services, Edit(c, s)
      PROVE  ClashNoticed'
  BY <1>8 DEF Edit, ClashNoticed
<1>9. CASE UNCHANGED vars
  BY <1>9 DEF vars, ClashNoticed
<1>10. ASSUME NEW h \in Helpers, TakeOff(h)
       PROVE  ClashNoticed'
  <2>1. mishaps' = mishaps
    BY <1>10 DEF TakeOff
  <2>2. \A g \in Helpers : /\ work'[g].kind = work[g].kind
                           /\ pc'[g] = "idle" <=> pc[g] = "idle"
    BY <1>10, TakeOffEffect
  <2>3. QED
    BY <2>1, <2>2 DEF ClashNoticed
<1>11. QED
  BY <1>1, <1>2, <1>3, <1>4, <1>5, <1>6, <1>7, <1>8, <1>9, <1>10
  DEF Next, Continue, Enable, Disable, Remove, TakingOff

(* A call that begins in agreement with what is off keeps OffInv.          *)
LEMMA StartAgrees ==
  ASSUME TypeOK, OffInv, NEW h \in Helpers, NEW label \in Label, NEW w \in Work,
         NEW more \in SUBSET Mishap, Start(h, label, w, more),
         /\ mishaps \cap {"clash", "repaired"} = {}
         /\ more \cap {"clash", "repaired"} = {}
         /\ ClientOf[h] \in Removing
         => CallAgrees(h)'
  PROVE  OffInv'
<1> SUFFICES ASSUME mishaps' \cap {"clash", "repaired"} = {}
             PROVE  OffUntilEnabled'
                      /\ \A g \in Helpers : ClientOf[g] \in Removing => CallAgrees(g)'
  BY DEF OffInv
<1>1. mishaps \cap {"clash", "repaired"} = {} /\ more \cap {"clash", "repaired"} = {}
  BY DEF Start
<1>2. OffUntilEnabled'
  BY <1>1 DEF OffInv, OffUntilEnabled, Start
<1>3. ASSUME NEW g \in Helpers \ {h}, ClientOf[g] \in Removing
      PROVE  CallAgrees(g)'
  <2>1. pc'[g] = pc[g] /\ work'[g] = work[g]
    BY DEF Start, TypeOK
  <2>2. CallAgrees(g)
    BY <1>1, <1>3 DEF OffInv
  <2>3. QED
    BY <2>1, <2>2 DEF Start, CallAgrees
<1>4. QED
  BY <1>1, <1>2, <1>3

LEMMA InstallAgrees ==
  ASSUME TypeOK, OffInv, NEW h \in Helpers, NEW S \in SUBSET Services, Install(h, S)
  PROVE  OffInv'
<1> DEFINE c == ClientOf[h]
           w == [kind |-> "apply", services |-> S,
                 text |-> Activate(config[c], S), next |-> Activated(c, S)]
<1>1. c \in Clients
  BY ServiceAssumption
<1>2. Activate(config[c], S) \in Config
        /\ Activate(config[c], S).managed = config[c].managed \cup S
  BY <1>1 DEF TypeOK, Config, Activate
<1>3. w \in Work
  BY <1>1, <1>2, StateUpdates DEF Work, Kind
<1>4. Start(h, "config", w, {})
  BY DEF Install
<1>5. ASSUME mishaps \cap {"clash", "repaired"} = {}, c \in Removing
      PROVE  CallAgrees(h)'
  <2>1. off[c] \cap config[c].managed = {}
    BY <1>5 DEF OffInv, OffUntilEnabled
  <2>2. pc'[h] = "config" /\ work'[h] = w /\ off' = off
    BY <1>4 DEF Start, TypeOK
  <2>3. QED
    BY <2>1, <2>2, <1>2 DEF CallAgrees, TakingOff
<1>6. QED
  BY <1>3, <1>4, <1>5, StartAgrees DEF Label

LEMMA RowAgrees ==
  ASSUME TypeOK, OffInv, NEW h \in Helpers, NEW s \in Services, NEW kind \in TakingOff,
         Row(h, kind, s)
  PROVE  OffInv'
<1> DEFINE w == [kind |-> kind, services |-> {s}, text |-> NoEntries, next |-> NoState]
<1>1. w \in Work
  BY DEF Work, Kind, NoState, NoEntries, Config, State, Decision, TakingOff
<1>2. Start(h, "row", w, {})
  BY DEF Row
<1>3. CallAgrees(h)'
  BY <1>2 DEF Start, TypeOK, CallAgrees
<1>4. QED
  BY <1>1, <1>2, <1>3, StartAgrees DEF Label

LEMMA TakeOffAgrees ==
  ASSUME TypeOK, InPlace, OffInv, NEW h \in Helpers, TakeOff(h)
  PROVE  OffInv'
<1> DEFINE c == ClientOf[h]
<1> SUFFICES ASSUME mishaps \cap {"clash", "repaired"} = {}
             PROVE  OffUntilEnabled'
                      /\ \A g \in Helpers : ClientOf[g] \in Removing => CallAgrees(g)'
  BY DEF OffInv, TakeOff
<1>1. config' = config /\ off' = off /\ OffUntilEnabled
  BY DEF TakeOff, OffInv
<1>2. OffUntilEnabled'
  BY <1>1 DEF OffUntilEnabled
<1>3. ASSUME NEW g \in Helpers \ {h}, ClientOf[g] \in Removing
      PROVE  CallAgrees(g)'
  BY <1>1, <1>3, TakeOffEffect DEF OffInv, CallAgrees
<1>4. ASSUME c \in Removing
      PROVE  CallAgrees(h)'
  <2>1. work'[h].kind \in TakingOff /\ work'[h].kind # "apply"
    BY TakeOffEffect DEF InPlace, TakingOff
  <2>2. Exposure(h) = config[c].managed \cap work[h].services
    BY <1>4 DEF Exposure
  <2>3. off[c] \cap config[c].managed = {}
    BY <1>1, <1>4 DEF OffUntilEnabled
  <2>4. CASE Exposure(h) = {}
    <3>1. work'[h].services \cap config'[c].managed = {} /\ pc'[h] = "read"
      BY <1>1, <2>2, <2>4, TakeOffEffect
    <3>2. QED
      BY <3>1 DEF CallAgrees
  <2>5. CASE Exposure(h) # {}
    <3>1. /\ pc'[h] = "config"
          /\ off'[c] \cap work'[h].text.managed = {}
          /\ work'[h].services \cap work'[h].text.managed = {}
      BY <1>1, <2>2, <2>3, <2>5, TakeOffEffect
    <3>2. QED
      BY <2>1, <3>1 DEF CallAgrees
  <2>6. QED
    BY <2>4, <2>5
<1>5. QED
  BY <1>2, <1>3, <1>4

LEMMA RepairAgrees ==
  ASSUME TypeOK, OffInv, NEW h \in Helpers, Repair(h)
  PROVE  OffInv'
<1> DEFINE c == ClientOf[h]
           S == state.job[c]
           w == [kind |-> "repair", services |-> S,
                 text |-> Activate(config[c], S), next |-> Repaired(c, S)]
           more == IF S \cap off[c] # {} THEN {"repaired"} ELSE {}
<1>1. c \in Clients
  BY ServiceAssumption
<1>2. S \in SUBSET Services
  BY <1>1 DEF TypeOK, State
<1>3. Activate(config[c], S) \in Config
        /\ Activate(config[c], S).managed = config[c].managed \cup S
  BY <1>1, <1>2 DEF TypeOK, Config, Activate
<1>4. Repaired(c, S) \in State
  BY <1>1, <1>2, StateUpdates
<1>5. w \in Work
  BY <1>2, <1>3, <1>4 DEF Work, Kind
<1>6. Start(h, "config", w, more) /\ more \in SUBSET Mishap
  BY DEF Repair, Mishap
<1>7. ASSUME mishaps \cap {"clash", "repaired"} = {}, c \in Removing,
             more \cap {"clash", "repaired"} = {}
      PROVE  CallAgrees(h)'
  <2>1. off[c] \cap config[c].managed = {}
    BY <1>7 DEF OffInv, OffUntilEnabled
  <2>2. S \cap off[c] = {}
    BY <1>7
  <2>3. pc'[h] = "config" /\ work'[h] = w /\ off' = off
    BY <1>6 DEF Start, TypeOK
  <2>4. off[c] \cap w.text.managed = {}
    BY <2>1, <2>2, <1>3
  <2>5. w.kind = "repair"
    OBVIOUS
  <2>6. QED
    BY <2>3, <2>4, <2>5 DEF CallAgrees, TakingOff
<1>8. QED
  BY <1>5, <1>6, <1>7, StartAgrees DEF Label

LEMMA DecideAgrees ==
  ASSUME TypeOK, OffInv, NEW h \in Helpers, NEW S \in SUBSET Services,
         NEW choice \in {"declined", "deferred"}, Decide(h, S, choice)
  PROVE  OffInv'
<1> DEFINE next == [state EXCEPT !.decision =
                      [s \in Services |-> IF s \in S THEN choice ELSE @[s]]]
           w == [kind |-> "decide", services |-> S, text |-> NoEntries, next |-> next]
           more == IF \E s \in S : state.decision[s] = "disabled"
                     THEN {"redecided"} ELSE {}
<1>1. ClientOf[h] \in Clients
  BY ServiceAssumption
<1>2. next \in State
  BY <1>1, StateUpdates
<1>3. w \in Work
  BY <1>2 DEF Work, Kind, NoEntries, Config
<1>4. Start(h, "state", w, more) /\ more \in SUBSET Mishap
  BY DEF Decide, Mishap
<1>5. pc'[h] = "state" /\ work'[h].kind = "decide"
  BY <1>4 DEF Start, TypeOK
<1>6. CallAgrees(h)'
  BY <1>5 DEF CallAgrees, TakingOff
<1>7. QED
  BY <1>3, <1>4, <1>6, StartAgrees DEF Label

(* Writing a config: the only call over it, unless a clash was noticed.    *)
LEMMA WriteConfigAgrees ==
  ASSUME TypeOK, InPlace, ClashNoticed, OffInv, NEW h \in Helpers, WriteConfig(h)
  PROVE  OffInv'
<1> DEFINE c == ClientOf[h]
           w == work[h]
<1> SUFFICES ASSUME mishaps \cap {"clash", "repaired"} = {}
             PROVE  OffUntilEnabled'
                      /\ \A g \in Helpers : ClientOf[g] \in Removing => CallAgrees(g)'
  BY DEF OffInv, WriteConfig
<1>1. /\ c \in Clients /\ Removing \subseteq Clients /\ pc[h] = "config"
      /\ work' = work
      /\ \A d \in Clients \ {c} : config'[d] = config[d] /\ off'[d] = off[d]
      /\ config'[c] = w.text
      /\ off'[c] = IF w.kind = "apply" THEN off[c] \ w.services ELSE off[c]
      /\ \A g \in Helpers \ {h} : pc'[g] = pc[g]
      /\ pc'[h] = IF w.kind \in TakingOff THEN "read" ELSE "state"
  BY ServiceAssumption DEF WriteConfig, TypeOK, TakingOff
<1>2. OffUntilEnabled
  BY DEF OffInv
<1>3. c \in Removing => CallAgrees(h)
  BY DEF OffInv
<1>4. c \in Removing => off'[c] \cap config'[c].managed = {}
  BY <1>1, <1>3 DEF CallAgrees
<1>5. OffUntilEnabled'
  BY <1>1, <1>2, <1>4 DEF OffUntilEnabled
<1>6. c \in Removing => CallAgrees(h)'
  BY <1>1, <1>3 DEF CallAgrees, TakingOff
<1>7. ASSUME NEW g \in Helpers \ {h}, ClientOf[g] \in Removing
      PROVE  CallAgrees(g)'
  <2>1. CallAgrees(g) /\ ClientOf[g] \in Clients
    BY <1>1, <1>7 DEF OffInv
  <2>2. CASE ClientOf[g] # c
    BY <1>1, <2>1, <2>2 DEF CallAgrees
  <2>3. CASE ClientOf[g] = c /\ pc[g] # "idle"
    <3>1. work[g].kind = "decide"
      BY <1>1, <2>3, <1>7 DEF ClashNoticed, InPlace
    <3>2. pc[g] # "config"
      BY <3>1 DEF InPlace
    <3>3. QED
      BY <1>1, <3>1, <3>2 DEF CallAgrees, TakingOff
  <2>4. CASE pc[g] = "idle"
    BY <1>1, <2>4 DEF CallAgrees
  <2>5. QED
    BY <2>2, <2>3, <2>4
<1>8. QED
  BY <1>5, <1>6, <1>7

(* Every step keeps what is off out of the configs.                        *)
LEMMA OffStep ==
  ASSUME TypeOK, InPlace, ClashNoticed, OffInv, [Next]_vars
  PROVE  OffInv'
<1>1. ASSUME NEW h \in Helpers, NEW S \in SUBSET Services, Install(h, S)
      PROVE  OffInv'
  BY <1>1, InstallAgrees
<1>2. ASSUME NEW h \in Helpers, NEW s \in Services, NEW kind \in TakingOff,
             Row(h, kind, s)
      PROVE  OffInv'
  BY <1>2, RowAgrees
<1>3. ASSUME NEW h \in Helpers, Repair(h)
      PROVE  OffInv'
  BY <1>3, RepairAgrees
<1>4. ASSUME NEW h \in Helpers, NEW S \in SUBSET Services,
             NEW choice \in {"declined", "deferred"}, Decide(h, S, choice)
      PROVE  OffInv'
  BY <1>4, DecideAgrees
<1>5. ASSUME NEW h \in Helpers, WriteConfig(h)
      PROVE  OffInv'
  BY <1>5, WriteConfigAgrees
<1>6. ASSUME NEW h \in Helpers, ReadState(h)
      PROVE  OffInv'
  <2>1. /\ pc[h] = "read" /\ pc'[h] = "state"
        /\ \A g \in Helpers \ {h} : pc'[g] = pc[g] /\ work'[g] = work[g]
        /\ config' = config /\ off' = off /\ mishaps' = mishaps
    BY <1>6 DEF ReadState, TypeOK
  <2>2. work'[h].kind = work[h].kind /\ work'[h].services = work[h].services
    BY <1>6 DEF ReadState, TypeOK, Work
  <2>3. ASSUME NEW g \in Helpers, CallAgrees(g)
        PROVE  CallAgrees(g)'
    BY <2>1, <2>2, <2>3 DEF CallAgrees
  <2>4. QED
    BY <2>1, <2>3 DEF OffInv, OffUntilEnabled
<1>7. ASSUME NEW h \in Helpers, WriteState(h)
      PROVE  OffInv'
  <2> DEFINE c == ClientOf[h]
  <2>1. /\ c \in Clients /\ Removing \subseteq Clients /\ pc[h] = "state"
        /\ pc'[h] = "idle" /\ mishaps' = mishaps /\ config' = config
        /\ \A g \in Helpers \ {h} : pc'[g] = pc[g] /\ work'[g] = work[g]
        /\ \A d \in Clients \ {c} : off'[d] = off[d]
        /\ off'[c] = IF c \in Removing /\ work[h].kind \in TakingOff
                       THEN off[c] \cup work[h].services ELSE off[c]
    BY <1>7, ServiceAssumption DEF WriteState, Return, TypeOK, TakingOff
  <2> SUFFICES ASSUME mishaps \cap {"clash", "repaired"} = {}
               PROVE  OffUntilEnabled'
                        /\ \A g \in Helpers : ClientOf[g] \in Removing => CallAgrees(g)'
    BY <2>1 DEF OffInv
  <2>2. OffUntilEnabled /\ (c \in Removing => CallAgrees(h))
    BY DEF OffInv
  <2>3. OffUntilEnabled'
    BY <2>1, <2>2 DEF OffUntilEnabled, CallAgrees
  <2>4. ASSUME NEW g \in Helpers \ {h}, ClientOf[g] \in Removing
        PROVE  CallAgrees(g)'
    <3>1. CallAgrees(g) /\ ClientOf[g] \in Clients
      BY <2>1, <2>4 DEF OffInv
    <3>2. CASE ClientOf[g] # c \/ work[h].kind \notin TakingOff
      BY <2>1, <3>1, <3>2 DEF CallAgrees
    <3>3. CASE ClientOf[g] = c /\ work[h].kind \in TakingOff /\ pc[g] # "idle"
      <4>1. work[g].kind = "decide"
        BY <2>1, <2>4, <3>3 DEF ClashNoticed, TakingOff
      <4>2. QED
        BY <2>1, <4>1 DEF CallAgrees, TakingOff, InPlace
    <3>4. CASE pc[g] = "idle"
      BY <2>1, <3>4 DEF CallAgrees
    <3>5. QED
      BY <3>2, <3>3, <3>4
  <2>5. CallAgrees(h)'
    BY <2>1 DEF CallAgrees
  <2>6. QED
    BY <2>3, <2>4, <2>5
<1>8. ASSUME NEW h \in Helpers, Crash(h)
      PROVE  OffInv'
  <2>1. /\ ClientOf[h] \in Clients /\ Removing \subseteq Clients
        /\ pc'[h] = "idle" /\ off' = off /\ mishaps \subseteq mishaps'
        /\ \A g \in Helpers \ {h} : pc'[g] = pc[g] /\ work'[g] = work[g]
    BY <1>8, ServiceAssumption DEF Crash, Return, TypeOK
  <2>2. \A d \in Clients : config'[d] = config[d] \/ config'[d].managed = {}
    BY <1>8, <2>1 DEF Crash, NoEntries, TypeOK
  <2>3. ASSUME NEW g \in Helpers, CallAgrees(g)
        PROVE  CallAgrees(g)'
    <3>1. ClientOf[g] \in Clients
      BY ServiceAssumption
    <3>2. QED
      BY <2>1, <2>2, <2>3, <3>1 DEF CallAgrees
  <2>4. QED
    BY <2>1, <2>2, <2>3 DEF OffInv, OffUntilEnabled
<1>9. ASSUME NEW c \in Clients, NEW s \in Services, Edit(c, s)
      PROVE  OffInv'
  <2>1. /\ pc' = pc /\ work' = work /\ off' = off /\ mishaps \subseteq mishaps'
        /\ Removing \subseteq Clients
    BY <1>9, ServiceAssumption DEF Edit
  <2>2. \A d \in Clients : config'[d].managed \subseteq config[d].managed
    BY <1>9 DEF Edit, TypeOK, Config
  <2>3. ASSUME NEW g \in Helpers, CallAgrees(g)
        PROVE  CallAgrees(g)'
    <3>1. ClientOf[g] \in Clients
      BY ServiceAssumption
    <3>2. QED
      BY <2>1, <2>2, <2>3, <3>1 DEF CallAgrees
  <2>4. QED
    BY <2>1, <2>2, <2>3 DEF OffInv, OffUntilEnabled
<1>10. CASE UNCHANGED vars
  BY <1>10 DEF vars, OffInv, OffUntilEnabled, CallAgrees
<1>11. ASSUME NEW h \in Helpers, TakeOff(h)
       PROVE  OffInv'
  BY <1>11, TakeOffAgrees
<1>12. QED
  BY <1>1, <1>2, <1>3, <1>4, <1>5, <1>6, <1>7, <1>8, <1>9, <1>10, <1>11
  DEF Next, Continue, Enable, Disable, Remove, TakingOff

(* Disabling and removing last: no crash, no call through another client   *)
(* and no installation of other services brings back an entry that was     *)
(* taken out, for any number of clients, sessions and services.            *)
THEOREM OffSafety == Spec => []OffUnlessRepaired
<1>1. Init => IInv
  <2>1. ASSUME Init PROVE TypeOK
    BY <2>1, NoWorkType
    DEF Init, TypeOK, NoState, State, Decision, NoEntries, Config, Label
  <2>2. ASSUME Init PROVE InPlace /\ ClashNoticed /\ OffInv
    BY <2>2, ServiceAssumption
    DEF Init, InPlace, ClashNoticed, OffInv, OffUntilEnabled, CallAgrees
  <2>3. QED
    BY <2>1, <2>2 DEF IInv
<1>2. IInv /\ [Next]_vars => IInv'
  BY TypeStep, PlaceStep, ClashStep, OffStep DEF IInv
<1>3. IInv => OffUnlessRepaired
  BY DEF IInv, OffInv, OffUnlessRepaired
<1>4. QED
  BY <1>1, <1>2, <1>3, PTL DEF Spec

-------------------------------------------------------------------------------
(* Enabled services are configured.                                        *)

EnabledIn(st, s) == s \in st.services /\ st.decision[s] # "disabled"

Exposed(cfgs, s) == \E c \in Clients : s \in cfgs[c].managed

(* The configs once h has written its text.                                *)
Written(h) == [config EXCEPT ![ClientOf[h]] = work[h].text]

(* The one call under way: what it is about to write keeps enabled         *)
(* services exposed, but for the one it takes off.                         *)
CallExposes(h) ==
    \A s \in Services :
        /\ pc[h] = "config" /\ EnabledIn(state, s) =>
             Exposed(Written(h), s)
               \/ (work[h].kind \in TakingOff /\ s \in work[h].services)
        /\ pc[h] = "config" /\ work[h].kind \notin TakingOff
             /\ EnabledIn(work[h].next, s) => Exposed(Written(h), s)
        /\ pc[h] = "row" /\ EnabledIn(state, s) => Exposed(config, s)
        /\ pc[h] = "read" /\ EnabledIn(state, s) =>
             Exposed(config, s) \/ s \in work[h].services
        /\ pc[h] = "state" /\ EnabledIn(work[h].next, s) => Exposed(config, s)

Unharmed(m) == m \cap {"overlap", "cut", "torn", "drift", "redecided"} = {}

ExposedInv ==
    Unharmed(mishaps) =>
        /\ \A g, h \in Busy : g = h
        /\ Busy = {} => \A s \in Services : EnabledIn(state, s) => Exposed(config, s)
        /\ \A h \in Busy : CallExposes(h)

(* A call that begins alone and in agreement keeps ExposedInv.             *)
LEMMA StartExposes ==
  ASSUME TypeOK, ExposedInv, NEW h \in Helpers, NEW label \in Label \ {"idle"},
         NEW w \in Work, NEW more \in SUBSET Mishap, Start(h, label, w, more),
         /\ \A s \in Services : EnabledIn(state, s) => Exposed(config, s)
         /\ Unharmed(more)
         => CallExposes(h)'
  PROVE  ExposedInv'
<1> SUFFICES ASSUME Unharmed(mishaps')
             PROVE  /\ \A g, k \in Busy' : g = k
                    /\ Busy' # {}
                    /\ \A g \in Busy' : CallExposes(g)'
  BY DEF ExposedInv
<1>1. Unharmed(mishaps) /\ Unharmed(more) /\ Busy = {}
  BY DEF Start, Unharmed
<1>2. Busy' = {h}
  BY <1>1 DEF Start, TypeOK, Busy
<1>3. CallExposes(h)'
  BY <1>1 DEF ExposedInv
<1>4. QED
  BY <1>2, <1>3

(* What an installation or a repair writes exposes its services.           *)
LEMMA ActivateExposes ==
  ASSUME TypeOK, NEW h \in Helpers, NEW S \in SUBSET Services, NEW s \in Services,
         Exposed(config, s) \/ s \in S
  PROVE  Exposed([config EXCEPT ![ClientOf[h]] = Activate(config[ClientOf[h]], S)], s)
<1> DEFINE c == ClientOf[h]
           cfgs == [config EXCEPT ![c] = Activate(config[c], S)]
<1>1. c \in Clients
  BY ServiceAssumption
<1>2. cfgs[c].managed = config[c].managed \cup S
        /\ \A d \in Clients \ {c} : cfgs[d] = config[d]
  BY <1>1 DEF TypeOK, Config, Activate
<1>3. CASE s \in S
  BY <1>1, <1>2, <1>3 DEF Exposed
<1>4. CASE Exposed(config, s)
  BY <1>1, <1>2, <1>4 DEF Exposed
<1>5. QED
  BY <1>3, <1>4

LEMMA ActivatedEnables ==
  ASSUME TypeOK, NEW c \in Clients, NEW S \in SUBSET Services, NEW s \in Services,
         EnabledIn(Activated(c, S), s)
  PROVE  s \in S \/ EnabledIn(state, s)
  BY DEF EnabledIn, Activated, TypeOK, State

LEMMA RepairedEnables ==
  ASSUME TypeOK, NEW c \in Clients, NEW S \in SUBSET Services, NEW s \in Services,
         EnabledIn(Repaired(c, S), s)
  PROVE  s \in S \/ EnabledIn(state, s)
<1>1. CASE c \in Reactivating
  BY <1>1, ActivatedEnables DEF Repaired
<1>2. CASE c \notin Reactivating
  BY <1>2 DEF Repaired, EnabledIn, TypeOK, State
<1>3. QED
  BY <1>1, <1>2

LEMMA InstallExposes ==
  ASSUME TypeOK, ExposedInv, NEW h \in Helpers, NEW S \in SUBSET Services, Install(h, S)
  PROVE  ExposedInv'
<1> DEFINE c == ClientOf[h]
           w == [kind |-> "apply", services |-> S,
                 text |-> Activate(config[c], S), next |-> Activated(c, S)]
<1>1. c \in Clients
  BY ServiceAssumption
<1>2. Activate(config[c], S) \in Config
  BY <1>1 DEF TypeOK, Config, Activate
<1>3. w \in Work
  BY <1>1, <1>2, StateUpdates DEF Work, Kind
<1>4. Start(h, "config", w, {})
  BY DEF Install
<1>5. ASSUME \A s \in Services : EnabledIn(state, s) => Exposed(config, s)
      PROVE  CallExposes(h)'
  <2>1. pc'[h] = "config" /\ work'[h] = w /\ config' = config /\ state' = state
    BY <1>4 DEF Start, TypeOK
  <2>2. Written(h)' = [config EXCEPT ![c] = Activate(config[c], S)]
    BY <2>1 DEF Written
  <2>3. ASSUME NEW s \in Services, EnabledIn(state, s) \/ EnabledIn(w.next, s)
        PROVE  Exposed(Written(h)', s)
    <3>1. Exposed(config, s) \/ s \in S
      BY <1>1, <1>5, <2>3, ActivatedEnables
    <3>2. QED
      BY <2>2, <3>1, ActivateExposes
  <2>4. ASSUME NEW s \in Services, EnabledIn(state, s)' \/ EnabledIn(work[h].next, s)'
        PROVE  Exposed(Written(h), s)'
    <3>1. EnabledIn(state, s) \/ EnabledIn(w.next, s)
      BY <2>1, <2>4 DEF EnabledIn
    <3>2. Exposed(Written(h)', s)
      BY <2>3, <3>1
    <3>3. QED
      BY <3>2 DEF Exposed
  <2>5. QED
    BY <2>1, <2>4 DEF CallExposes
<1>6. QED
  BY <1>3, <1>4, <1>5, StartExposes DEF Label

LEMMA RowExposes ==
  ASSUME TypeOK, ExposedInv, NEW h \in Helpers, NEW s \in Services,
         NEW kind \in TakingOff, Row(h, kind, s)
  PROVE  ExposedInv'
<1> DEFINE w == [kind |-> kind, services |-> {s}, text |-> NoEntries, next |-> NoState]
<1>1. w \in Work
  BY DEF Work, Kind, NoState, NoEntries, Config, State, Decision, TakingOff
<1>2. Start(h, "row", w, {})
  BY DEF Row
<1>3. ASSUME \A t \in Services : EnabledIn(state, t) => Exposed(config, t)
      PROVE  CallExposes(h)'
  <2>1. pc'[h] = "row" /\ state' = state /\ config' = config
    BY <1>2 DEF Start, TypeOK
  <2>2. \A t \in Services : EnabledIn(state, t)' => Exposed(config, t)'
    BY <1>3, <2>1 DEF EnabledIn, Exposed
  <2>3. QED
    BY <2>1, <2>2 DEF CallExposes
<1>4. QED
  BY <1>1, <1>2, <1>3, StartExposes DEF Label

LEMMA TakeOffExposes ==
  ASSUME TypeOK, InPlace, ExposedInv, NEW h \in Helpers, TakeOff(h)
  PROVE  ExposedInv'
<1> DEFINE c == ClientOf[h]
           text == [config[c] EXCEPT !.managed = @ \ Exposure(h)]
<1>1. c \in Clients
  BY ServiceAssumption
<1>2. state' = state /\ config' = config /\ mishaps' = mishaps
  BY DEF TakeOff
<1>3. h \in Busy /\ Busy' = Busy
  BY TakeOffEffect DEF Busy
<1>4. Written(h)' = [config EXCEPT ![c] = text]
  BY <1>2, TakeOffEffect DEF Written
<1>5. work'[h].kind \in TakingOff /\ work'[h].services = work[h].services
  BY TakeOffEffect DEF InPlace
<1>6. ASSUME NEW s \in Services, EnabledIn(state, s)', CallExposes(h)
      PROVE  Exposed(config, s)' /\ (Exposed(Written(h), s)' \/ s \in work[h].services)
  <2>1. Exposed(config, s)
    BY <1>2, <1>6, TakeOffEffect DEF CallExposes, EnabledIn
  <2>2. PICK d \in Clients : s \in config[d].managed
    BY <2>1 DEF Exposed
  <2>3. Exposure(h) \subseteq work[h].services
    BY DEF Exposure
  <2>4. ASSUME s \notin work[h].services
        PROVE  Exposed(Written(h), s)'
    <3>1. s \in [config EXCEPT ![c] = text][d].managed
      BY <1>1, <2>2, <2>3, <2>4 DEF TypeOK, Config
    <3>2. Exposed([config EXCEPT ![c] = text], s)
      BY <3>1 DEF Exposed
    <3>3. QED
      BY <1>4, <3>2 DEF Exposed
  <2>5. QED
    BY <1>2, <2>1, <2>4 DEF Exposed
<1>7. pc'[h] # "row" /\ pc'[h] # "state"
  BY TakeOffEffect
<1>8. CallExposes(h) => CallExposes(h)'
  BY <1>5, <1>6, <1>7 DEF CallExposes
<1>9. QED
  BY <1>2, <1>3, <1>8 DEF ExposedInv

LEMMA RepairExposes ==
  ASSUME TypeOK, ExposedInv, NEW h \in Helpers, Repair(h)
  PROVE  ExposedInv'
<1> DEFINE c == ClientOf[h]
           S == state.job[c]
           w == [kind |-> "repair", services |-> S,
                 text |-> Activate(config[c], S), next |-> Repaired(c, S)]
           more == IF S \cap off[c] # {} THEN {"repaired"} ELSE {}
<1>1. c \in Clients
  BY ServiceAssumption
<1>2. S \in SUBSET Services
  BY <1>1 DEF TypeOK, State
<1>3. Activate(config[c], S) \in Config
  BY <1>1, <1>2 DEF TypeOK, Config, Activate
<1>4. Repaired(c, S) \in State
  BY <1>1, <1>2, StateUpdates
<1>5. w \in Work
  BY <1>2, <1>3, <1>4 DEF Work, Kind
<1>6. Start(h, "config", w, more)
  BY DEF Repair
<1>7. more \in SUBSET Mishap
  BY DEF Mishap
<1>8. ASSUME \A s \in Services : EnabledIn(state, s) => Exposed(config, s)
      PROVE  CallExposes(h)'
  <2>1. pc'[h] = "config" /\ work'[h] = w /\ config' = config /\ state' = state
    BY <1>6 DEF Start, TypeOK
  <2>2. Written(h)' = [config EXCEPT ![c] = Activate(config[c], S)]
    BY <2>1 DEF Written
  <2>3. ASSUME NEW s \in Services, EnabledIn(state, s)' \/ EnabledIn(work[h].next, s)'
        PROVE  Exposed(Written(h), s)'
    <3>1. EnabledIn(state, s) \/ EnabledIn(Repaired(c, S), s)
      BY <2>1, <2>3 DEF EnabledIn
    <3>2. Exposed(config, s) \/ s \in S
      BY <1>1, <1>2, <1>8, <3>1, RepairedEnables
    <3>3. Exposed([config EXCEPT ![c] = Activate(config[c], S)], s)
      BY <1>2, <3>2, ActivateExposes
    <3>4. QED
      BY <2>2, <3>3 DEF Exposed
  <2>4. QED
    BY <2>1, <2>3 DEF CallExposes
<1>9. QED
  BY <1>5, <1>6, <1>7, <1>8, StartExposes DEF Label

LEMMA DecideExposes ==
  ASSUME TypeOK, ExposedInv, NEW h \in Helpers, NEW S \in SUBSET Services,
         NEW choice \in {"declined", "deferred"}, Decide(h, S, choice)
  PROVE  ExposedInv'
<1> DEFINE decision == [s \in Services |-> IF s \in S THEN choice
                                           ELSE state.decision[s]]
           next == [state EXCEPT !.decision = [s \in Services |->
                                   IF s \in S THEN choice ELSE @[s]]]
           w == [kind |-> "decide", services |-> S, text |-> NoEntries, next |-> next]
           more == IF \E s \in S : state.decision[s] = "disabled"
                     THEN {"redecided"} ELSE {}
<1>1. ClientOf[h] \in Clients
  BY ServiceAssumption
<1>2. next \in State
  BY <1>1, StateUpdates
<1>3. w \in Work
  BY <1>2 DEF Work, Kind, NoEntries, Config
<1>4. Start(h, "state", w, more)
  BY DEF Decide
<1>5. more \in SUBSET Mishap
  BY DEF Mishap
<1>6. ASSUME \A s \in Services : EnabledIn(state, s) => Exposed(config, s),
             Unharmed(more)
      PROVE  CallExposes(h)'
  <2>1. pc'[h] = "state" /\ work'[h] = w /\ config' = config
    BY <1>4 DEF Start, TypeOK
  <2>2. \A s \in S : state.decision[s] # "disabled"
    BY <1>6 DEF Unharmed
  <2>3. next.services = state.services /\ next.decision = decision
    BY DEF TypeOK, State
  <2>4. ASSUME NEW s \in Services, EnabledIn(work[h].next, s)'
        PROVE  Exposed(config, s)'
    <3>1. EnabledIn(next, s)
      <4>1. work'[h].next = next
        BY <2>1
      <4>2. QED
        BY <2>4, <4>1 DEF EnabledIn
    <3>2. s \in state.services /\ decision[s] # "disabled"
      BY <2>3, <3>1 DEF EnabledIn
    <3>3. state.decision[s] # "disabled"
      BY <2>2, <3>2
    <3>4. Exposed(config, s)
      BY <1>6, <3>2, <3>3 DEF EnabledIn
    <3>5. QED
      BY <2>1, <3>4 DEF Exposed
  <2>5. QED
    BY <2>1, <2>4 DEF CallExposes
<1>7. QED
  BY <1>3, <1>4, <1>5, <1>6, StartExposes DEF Label

(* Every step keeps enabled services exposed.                              *)
LEMMA ExposedStep ==
  ASSUME TypeOK, InPlace, ExposedInv, [Next]_vars
  PROVE  ExposedInv'
<1>1. ASSUME NEW h \in Helpers, NEW S \in SUBSET Services, Install(h, S)
      PROVE  ExposedInv'
  BY <1>1, InstallExposes
<1>2. ASSUME NEW h \in Helpers, NEW s \in Services, NEW kind \in TakingOff,
             Row(h, kind, s)
      PROVE  ExposedInv'
  BY <1>2, RowExposes
<1>3. ASSUME NEW h \in Helpers, Repair(h)
      PROVE  ExposedInv'
  BY <1>3, RepairExposes
<1>4. ASSUME NEW h \in Helpers, NEW S \in SUBSET Services,
             NEW choice \in {"declined", "deferred"}, Decide(h, S, choice)
      PROVE  ExposedInv'
  BY <1>4, DecideExposes
<1>5. ASSUME NEW h \in Helpers, WriteConfig(h)
      PROVE  ExposedInv'
  <2>1. /\ h \in Busy /\ pc[h] = "config" /\ work' = work /\ state' = state
        /\ mishaps' = mishaps
        /\ pc'[h] = IF work[h].kind \in TakingOff THEN "read" ELSE "state"
        /\ \A g \in Helpers \ {h} : pc'[g] = pc[g]
    BY <1>5 DEF WriteConfig, TypeOK, Busy, TakingOff
  <2>2. config' = Written(h) /\ Busy' = Busy
    BY <1>5, <2>1 DEF WriteConfig, Written, Busy
  <2>3. ASSUME CallExposes(h)
        PROVE  CallExposes(h)'
    <3>1. ASSUME NEW s \in Services, work[h].kind \in TakingOff,
                 EnabledIn(state, s)'
          PROVE  Exposed(config, s)' \/ s \in work[h].services
      <4>1. Exposed(Written(h), s) \/ s \in work[h].services
        BY <2>1, <2>3, <3>1 DEF CallExposes, EnabledIn
      <4>2. QED
        BY <2>2, <4>1 DEF Exposed
    <3>2. ASSUME NEW s \in Services, work[h].kind \notin TakingOff,
                 EnabledIn(work[h].next, s)'
          PROVE  Exposed(config, s)'
      <4>1. Exposed(Written(h), s)
        BY <2>1, <2>3, <3>2 DEF CallExposes, EnabledIn
      <4>2. QED
        BY <2>2, <4>1 DEF Exposed
    <3>3. QED
      BY <2>1, <3>1, <3>2 DEF CallExposes
  <2>4. QED
    BY <2>1, <2>2, <2>3 DEF ExposedInv
<1>6. ASSUME NEW h \in Helpers, ReadState(h)
      PROVE  ExposedInv'
  <2> DEFINE S == work[h].services
  <2>1. /\ h \in Busy /\ pc[h] = "read" /\ pc'[h] = "state"
        /\ config' = config /\ mishaps' = mishaps
        /\ \A g \in Helpers \ {h} : pc'[g] = pc[g]
        /\ work'[h].next = Disabled(S) \/ work'[h].next = Removed(S)
    BY <1>6 DEF ReadState, TypeOK, Work, Busy
  <2>2. Busy' = Busy
    BY <2>1 DEF Busy
  <2>3. ASSUME NEW s \in Services, EnabledIn(work[h].next, s)', CallExposes(h)
        PROVE  Exposed(config, s)'
    <3>1. EnabledIn(Disabled(S), s) \/ EnabledIn(Removed(S), s)
      BY <2>1, <2>3 DEF EnabledIn
    <3>2. EnabledIn(state, s) /\ s \notin S
      <4>1. CASE EnabledIn(Disabled(S), s)
        BY <4>1 DEF EnabledIn, Disabled, TypeOK, State
      <4>2. CASE EnabledIn(Removed(S), s)
        BY <4>2 DEF EnabledIn, Removed, TypeOK, State
      <4>3. QED
        BY <3>1, <4>1, <4>2
    <3>3. Exposed(config, s)
      BY <2>1, <2>3, <3>2 DEF CallExposes
    <3>4. QED
      BY <2>1, <3>3 DEF Exposed
  <2>4. CallExposes(h) => CallExposes(h)'
    BY <2>1, <2>3 DEF CallExposes
  <2>5. QED
    BY <2>1, <2>2, <2>4 DEF ExposedInv
<1>7. ASSUME NEW h \in Helpers, WriteState(h)
      PROVE  ExposedInv'
  <2>1. /\ h \in Busy /\ pc[h] = "state" /\ pc'[h] = "idle"
        /\ config' = config /\ mishaps' = mishaps /\ state' = work[h].next
        /\ \A g \in Helpers \ {h} : pc'[g] = pc[g]
    BY <1>7 DEF WriteState, Return, TypeOK, Busy
  <2>2. Busy' = Busy \ {h}
    BY <2>1 DEF Busy
  <2> SUFFICES ASSUME Unharmed(mishaps)
               PROVE  /\ Busy' = {}
                      /\ \A s \in Services : EnabledIn(state, s)' => Exposed(config, s)'
    BY <2>1 DEF ExposedInv
  <2>3. Busy = {h} /\ CallExposes(h)
    BY <2>1 DEF ExposedInv
  <2>4. ASSUME NEW s \in Services, EnabledIn(state, s)'
        PROVE  Exposed(config, s)'
    <3>1. Exposed(config, s)
      BY <2>1, <2>3, <2>4 DEF EnabledIn, CallExposes
    <3>2. QED
      BY <2>1, <3>1 DEF Exposed
  <2>5. QED
    BY <2>2, <2>3, <2>4
<1>8. ASSUME NEW h \in Helpers, Crash(h)
      PROVE  ExposedInv'
  <2>1. ~Unharmed(mishaps')
    BY <1>8 DEF Crash, Unharmed
  <2>2. QED
    BY <2>1 DEF ExposedInv
<1>9. ASSUME NEW c \in Clients, NEW s \in Services, Edit(c, s)
      PROVE  ExposedInv'
  <2> SUFFICES ASSUME Unharmed(mishaps')
               PROVE  ExposedInv'
    BY DEF ExposedInv
  <2>1. /\ pc' = pc /\ work' = work /\ state' = state /\ mishaps' = mishaps
        /\ config' = [config EXCEPT ![c].own = @ \cup {s}]
    BY <1>9 DEF Edit, Unharmed
  <2>2. /\ \A d \in Clients : config'[d].managed = config[d].managed
        /\ \A h \in Helpers, d \in Clients :
              Written(h)'[d].managed = Written(h)[d].managed
    BY <2>1 DEF TypeOK, Config, Written
  <2>3. ASSUME NEW t \in Services
        PROVE  /\ Exposed(config, t)' <=> Exposed(config, t)
               /\ EnabledIn(state, t)' <=> EnabledIn(state, t)
               /\ \A h \in Helpers :
                    /\ Exposed(Written(h), t)' <=> Exposed(Written(h), t)
                    /\ EnabledIn(work[h].next, t)' <=> EnabledIn(work[h].next, t)
    BY <2>1, <2>2 DEF Exposed, EnabledIn
  <2>4. Busy' = Busy
    BY <2>1 DEF Busy
  <2>5. ASSUME NEW h \in Helpers, CallExposes(h)
        PROVE  CallExposes(h)'
    BY <2>1, <2>3, <2>5 DEF CallExposes
  <2>6. QED
    BY <2>1, <2>3, <2>4, <2>5 DEF ExposedInv, Busy
<1>10. CASE UNCHANGED vars
  BY <1>10 DEF vars, ExposedInv, Busy, CallExposes, Exposed, EnabledIn, Written
<1>11. ASSUME NEW h \in Helpers, TakeOff(h)
       PROVE  ExposedInv'
  BY <1>11, TakeOffExposes
<1>12. QED
  BY <1>1, <1>2, <1>3, <1>4, <1>5, <1>6, <1>7, <1>8, <1>9, <1>10, <1>11
  DEF Next, Continue, Enable, Disable, Remove, TakingOff

(* Between calls whatever is listed as Enabled has an entry in some        *)
(* client's config, for any number of clients, sessions and services.      *)
THEOREM EnabledSafety == Spec => []EnabledIsConfigured
<1> DEFINE I == TypeOK /\ InPlace /\ ExposedInv
<1>1. Init => I
  <2>1. ASSUME Init PROVE TypeOK
    BY <2>1, NoWorkType
    DEF Init, TypeOK, NoState, State, Decision, NoEntries, Config, Label
  <2>2. ASSUME Init PROVE InPlace /\ ExposedInv
    BY <2>2 DEF Init, InPlace, ExposedInv, Busy, EnabledIn, NoState
  <2>3. QED
    BY <2>1, <2>2
<1>2. I /\ [Next]_vars => I'
  BY TypeStep, PlaceStep, ExposedStep
<1>3. I => EnabledIsConfigured
  BY DEF ExposedInv, EnabledIsConfigured, Unharmed, Status, EnabledIn, Exposed
<1>4. QED
  BY <1>1, <1>2, <1>3, PTL DEF Spec
===============================================================================
