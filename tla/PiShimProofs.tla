----------------------------- MODULE PiShimProofs -----------------------------
(***************************************************************************)
(* Theorems about PiShim, for any projects, services, activations, calls   *)
(* and bounds.  What activations and processes have to do with each other  *)
(* is stated of a pair <<W, A>> of them, because a step first cuts off     *)
(* whoever waited for what it stops and then takes an activation onward.   *)
(***************************************************************************)
EXTENDS PiShim, TLAPS

-------------------------------------------------------------------------------
(* Types.                                                                  *)

(* An activation that waits for an answer waits for a process that runs,   *)
(* and for one that no other waits for.                                    *)
Coherent(W, A) ==
    /\ W \in [Ids -> Process \cup {NoProcess}]
    /\ A \in [Acts -> Act]
    /\ \A a \in Acts : A[a].at \in {"init", "list"} =>
                          A[a].id \in Ids /\ W[A[a].id] # NoProcess
    /\ \A a \in Acts : A[a].at \in {"idle", "ack", "cut"} => A[a].id = NoId
    /\ \A a \in Acts : A[a].at # "idle" => A[a].project \in Projects
    /\ \A a, b \in Acts : a # b /\ A[a].id = A[b].id => A[a].id = NoId

TypeInv == TypeOK /\ Coherent(wrapper, acts)

LEMMA NoActType == NoAct \in Act
  BY BoundAssumption DEF NoAct, Act, Places, Instances

(* Taking an activation onward keeps the pair coherent.                    *)
LEMMA OnwardCoherent ==
  ASSUME NEW W, NEW A, Coherent(W, A), NEW a \in Acts, NEW r \in Act,
         r.project \in Projects, Onward(a, r, W, A)
  PROVE  Coherent(wrapper', acts')
<1>0. r \in [at : Places, project : Projects \cup {NoProject}, list : Instances,
             left : SUBSET Services, id : Ids \cup {NoId}]
  BY DEF Act
<1>1. CASE wrapper' = W /\ acts' = [A EXCEPT ![a] = NoAct]
  BY <1>1, NoActType DEF Coherent, NoAct
<1>2. CASE \E s \in Earliest(r.left), k \in Spare(W) :
        /\ wrapper' = [W EXCEPT ![k] = [project |-> r.project, service |-> s,
                                        list |-> NoList]]
        /\ acts' = [A EXCEPT ![a] = [r EXCEPT !.at = "init", !.left = @ \ {s}, !.id = k]]
  <2>1. PICK s \in Earliest(r.left) : \E k \in Spare(W) :
        /\ wrapper' = [W EXCEPT ![k] = [project |-> r.project, service |-> s,
                                        list |-> NoList]]
        /\ acts' = [A EXCEPT ![a] = [r EXCEPT !.at = "init", !.left = @ \ {s}, !.id = k]]
    BY <1>2
  <2>2. PICK k \in Spare(W) :
        /\ wrapper' = [W EXCEPT ![k] = [project |-> r.project, service |-> s,
                                        list |-> NoList]]
        /\ acts' = [A EXCEPT ![a] = [r EXCEPT !.at = "init", !.left = @ \ {s}, !.id = k]]
    BY <2>1
  <2>3. k \in Ids /\ W[k] = NoProcess /\ s \in Services /\ k # NoId
    BY <1>0, IdAssumption DEF Spare, Earliest
  <2> DEFINE new == [project |-> r.project, service |-> s, list |-> NoList]
  <2> DEFINE act == [r EXCEPT !.at = "init", !.left = @ \ {s}, !.id = k]
  <2>4. new \in Process /\ new # NoProcess
    BY <2>3, ProcessAssumption DEF Process
  <2>5. act \in Act /\ act.at = "init" /\ act.id = k /\ act.project \in Projects
    BY <2>3, <1>0 DEF Act, Places
  <2>6. wrapper' = [W EXCEPT ![k] = new] /\ acts' = [A EXCEPT ![a] = act]
    BY <2>2
  <2> HIDE DEF new, act
  <2>7. \A b \in Acts : A[b].id # k
    BY <2>3 DEF Coherent, Act, Places
  <2>8. QED
    BY <2>3, <2>4, <2>5, <2>6, <2>7 DEF Coherent
<1>3. CASE \E s \in Earliest(r.left) :
        /\ Spare(W) = {} /\ wrapper' = W
        /\ acts' = [A EXCEPT ![a] = [r EXCEPT !.at = "cut", !.left = @ \ {s}, !.id = NoId]]
  <2>1. PICK s \in Earliest(r.left) :
        /\ wrapper' = W
        /\ acts' = [A EXCEPT ![a] = [r EXCEPT !.at = "cut", !.left = @ \ {s}, !.id = NoId]]
    BY <1>3
  <2> DEFINE act == [r EXCEPT !.at = "cut", !.left = @ \ {s}, !.id = NoId]
  <2>2. act \in Act /\ act.at = "cut" /\ act.id = NoId /\ act.project \in Projects
    BY <1>0 DEF Act, Places
  <2>3. acts' = [A EXCEPT ![a] = act]
    BY <2>1
  <2> HIDE DEF act
  <2>4. QED
    BY <2>1, <2>2, <2>3 DEF Coherent
<1>4. QED
  BY <1>1, <1>2, <1>3 DEF Onward

(* So does stopping processes and refusing whoever waits for them.         *)
LEMMA CutCoherent ==
  ASSUME Coherent(wrapper, acts), NEW K \in SUBSET Ids
  PROVE  Coherent(Stopped(K), CutActs(K))
<1>1. CutActs(K) \in [Acts -> Act]
  BY DEF Coherent, CutActs, Act, Places
<1>2. \A a \in Acts :
        \/ CutActs(K)[a] = acts[a] /\ acts[a].id \notin K
        \/ /\ CutActs(K)[a].at = "cut" /\ CutActs(K)[a].id = NoId
           /\ CutActs(K)[a].project = acts[a].project
           /\ acts[a].at \in {"init", "list"}
  BY IdAssumption DEF Coherent, CutActs, Act, Places
<1>3. QED
  BY <1>1, <1>2 DEF Coherent, Stopped

(* What an activation starts with.                                         *)
LEMMA ActivateCoherent ==
  ASSUME TypeInv, NEW a \in Acts, NEW i \in Instances, NEW p \in Projects,
         NEW found \in SUBSET Services, NEW K \in SUBSET Ids,
         Activate(a, i, p, found, K)
  PROVE  Coherent(wrapper', acts')
<1> DEFINE r == [at |-> "ack", project |-> p, list |-> i, left |-> found, id |-> NoId]
<1> DEFINE q == [r EXCEPT !.left = {}]
<1>1. r \in Act /\ q \in Act /\ r.project \in Projects /\ q.project \in Projects
  BY DEF Act, Places
<1>2. Coherent(Stopped(K), CutActs(K))
  BY CutCoherent DEF TypeInv
<1>3. CASE wrapper' = Stopped(K) /\ acts' = [CutActs(K) EXCEPT ![a] = r]
  <2>1. r.at = "ack" /\ r.id = NoId
    OBVIOUS
  <2> HIDE DEF r
  <2>2. QED
    BY <1>1, <1>2, <1>3, <2>1 DEF Coherent
<1>4. CASE Onward(a, r, Stopped(K), CutActs(K))
  <2> HIDE DEF r
  <2>1. QED
    BY <1>1, <1>2, <1>4, OnwardCoherent
<1>5. CASE Onward(a, q, Stopped(K), CutActs(K))
  <2> HIDE DEF q
  <2>1. QED
    BY <1>1, <1>2, <1>5, OnwardCoherent
<1>6. QED
  BY <1>3, <1>4, <1>5 DEF Activate

(* An activation starts with well-typed routes and calls.                  *)
LEMMA ActivateTypes ==
  ASSUME TypeInv, NEW a \in Acts, NEW i \in Instances, NEW p \in Projects,
         NEW found \in SUBSET Services, NEW K \in SUBSET Ids,
         Activate(a, i, p, found, K),
         instance' \in Instances, approved' \in [Projects -> SUBSET Services],
         mishaps' \subseteq {"overlap", "elsewhere", "late"},
         changes' \in 0 .. MaxChanges
  PROVE  TypeInv'
<1>1. Coherent(wrapper', acts')
  BY ActivateCoherent
<1>2. /\ serviceRoute' \in [Services -> Ids \cup {NoId}]
      /\ toolRoute' \in [Services -> Ids \cup {NoId}]
      /\ root' \in Projects \cup {NoProject}
  BY DEF Activate, NoRoutes
<1>3. calls' \in [Calls -> Ids \cup {NoId}]
  BY DEF Activate, CutCalls, TypeInv, TypeOK
<1>4. QED
  BY <1>1, <1>2, <1>3 DEF TypeInv, TypeOK, Coherent

LEMMA NotedType ==
  ASSUME TypeOK, NEW a
  PROVE  Noted(a) \subseteq {"overlap", "elsewhere", "late"}
  BY DEF TypeOK, Noted

LEMMA OnListType == ASSUME NEW i PROVE OnList(i) \in SUBSET Ids
  BY DEF OnList

(* Stopping processes leaves the calls and routes well typed.              *)
LEMMA CutTypes ==
  ASSUME TypeOK, NEW K
  PROVE  /\ CutCalls(K) \in [Calls -> Ids \cup {NoId}]
         /\ CutRoutes(serviceRoute, K) \in [Services -> Ids \cup {NoId}]
         /\ CutRoutes(toolRoute, K) \in [Services -> Ids \cup {NoId}]
  BY DEF TypeOK, CutCalls, CutRoutes

LEMMA TypeStep == TypeInv /\ [Next]_vars => TypeInv'
<1> SUFFICES ASSUME TypeInv, [Next]_vars PROVE TypeInv'
  OBVIOUS
<1> USE DEF TypeInv
<1>0. TypeOK /\ Coherent(wrapper, acts) /\ 1 \in Instances
  BY BoundAssumption DEF Instances
<1>1. ASSUME NEW a \in Acts, NEW p \in Projects, Start(a, p) PROVE TypeInv'
  <2>1. Activate(a, instance, p, approved[p], OnList(instance))
    BY <1>1 DEF Start
  <2>2. mishaps' = Noted(a) /\ UNCHANGED <<instance, approved, changes>>
    BY <1>1 DEF Start
  <2>3. QED
    BY <1>0, <2>1, <2>2, ActivateTypes, NotedType, OnListType DEF TypeOK
<1>2. ASSUME NEW a \in Acts, NEW p \in Projects, UseTool(a, p) PROVE TypeInv'
  <2>1. Activate(a, 1, p, approved[p], OnList(1))
    BY <1>2 DEF UseTool
  <2>2. mishaps' = Noted(a) /\ UNCHANGED <<instance, approved, changes>>
    BY <1>2 DEF UseTool
  <2>3. QED
    BY <1>0, <2>1, <2>2, ActivateTypes, NotedType, OnListType DEF TypeOK
<1>3. ASSUME NEW a \in Acts, NEW p \in Projects, Reload(a, p) PROVE TypeInv'
  <2>1. Activate(a, instance + 1, p, approved[p], OnList(instance))
    BY <1>3 DEF Reload, ShutdownClients
  <2>2. instance + 1 \in Instances /\ instance' = instance + 1
    BY <1>0, <1>3, BoundAssumption DEF Reload, TypeOK, Instances
  <2>3. mishaps' \subseteq {"overlap", "elsewhere", "late"}
    BY <1>0, <1>3, NotedType DEF Reload
  <2>4. UNCHANGED <<approved, changes>>
    BY <1>3 DEF Reload
  <2>5. QED
    BY <1>0, <2>1, <2>2, <2>3, <2>4, ActivateTypes, OnListType DEF TypeOK
<1>4. ASSUME NEW a \in Acts, NEW p \in Projects, NEW s \in Services, Manage(a, p, s)
      PROVE TypeInv'
  <2>1. Activate(a, 1, p, approved'[p], OnList(1))
    BY <1>4 DEF Manage
  <2>2. approved' \in [Projects -> SUBSET Services]
    BY <1>0, <1>4 DEF Manage, Toggled, TypeOK
  <2>3. mishaps' = Noted(a) /\ UNCHANGED instance
    BY <1>4 DEF Manage
  <2>4. changes' \in 0 .. MaxChanges
    BY <1>0, <1>4, BoundAssumption DEF Manage, TypeOK
  <2>5. QED
    BY <1>0, <2>1, <2>2, <2>3, <2>4, ActivateTypes, NotedType, OnListType DEF TypeOK
<1>5. ASSUME NEW a \in Acts, Acknowledged(a) PROVE TypeInv'
  <2> DEFINE r == [acts[a] EXCEPT !.left = approved[acts[a].project]]
  <2>1. acts[a].project \in Projects /\ acts[a] \in Act
    BY <1>0, <1>5 DEF Acknowledged, Coherent
  <2>2. r \in Act /\ r.project \in Projects
    BY <1>0, <2>1 DEF Act, TypeOK
  <2>3. Onward(a, r, wrapper, acts)
    BY <1>5 DEF Acknowledged
  <2> HIDE DEF r
  <2>4. Coherent(wrapper', acts')
    BY <1>0, <2>2, <2>3, OnwardCoherent
  <2>5. QED
    BY <1>0, <1>5, <2>4 DEF Acknowledged, TypeOK, Coherent
<1>6. ASSUME NEW a \in Acts, Initialized(a) PROVE TypeInv'
  <2> DEFINE k == acts[a].id
  <2> DEFINE new == [wrapper[k] EXCEPT !.list = acts[a].list]
  <2> DEFINE act == [acts[a] EXCEPT !.at = "list"]
  <2>1. k \in Ids /\ wrapper[k] \in Process /\ acts[a] \in Act
    BY <1>0, <1>6 DEF Initialized, Coherent
  <2>2. new \in Process /\ new # NoProcess
    BY <2>1, ProcessAssumption DEF Process, Act
  <2>3. act \in Act /\ act.at = "list" /\ act.id = k /\ act.project = acts[a].project
    BY <2>1 DEF Act, Places
  <2>4. wrapper' = [wrapper EXCEPT ![k] = new] /\ acts' = [acts EXCEPT ![a] = act]
    BY <1>6 DEF Initialized
  <2>5. acts[a].at = "init"
    BY <1>6 DEF Initialized
  <2>6. wrapper[k].service \in Services
    BY <2>1 DEF Process
  <2> HIDE DEF new, act
  <2>7. Coherent(wrapper', acts')
    BY <1>0, <2>1, <2>2, <2>3, <2>4, <2>5 DEF Coherent
  <2>8. serviceRoute' \in [Services -> Ids \cup {NoId}]
    BY <1>0, <1>6, <2>1, <2>6 DEF Initialized, TypeOK
  <2>9. QED
    BY <1>0, <1>6, <2>7, <2>8 DEF Initialized, TypeOK, Coherent
<1>7. ASSUME NEW a \in Acts, Listed(a) PROVE TypeInv'
  <2>1. acts[a] \in Act /\ acts[a].project \in Projects /\ acts[a].id \in Ids
    BY <1>0, <1>7 DEF Listed, Coherent
  <2>2. Coherent(wrapper', acts')
    BY <1>0, <1>7, <2>1, OnwardCoherent DEF Listed
  <2>3. toolRoute' \in [Services -> Ids \cup {NoId}]
    BY <1>0, <1>7, <2>1 DEF Listed, TypeOK
  <2>4. QED
    BY <1>0, <1>7, <2>2, <2>3 DEF Listed, TypeOK, Coherent
<1>8. ASSUME NEW a \in Acts, GiveUp(a) PROVE TypeInv'
  <2>1. acts[a] \in Act /\ acts[a].project \in Projects /\ acts[a].id \in Ids
    BY <1>0, <1>8 DEF GiveUp, Coherent
  <2>2. {acts[a].id} \in SUBSET Ids
    BY <2>1
  <2>3. Coherent(Stopped({acts[a].id}), CutActs({acts[a].id}))
    BY <1>0, <2>2, CutCoherent
  <2>4. Onward(a, acts[a], Stopped({acts[a].id}), CutActs({acts[a].id}))
    BY <1>8 DEF GiveUp
  <2>5. Coherent(wrapper', acts')
    BY <2>1, <2>3, <2>4, OnwardCoherent
  <2>6. QED
    BY <1>0, <1>8, <2>5, CutTypes DEF GiveUp, TypeOK, Coherent
<1>9. ASSUME NEW a \in Acts, Resume(a) PROVE TypeInv'
  <2>1. acts[a] \in Act /\ acts[a].project \in Projects
    BY <1>0, <1>9 DEF Resume, Coherent
  <2>2. Coherent(wrapper', acts')
    BY <1>0, <1>9, <2>1, OnwardCoherent DEF Resume
  <2>3. QED
    BY <1>0, <1>9, <2>2 DEF Resume, TypeOK, Coherent
<1>10. ASSUME NEW c \in Calls, NEW s \in Services, Call(c, s) PROVE TypeInv'
  BY <1>0, <1>10 DEF Call, TypeOK, Coherent
<1>11. ASSUME NEW c \in Calls, Answered(c) \/ Timeout(c) PROVE TypeInv'
  BY <1>0, <1>11 DEF Answered, Timeout, Returns, TypeOK, Coherent
<1>12. ASSUME NEW k \in Ids, Gone(k) PROVE TypeInv'
  <2>1. Coherent(wrapper', acts')
    BY <1>0, <1>12, CutCoherent DEF Gone
  <2>2. QED
    BY <1>0, <1>12, <2>1, CutTypes DEF Gone, TypeOK, Coherent
<1>13. ASSUME NEW p \in Projects, NEW s \in Services, Elsewhere(p, s) PROVE TypeInv'
  <2>1. approved' \in [Projects -> SUBSET Services]
    BY <1>0, <1>13 DEF Elsewhere, Toggled, TypeOK
  <2>2. QED
    BY <1>0, <1>13, <2>1, BoundAssumption DEF Elsewhere, TypeOK, Coherent
<1>14. CASE UNCHANGED vars
  BY <1>0, <1>14 DEF vars, TypeOK, Coherent
<1> HIDE DEF TypeInv
<1>15. QED
  BY <1>1, <1>2, <1>3, <1>4, <1>5, <1>6, <1>7, <1>8, <1>9, <1>10, <1>11, <1>12,
     <1>13, <1>14 DEF Next, Settle

LEMMA TypeInit == Init => TypeInv
<1> SUFFICES ASSUME Init PROVE TypeInv
  OBVIOUS
<1>1. acts = [a \in Acts |-> NoAct] /\ wrapper = [k \in Ids |-> NoProcess]
  BY DEF Init
<1>2. Coherent(wrapper, acts)
  BY <1>1, NoActType DEF Coherent, NoAct
<1>3. approved \in [Projects -> SUBSET Services]
  BY ServiceAssumption DEF Init
<1>4. QED
  BY <1>2, <1>3, BoundAssumption DEF TypeInv, TypeOK, Init, Coherent, Instances, NoRoutes

(* The variables keep their types, and an activation that waits for an     *)
(* answer waits for a process that runs.                                   *)
THEOREM TypeCorrect == Spec => []TypeOK
<1>1. Spec => []TypeInv
  BY TypeInit, TypeStep, PTL DEF Spec
<1>2. TypeInv => TypeOK
  BY DEF TypeInv
<1>3. QED
  BY <1>1, <1>2, PTL

-------------------------------------------------------------------------------
(* No wrapper is left behind.  I holds the loads whose lists are still     *)
(* emptied by somebody.                                                    *)
Kept(W, A, I) ==
    /\ \A k \in Ids : W[k] # NoProcess =>
          (\E a \in Acts : A[a].id = k) \/ W[k].list \in I
    /\ \A a \in Acts : A[a].at # "idle" => A[a].list \in I
    /\ \A a \in Acts : A[a].at = "list" => W[A[a].id].list = A[a].list

KeptInv == "late" \notin mishaps => Kept(wrapper, acts, {1, instance})

(* An activation goes on only from a wrapper that is in such a list.       *)
LEMMA OnwardKept ==
  ASSUME NEW W, NEW A, NEW I, Coherent(W, A), Kept(W, A, I),
         NEW a \in Acts, NEW r \in Act, r.list \in I, Onward(a, r, W, A),
         A[a].id = NoId \/ A[a].at = "list"
  PROVE  Kept(wrapper', acts', I)
<1>0. r \in [at : Places, project : Projects \cup {NoProject}, list : Instances,
             left : SUBSET Services, id : Ids \cup {NoId}]
  BY DEF Act
<1>a. \A k \in Ids : A[a].id = k /\ W[k] # NoProcess => W[k].list \in I
  BY IdAssumption DEF Coherent, Kept
<1>1. CASE wrapper' = W /\ acts' = [A EXCEPT ![a] = NoAct]
  BY <1>1, <1>a, IdAssumption DEF Coherent, Kept, NoAct
<1>2. CASE \E s \in Earliest(r.left), k \in Spare(W) :
        /\ wrapper' = [W EXCEPT ![k] = [project |-> r.project, service |-> s,
                                        list |-> NoList]]
        /\ acts' = [A EXCEPT ![a] = [r EXCEPT !.at = "init", !.left = @ \ {s}, !.id = k]]
  <2>1. PICK s \in Earliest(r.left) : \E k \in Spare(W) :
        /\ wrapper' = [W EXCEPT ![k] = [project |-> r.project, service |-> s,
                                        list |-> NoList]]
        /\ acts' = [A EXCEPT ![a] = [r EXCEPT !.at = "init", !.left = @ \ {s}, !.id = k]]
    BY <1>2
  <2>2. PICK k \in Spare(W) :
        /\ wrapper' = [W EXCEPT ![k] = [project |-> r.project, service |-> s,
                                        list |-> NoList]]
        /\ acts' = [A EXCEPT ![a] = [r EXCEPT !.at = "init", !.left = @ \ {s}, !.id = k]]
    BY <2>1
  <2> DEFINE new == [project |-> r.project, service |-> s, list |-> NoList]
  <2> DEFINE act == [r EXCEPT !.at = "init", !.left = @ \ {s}, !.id = k]
  <2>3. k \in Ids /\ W[k] = NoProcess
    BY DEF Spare
  <2>4. act.at = "init" /\ act.id = k /\ act.list \in I
    BY <1>0
  <2>5. wrapper' = [W EXCEPT ![k] = new] /\ acts' = [A EXCEPT ![a] = act]
    BY <2>2
  <2> HIDE DEF new, act
  <2>6. \A b \in Acts : A[b].at = "list" => A[b].id # k
    BY <2>3 DEF Coherent
  <2>7. \A j \in Ids : wrapper'[j] # NoProcess =>
          (\E b \in Acts : acts'[b].id = j) \/ wrapper'[j].list \in I
    <3>1. SUFFICES ASSUME NEW j \in Ids, wrapper'[j] # NoProcess, j # k
                   PROVE  (\E b \in Acts : acts'[b].id = j) \/ wrapper'[j].list \in I
      BY <2>4, <2>5 DEF Coherent
    <3>2. wrapper'[j] = W[j]
      BY <2>5, <3>1 DEF Coherent
    <3>3. (\E b \in Acts : A[b].id = j) \/ W[j].list \in I
      BY <3>1, <3>2 DEF Kept
    <3>4. \A b \in Acts : b # a => acts'[b] = A[b]
      BY <2>5 DEF Coherent
    <3>5. QED
      BY <1>a, <3>1, <3>2, <3>3, <3>4
  <2>8. QED
    BY <2>3, <2>4, <2>5, <2>6, <2>7 DEF Coherent, Kept
<1>3. CASE \E s \in Earliest(r.left) :
        /\ Spare(W) = {} /\ wrapper' = W
        /\ acts' = [A EXCEPT ![a] = [r EXCEPT !.at = "cut", !.left = @ \ {s}, !.id = NoId]]
  <2>1. PICK s \in Earliest(r.left) :
        /\ wrapper' = W
        /\ acts' = [A EXCEPT ![a] = [r EXCEPT !.at = "cut", !.left = @ \ {s}, !.id = NoId]]
    BY <1>3
  <2> DEFINE act == [r EXCEPT !.at = "cut", !.left = @ \ {s}, !.id = NoId]
  <2>2. act.at = "cut" /\ act.id = NoId /\ act.list \in I
    BY <1>0
  <2>3. acts' = [A EXCEPT ![a] = act]
    BY <2>1
  <2> HIDE DEF act
  <2>4. QED
    BY <1>a, <2>1, <2>2, <2>3, IdAssumption DEF Coherent, Kept
<1>4. QED
  BY <1>1, <1>2, <1>3 DEF Onward

LEMMA CutKept ==
  ASSUME TypeInv, NEW I, Kept(wrapper, acts, I), NEW K \in SUBSET Ids
  PROVE  Kept(Stopped(K), CutActs(K), I)
<1>1. \A a \in Acts :
        \/ CutActs(K)[a] = acts[a] /\ acts[a].id \notin K
        \/ /\ CutActs(K)[a].at = "cut" /\ CutActs(K)[a].id = NoId
           /\ CutActs(K)[a].list = acts[a].list
           /\ acts[a].id \in K /\ acts[a].at # "idle"
  BY IdAssumption DEF TypeInv, Coherent, CutActs, Act, Places
<1>2. \A k \in Ids : Stopped(K)[k] # NoProcess =>
        k \notin K /\ Stopped(K)[k] = wrapper[k]
  BY DEF Stopped
<1>3. \A k \in Ids \ K : Stopped(K)[k] = wrapper[k]
  BY DEF Stopped
<1>4. \A a \in Acts : acts[a].at = "list" => acts[a].id \in Ids
  BY DEF TypeInv, Coherent
<1>5. QED
  BY <1>1, <1>2, <1>3, <1>4 DEF Kept

(* With the lists that K empties left out, an activation keeps the rest.   *)
LEMMA ActivateKept ==
  ASSUME TypeInv, NEW a \in Acts, acts[a].at = "idle", NEW i \in Instances,
         NEW p \in Projects, NEW found \in SUBSET Services, NEW K \in SUBSET Ids,
         Activate(a, i, p, found, K), NEW I, i \in I,
         Kept(Stopped(K), CutActs(K), I)
  PROVE  Kept(wrapper', acts', I)
<1> DEFINE r == [at |-> "ack", project |-> p, list |-> i, left |-> found, id |-> NoId]
<1> DEFINE q == [r EXCEPT !.left = {}]
<1>1. r \in Act /\ q \in Act /\ r.list \in I /\ q.list \in I
  BY DEF Act, Places
<1>2. Coherent(Stopped(K), CutActs(K))
  BY CutCoherent DEF TypeInv
<1>3. CutActs(K)[a].id = NoId
  BY IdAssumption DEF CutActs, TypeInv, Coherent, Act
<1>4. CASE wrapper' = Stopped(K) /\ acts' = [CutActs(K) EXCEPT ![a] = r]
  <2>1. r.at = "ack" /\ r.id = NoId
    OBVIOUS
  <2> HIDE DEF r
  <2>2. QED
    BY <1>1, <1>2, <1>3, <1>4, <2>1, IdAssumption DEF Coherent, Kept
<1>5. CASE Onward(a, r, Stopped(K), CutActs(K))
  <2> HIDE DEF r
  <2>1. QED
    BY <1>1, <1>2, <1>3, <1>5, OnwardKept
<1>6. CASE Onward(a, q, Stopped(K), CutActs(K))
  <2> HIDE DEF q
  <2>1. QED
    BY <1>1, <1>2, <1>3, <1>6, OnwardKept
<1>7. QED
  BY <1>4, <1>5, <1>6 DEF Activate

LEMMA KeptStep == TypeInv /\ KeptInv /\ [Next]_vars => KeptInv'
<1> SUFFICES ASSUME TypeInv, KeptInv, [Next]_vars, "late" \notin mishaps'
             PROVE  Kept(wrapper', acts', {1, instance'})
  BY DEF KeptInv
<1>0. TypeOK /\ Coherent(wrapper, acts) /\ 1 \in Instances
  BY BoundAssumption DEF TypeInv, Instances
<1>1. ASSUME NEW a \in Acts, NEW p \in Projects, Start(a, p)
      PROVE Kept(wrapper', acts', {1, instance'})
  <2>1. Activate(a, instance, p, approved[p], OnList(instance))
    BY <1>1 DEF Start
  <2>2. "late" \notin mishaps /\ instance' = instance /\ acts[a].at = "idle"
    BY <1>1 DEF Start, Noted
  <2>3. Kept(Stopped(OnList(instance)), CutActs(OnList(instance)), {1, instance})
    BY <2>2, CutKept, OnListType DEF KeptInv
  <2>4. QED
    BY <1>0, <2>1, <2>2, <2>3, ActivateKept, OnListType DEF TypeOK
<1>2. ASSUME NEW a \in Acts, NEW p \in Projects, UseTool(a, p)
      PROVE Kept(wrapper', acts', {1, instance'})
  <2>1. Activate(a, 1, p, approved[p], OnList(1))
    BY <1>2 DEF UseTool
  <2>2. "late" \notin mishaps /\ instance' = instance /\ acts[a].at = "idle"
    BY <1>2 DEF UseTool, Noted
  <2>3. Kept(Stopped(OnList(1)), CutActs(OnList(1)), {1, instance})
    BY <2>2, CutKept, OnListType DEF KeptInv
  <2>4. QED
    BY <1>0, <2>1, <2>2, <2>3, ActivateKept, OnListType DEF TypeOK
<1>3. ASSUME NEW a \in Acts, NEW p \in Projects, Reload(a, p)
      PROVE Kept(wrapper', acts', {1, instance'})
  <2> DEFINE K == OnList(instance)
  <2>1. Activate(a, instance + 1, p, approved[p], K) /\ instance' = instance + 1
    BY <1>3 DEF Reload, ShutdownClients
  <2>2. "late" \notin mishaps /\ ~ Overlap(a) /\ acts[a].at = "idle"
    BY <1>3 DEF Reload, Noted
  <2>3. \A b \in Acts : acts[b].at = "idle" /\ acts[b].id = NoId
    BY <1>0, <2>2 DEF Overlap, Active, Coherent
  <2>4. CutActs(K) = acts
    <3>1. NoId \notin K
      BY OnListType, IdAssumption
    <3>2. \A b \in Acts : CutActs(K)[b] = acts[b]
      BY <2>3, <3>1 DEF CutActs
    <3>3. QED
      BY <1>0, <3>2 DEF CutActs, Coherent
  <2>5. Kept(wrapper, acts, {1, instance})
    BY <2>2 DEF KeptInv
  <2>6. \A k \in Ids : Stopped(K)[k] # NoProcess => Stopped(K)[k].list = 1
    <3>1. SUFFICES ASSUME NEW k \in Ids, Stopped(K)[k] # NoProcess
                   PROVE  Stopped(K)[k].list = 1
      OBVIOUS
    <3>2. k \notin K /\ Stopped(K)[k] = wrapper[k]
      BY <3>1 DEF Stopped
    <3>3. wrapper[k].list # instance
      BY <3>1, <3>2 DEF OnList, ListOf, Up
    <3>4. wrapper[k].list \in {1, instance}
      BY <2>3, <2>5, <3>1, <3>2, IdAssumption DEF Kept
    <3>5. QED
      BY <3>2, <3>3, <3>4
  <2>7. Kept(Stopped(K), CutActs(K), {1, instance + 1})
    BY <2>3, <2>4, <2>6 DEF Kept
  <2>8. instance + 1 \in Instances
    BY <1>0, <1>3, BoundAssumption DEF Reload, TypeOK, Instances
  <2> HIDE DEF K
  <2>9. K \in SUBSET Ids
    BY OnListType DEF K
  <2>10. QED
    BY <1>0, <2>1, <2>2, <2>7, <2>8, <2>9, ActivateKept DEF TypeOK
<1>4. ASSUME NEW a \in Acts, NEW p \in Projects, NEW s \in Services, Manage(a, p, s)
      PROVE Kept(wrapper', acts', {1, instance'})
  <2>1. Activate(a, 1, p, approved'[p], OnList(1))
    BY <1>4 DEF Manage
  <2>2. "late" \notin mishaps /\ instance' = instance /\ acts[a].at = "idle"
    BY <1>4 DEF Manage, Noted
  <2>3. approved'[p] \in SUBSET Services
    BY <1>0, <1>4 DEF Manage, Toggled, TypeOK
  <2>4. Kept(Stopped(OnList(1)), CutActs(OnList(1)), {1, instance})
    BY <2>2, CutKept, OnListType DEF KeptInv
  <2>5. QED
    BY <1>0, <2>1, <2>2, <2>3, <2>4, ActivateKept, OnListType DEF TypeOK
<1>5. ASSUME NEW a \in Acts, Acknowledged(a)
      PROVE Kept(wrapper', acts', {1, instance'})
  <2> DEFINE r == [acts[a] EXCEPT !.left = approved[acts[a].project]]
  <2>1. Kept(wrapper, acts, {1, instance}) /\ instance' = instance
    BY <1>5 DEF Acknowledged, KeptInv
  <2>2. acts[a] \in Act /\ acts[a].project \in Projects /\ acts[a].id = NoId
    BY <1>0, <1>5 DEF Acknowledged, Coherent
  <2>3. r \in Act /\ r.list \in {1, instance}
    BY <1>0, <1>5, <2>1, <2>2 DEF Acknowledged, Act, TypeOK, Kept
  <2>4. Onward(a, r, wrapper, acts)
    BY <1>5 DEF Acknowledged
  <2> HIDE DEF r
  <2>5. QED
    BY <1>0, <2>1, <2>2, <2>3, <2>4, OnwardKept
<1>6. ASSUME NEW a \in Acts, Initialized(a)
      PROVE Kept(wrapper', acts', {1, instance'})
  <2> DEFINE k == acts[a].id
  <2> DEFINE new == [wrapper[k] EXCEPT !.list = acts[a].list]
  <2> DEFINE act == [acts[a] EXCEPT !.at = "list"]
  <2>1. Kept(wrapper, acts, {1, instance}) /\ instance' = instance
    BY <1>6 DEF Initialized, KeptInv
  <2>2. k \in Ids /\ wrapper[k] \in Process /\ acts[a] \in Act /\ acts[a].at = "init"
    BY <1>0, <1>6 DEF Initialized, Coherent
  <2>3. new.list = acts[a].list
    BY <2>2 DEF Process
  <2>4. act.at = "list" /\ act.id = k /\ act.list = acts[a].list
    BY <2>2 DEF Act
  <2>5. wrapper' = [wrapper EXCEPT ![k] = new] /\ acts' = [acts EXCEPT ![a] = act]
    BY <1>6 DEF Initialized
  <2>6. \A b \in Acts : b # a => acts[b].id # k
    BY <1>0, <2>2, IdAssumption DEF Coherent
  <2>7. acts[a].list \in {1, instance}
    BY <2>1, <2>2 DEF Kept
  <2> HIDE DEF new, act
  <2>8. \A b \in Acts : acts'[b].at = "list" => wrapper'[acts'[b].id].list = acts'[b].list
    <3>1. SUFFICES ASSUME NEW b \in Acts, acts'[b].at = "list", b # a
                   PROVE  wrapper'[acts'[b].id].list = acts'[b].list
      BY <1>0, <2>2, <2>3, <2>4, <2>5 DEF Coherent
    <3>2. acts'[b] = acts[b] /\ acts[b].id \in Ids /\ acts[b].id # k
      BY <1>0, <2>5, <2>6, <3>1 DEF Coherent
    <3>3. wrapper'[acts[b].id] = wrapper[acts[b].id]
      BY <1>0, <2>5, <3>2 DEF Coherent
    <3>4. QED
      BY <2>1, <3>1, <3>2, <3>3 DEF Kept
  <2>9. \A b \in Acts : acts'[b].id = acts[b].id /\ acts'[b].list = acts[b].list
    BY <1>0, <2>4, <2>5 DEF Coherent
  <2>10. \A j \in Ids : wrapper'[j] # NoProcess =>
           (\E b \in Acts : acts'[b].id = j) \/ wrapper'[j].list \in {1, instance}
    BY <1>0, <2>1, <2>2, <2>5, <2>9 DEF Coherent, Kept
  <2>11. \A b \in Acts : acts'[b].at # "idle" => acts'[b].list \in {1, instance}
    BY <1>0, <2>1, <2>5, <2>7, <2>9 DEF Coherent, Kept
  <2>12. QED
    BY <2>1, <2>8, <2>10, <2>11 DEF Kept
<1>7. ASSUME NEW a \in Acts, Listed(a)
      PROVE Kept(wrapper', acts', {1, instance'})
  <2>1. Kept(wrapper, acts, {1, instance}) /\ instance' = instance
    BY <1>7 DEF Listed, KeptInv
  <2>2. acts[a] \in Act /\ acts[a].at = "list" /\ acts[a].list \in {1, instance}
    BY <1>0, <1>7, <2>1 DEF Listed, Coherent, Kept
  <2>3. Onward(a, acts[a], wrapper, acts)
    BY <1>7 DEF Listed
  <2>4. QED
    BY <1>0, <2>1, <2>2, <2>3, OnwardKept
<1>8. ASSUME NEW a \in Acts, GiveUp(a)
      PROVE Kept(wrapper', acts', {1, instance'})
  <2> DEFINE K == {acts[a].id}
  <2>1. Kept(wrapper, acts, {1, instance}) /\ instance' = instance
    BY <1>8 DEF GiveUp, KeptInv
  <2>2. acts[a] \in Act /\ acts[a].list \in {1, instance} /\ K \in SUBSET Ids
    BY <1>0, <1>8, <2>1 DEF GiveUp, Coherent, Kept
  <2>3. CutActs(K)[a].id = NoId
    BY <2>2 DEF CutActs, Act
  <2>4. Onward(a, acts[a], Stopped(K), CutActs(K))
    BY <1>8 DEF GiveUp
  <2> HIDE DEF K
  <2>5. Coherent(Stopped(K), CutActs(K)) /\ Kept(Stopped(K), CutActs(K), {1, instance})
    BY <1>0, <2>1, <2>2, CutCoherent, CutKept
  <2>6. QED
    BY <2>1, <2>2, <2>3, <2>4, <2>5, OnwardKept
<1>9. ASSUME NEW a \in Acts, Resume(a)
      PROVE Kept(wrapper', acts', {1, instance'})
  <2>1. Kept(wrapper, acts, {1, instance}) /\ instance' = instance
    BY <1>9 DEF Resume, KeptInv
  <2>2. acts[a] \in Act /\ acts[a].id = NoId /\ acts[a].list \in {1, instance}
    BY <1>0, <1>9, <2>1 DEF Resume, Coherent, Kept
  <2>3. Onward(a, acts[a], wrapper, acts)
    BY <1>9 DEF Resume
  <2>4. QED
    BY <1>0, <2>1, <2>2, <2>3, OnwardKept
<1>10. ASSUME NEW k \in Ids, Gone(k)
       PROVE Kept(wrapper', acts', {1, instance'})
  <2>1. Kept(wrapper, acts, {1, instance}) /\ instance' = instance
    BY <1>10 DEF Gone, KeptInv
  <2>2. Kept(Stopped({k}), CutActs({k}), {1, instance})
    BY <2>1, CutKept
  <2>3. QED
    BY <1>10, <2>1, <2>2 DEF Gone
<1>11. ASSUME UNCHANGED <<wrapper, acts, instance>>, "late" \notin mishaps
       PROVE Kept(wrapper', acts', {1, instance'})
  BY <1>11 DEF KeptInv
<1>12. ASSUME NEW c \in Calls, NEW s \in Services, Call(c, s)
       PROVE Kept(wrapper', acts', {1, instance'})
  BY <1>11, <1>12 DEF Call
<1>13. ASSUME NEW c \in Calls, Answered(c) \/ Timeout(c)
       PROVE Kept(wrapper', acts', {1, instance'})
  BY <1>11, <1>13 DEF Answered, Timeout, Returns
<1>14. ASSUME NEW p \in Projects, NEW s \in Services, Elsewhere(p, s)
       PROVE Kept(wrapper', acts', {1, instance'})
  BY <1>11, <1>14 DEF Elsewhere
<1>15. CASE UNCHANGED vars
  BY <1>11, <1>15 DEF vars
<1>16. QED
  BY <1>1, <1>2, <1>3, <1>4, <1>5, <1>6, <1>7, <1>8, <1>9, <1>10, <1>12, <1>13,
     <1>14, <1>15 DEF Next, Settle

(* Every running wrapper is waited for by an activation or is in a list    *)
(* that the tools or the next reload empty, unless a reload fell into an   *)
(* activation: however many loads, services and activations there are.     *)
THEOREM StoppableSafety == Spec => []Stoppable
<1>1. Init => KeptInv
  BY DEF Init, KeptInv, Kept, NoAct
<1>2. Spec => [](TypeInv /\ KeptInv)
  BY <1>1, TypeInit, TypeStep, KeptStep, PTL DEF Spec
<1>3. KeptInv => Stoppable
  BY DEF KeptInv, Kept, Stoppable, Up, ListOf
<1>4. QED
  BY <1>2, <1>3, PTL

-------------------------------------------------------------------------------
(* Routes follow the state file.  S is what is approved for project p.     *)

(* One activation at most is under way, and what it starts is approved for *)
(* the project shown.                                                      *)
Alone(W, A, p, S) ==
    /\ \A a, b \in Acts : A[a].at # "idle" /\ A[b].at # "idle" => a = b
    /\ \A a \in Acts : A[a].at # "idle" => A[a].project = p /\ A[a].left \subseteq S
    /\ \A a \in Acts : A[a].at \in {"init", "list"} =>
          W[A[a].id].project = p /\ W[A[a].id].service \in S

(* A route leads to a process that runs, for a service of the project.     *)
Leads(W, route, p, S) ==
    \A s \in Services : route[s] # NoId =>
        /\ W[route[s]].project = p
        /\ W[route[s]].service = s
        /\ s \in S
Alive(W, route) ==
    \A s \in Services : route[s] # NoId => route[s] \in Ids /\ W[route[s]] # NoProcess

Live == Alive(wrapper, serviceRoute) /\ Alive(wrapper, toolRoute)
Undisturbed == mishaps \cap {"overlap", "elsewhere"} = {}
Right ==
    /\ Alone(wrapper, acts, root, approved[root])
    /\ Leads(wrapper, serviceRoute, root, approved[root])
    /\ Leads(wrapper, toolRoute, root, approved[root])
RouteInv == Live /\ (Undisturbed => Right)

(* Going onward only starts processes, of services approved.               *)
LEMMA OnwardSpares ==
  ASSUME NEW W, NEW A, Coherent(W, A), NEW a \in Acts, NEW r, Onward(a, r, W, A)
  PROVE  \A j \in Ids : W[j] # NoProcess => wrapper'[j] = W[j]
<1>1. CASE wrapper' = W
  BY <1>1
<1>2. CASE \E s \in Earliest(r.left), k \in Spare(W) :
             wrapper' = [W EXCEPT ![k] = [project |-> r.project, service |-> s,
                                          list |-> NoList]]
  BY <1>2 DEF Spare, Coherent
<1>3. QED
  BY <1>1, <1>2 DEF Onward

LEMMA OnwardAlone ==
  ASSUME NEW W, NEW A, Coherent(W, A), NEW a \in Acts, NEW r \in Act,
         NEW p, NEW S, r.project = p, r.left \subseteq S,
         \A b \in Acts \ {a} : A[b].at = "idle",
         Onward(a, r, W, A)
  PROVE  Alone(wrapper', acts', p, S)
<1>0. r \in [at : Places, project : Projects \cup {NoProject}, list : Instances,
             left : SUBSET Services, id : Ids \cup {NoId}]
  BY DEF Act
<1>1. CASE wrapper' = W /\ acts' = [A EXCEPT ![a] = NoAct]
  BY <1>1 DEF Coherent, Alone, NoAct
<1>2. CASE \E s \in Earliest(r.left), k \in Spare(W) :
        /\ wrapper' = [W EXCEPT ![k] = [project |-> r.project, service |-> s,
                                        list |-> NoList]]
        /\ acts' = [A EXCEPT ![a] = [r EXCEPT !.at = "init", !.left = @ \ {s}, !.id = k]]
  <2>1. PICK s \in Earliest(r.left) : \E k \in Spare(W) :
        /\ wrapper' = [W EXCEPT ![k] = [project |-> r.project, service |-> s,
                                        list |-> NoList]]
        /\ acts' = [A EXCEPT ![a] = [r EXCEPT !.at = "init", !.left = @ \ {s}, !.id = k]]
    BY <1>2
  <2>2. PICK k \in Spare(W) :
        /\ wrapper' = [W EXCEPT ![k] = [project |-> r.project, service |-> s,
                                        list |-> NoList]]
        /\ acts' = [A EXCEPT ![a] = [r EXCEPT !.at = "init", !.left = @ \ {s}, !.id = k]]
    BY <2>1
  <2> DEFINE new == [project |-> r.project, service |-> s, list |-> NoList]
  <2> DEFINE act == [r EXCEPT !.at = "init", !.left = @ \ {s}, !.id = k]
  <2>3. k \in Ids /\ s \in S
    BY <1>0 DEF Spare, Earliest
  <2>4. new.project = p /\ new.service \in S
    BY <2>3
  <2>5. act.at = "init" /\ act.id = k /\ act.project = p /\ act.left \subseteq S
    BY <1>0
  <2>6. wrapper' = [W EXCEPT ![k] = new] /\ acts' = [A EXCEPT ![a] = act]
    BY <2>2
  <2> HIDE DEF new, act
  <2>7. acts'[a] = act /\ wrapper'[k] = new /\ \A b \in Acts \ {a} : acts'[b].at = "idle"
    BY <2>3, <2>6 DEF Coherent
  <2>8. QED
    BY <2>4, <2>5, <2>7 DEF Alone
<1>3. CASE \E s \in Earliest(r.left) :
        /\ Spare(W) = {} /\ wrapper' = W
        /\ acts' = [A EXCEPT ![a] = [r EXCEPT !.at = "cut", !.left = @ \ {s}, !.id = NoId]]
  <2>1. PICK s \in Earliest(r.left) :
        /\ wrapper' = W
        /\ acts' = [A EXCEPT ![a] = [r EXCEPT !.at = "cut", !.left = @ \ {s}, !.id = NoId]]
    BY <1>3
  <2> DEFINE act == [r EXCEPT !.at = "cut", !.left = @ \ {s}, !.id = NoId]
  <2>2. act.at = "cut" /\ act.project = p /\ act.left \subseteq S
    BY <1>0
  <2>3. acts' = [A EXCEPT ![a] = act]
    BY <2>1
  <2> HIDE DEF act
  <2>4. acts'[a] = act /\ \A b \in Acts \ {a} : acts'[b].at = "idle"
    BY <2>3 DEF Coherent
  <2>5. QED
    BY <2>2, <2>4 DEF Alone
<1>4. QED
  BY <1>1, <1>2, <1>3 DEF Onward

(* Stopping processes leaves the rest right.                               *)
LEMMA CutRight ==
  ASSUME TypeInv, NEW K \in SUBSET Ids, NEW p, NEW S, NEW route,
         route \in {serviceRoute, toolRoute}
  PROVE  /\ Alone(wrapper, acts, p, S) => Alone(Stopped(K), CutActs(K), p, S)
         /\ Alive(wrapper, route) => Alive(Stopped(K), CutRoutes(route, K))
         /\ Alive(wrapper, route) /\ Leads(wrapper, route, p, S) =>
              Leads(Stopped(K), CutRoutes(route, K), p, S)
<1>1. \A a \in Acts :
        \/ CutActs(K)[a] = acts[a] /\ acts[a].id \notin K
        \/ /\ CutActs(K)[a].at = "cut" /\ acts[a].at # "idle"
           /\ CutActs(K)[a].project = acts[a].project
           /\ CutActs(K)[a].left = acts[a].left
  BY IdAssumption DEF TypeInv, Coherent, CutActs, Act, Places
<1>2. \A k \in Ids \ K : Stopped(K)[k] = wrapper[k]
  BY DEF Stopped
<1>3. \A a \in Acts : acts[a].at \in {"init", "list"} => acts[a].id \in Ids
  BY DEF TypeInv, Coherent
<1>4. \A s \in Services : CutRoutes(route, K)[s] # NoId =>
        route[s] \notin K /\ CutRoutes(route, K)[s] = route[s]
  BY DEF CutRoutes
<1>5. Alone(wrapper, acts, p, S) => Alone(Stopped(K), CutActs(K), p, S)
  BY <1>1, <1>2, <1>3 DEF Alone
<1>6. Alive(wrapper, route) => Alive(Stopped(K), CutRoutes(route, K))
  BY <1>2, <1>4 DEF Alive
<1>7. Alive(wrapper, route) /\ Leads(wrapper, route, p, S) =>
        Leads(Stopped(K), CutRoutes(route, K), p, S)
  BY <1>2, <1>4 DEF Alive, Leads
<1>8. QED
  BY <1>5, <1>6, <1>7

(* Running processes that stay as they are keep their routes.              *)
LEMMA SparedRoutes ==
  ASSUME NEW W, NEW V, NEW route, NEW p, NEW S, Alive(W, route),
         \A j \in Ids : W[j] # NoProcess => V[j] = W[j]
  PROVE  Alive(V, route) /\ (Leads(W, route, p, S) => Leads(V, route, p, S))
  BY DEF Alive, Leads

(* An activation clears the routes; if no other is under way it reads what *)
(* is approved for the project that it shows.                              *)
LEMMA ActivateRight ==
  ASSUME TypeInv, NEW a \in Acts, acts[a].at = "idle", NEW i \in Instances,
         NEW p \in Projects, NEW K \in SUBSET Ids,
         approved' \in [Projects -> SUBSET Services],
         Activate(a, i, p, approved'[p], K),
         mishaps' \cap {"overlap", "elsewhere"} = {} => ~ Overlap(a)
  PROVE  RouteInv'
<1> DEFINE r == [at |-> "ack", project |-> p, list |-> i, left |-> approved'[p],
                 id |-> NoId]
<1> DEFINE q == [r EXCEPT !.left = {}]
<1>1. /\ r \in Act /\ q \in Act /\ r.project = p /\ q.project = p
      /\ r.left \subseteq approved'[p] /\ q.left \subseteq approved'[p]
  BY DEF Act, Places
<1>2. Coherent(Stopped(K), CutActs(K))
  BY CutCoherent DEF TypeInv
<1>3. \A s \in Services : serviceRoute'[s] = NoId /\ toolRoute'[s] = NoId
  BY DEF Activate, NoRoutes
<1>4. root' = p
  BY DEF Activate
<1>5. SUFFICES ASSUME ~ Overlap(a)
               PROVE  Alone(wrapper', acts', p, approved'[p])
  BY <1>3, <1>4 DEF RouteInv, Live, Alive, Undisturbed, Right, Leads
<1>6. \A b \in Acts \ {a} : CutActs(K)[b].at = "idle"
  BY <1>5, IdAssumption DEF Overlap, Active, CutActs, TypeInv, Coherent
<1>7. CASE wrapper' = Stopped(K) /\ acts' = [CutActs(K) EXCEPT ![a] = r]
  <2>1. r.at = "ack"
    OBVIOUS
  <2> HIDE DEF r
  <2>2. acts'[a] = r /\ \A b \in Acts \ {a} : acts'[b].at = "idle"
    BY <1>2, <1>6, <1>7 DEF Coherent
  <2>3. QED
    BY <1>1, <2>1, <2>2 DEF Alone
<1>8. CASE Onward(a, r, Stopped(K), CutActs(K))
  <2> HIDE DEF r
  <2>1. QED
    BY <1>1, <1>2, <1>6, <1>8, OnwardAlone
<1>9. CASE Onward(a, q, Stopped(K), CutActs(K))
  <2> HIDE DEF q
  <2>1. QED
    BY <1>1, <1>2, <1>6, <1>9, OnwardAlone
<1>10. QED
  BY <1>7, <1>8, <1>9 DEF Activate

(* What a step onward of the activation under way leaves right.            *)
LEMMA OnwardRight ==
  ASSUME TypeInv, NEW W, NEW A, Coherent(W, A), NEW sr, NEW tr,
         Alive(W, sr), Alive(W, tr), NEW a \in Acts, NEW r \in Act,
         Onward(a, r, W, A), serviceRoute' = sr, toolRoute' = tr,
         UNCHANGED <<root, approved, mishaps>>,
         Undisturbed =>
           /\ r.project = root /\ r.left \subseteq approved[root]
           /\ \A b \in Acts \ {a} : A[b].at = "idle"
           /\ Leads(W, sr, root, approved[root]) /\ Leads(W, tr, root, approved[root])
  PROVE  RouteInv'
<1>1. \A j \in Ids : W[j] # NoProcess => wrapper'[j] = W[j]
  BY OnwardSpares
<1>2. Alive(wrapper', sr) /\ Alive(wrapper', tr)
  BY <1>1, SparedRoutes
<1>3. ASSUME Undisturbed
      PROVE  /\ Alone(wrapper', acts', root, approved[root])
             /\ Leads(wrapper', sr, root, approved[root])
             /\ Leads(wrapper', tr, root, approved[root])
  <2>1. Alone(wrapper', acts', root, approved[root])
    BY <1>3, OnwardAlone
  <2>2. Leads(wrapper', sr, root, approved[root])
    BY <1>1, <1>3, SparedRoutes
  <2>3. Leads(wrapper', tr, root, approved[root])
    BY <1>1, <1>3, SparedRoutes
  <2>4. QED
    BY <2>1, <2>2, <2>3
<1>4. QED
  BY <1>2, <1>3 DEF RouteInv, Live, Undisturbed, Right

(* The activation under way, in a state without overlap.                   *)
LEMMA OneAtATime ==
  ASSUME TypeInv, RouteInv, Undisturbed, NEW a \in Acts, acts[a].at # "idle"
  PROVE  /\ acts[a].project = root /\ acts[a].left \subseteq approved[root]
         /\ \A b \in Acts \ {a} : acts[b].at = "idle"
         /\ Leads(wrapper, serviceRoute, root, approved[root])
         /\ Leads(wrapper, toolRoute, root, approved[root])
  BY DEF RouteInv, Right, Alone

LEMMA RouteStep == TypeInv /\ RouteInv /\ [Next]_vars => RouteInv'
<1> SUFFICES ASSUME TypeInv, RouteInv, [Next]_vars PROVE RouteInv'
  OBVIOUS
<1>0. TypeOK /\ Coherent(wrapper, acts) /\ 1 \in Instances
  BY BoundAssumption DEF TypeInv, Instances
<1>l. Alive(wrapper, serviceRoute) /\ Alive(wrapper, toolRoute)
  BY DEF RouteInv, Live
<1>1. ASSUME NEW a \in Acts, NEW p \in Projects, Start(a, p) PROVE RouteInv'
  <2>1. Activate(a, instance, p, approved'[p], OnList(instance)) /\ acts[a].at = "idle"
    BY <1>1 DEF Start
  <2>2. mishaps' \cap {"overlap", "elsewhere"} = {} => ~ Overlap(a)
    BY <1>1 DEF Start, Noted
  <2>3. approved' \in [Projects -> SUBSET Services]
    BY <1>0, <1>1 DEF Start, TypeOK
  <2>4. QED
    BY <1>0, <2>1, <2>2, <2>3, ActivateRight, OnListType DEF TypeOK
<1>2. ASSUME NEW a \in Acts, NEW p \in Projects, UseTool(a, p) PROVE RouteInv'
  <2>1. Activate(a, 1, p, approved'[p], OnList(1)) /\ acts[a].at = "idle"
    BY <1>2 DEF UseTool
  <2>2. mishaps' \cap {"overlap", "elsewhere"} = {} => ~ Overlap(a)
    BY <1>2 DEF UseTool, Noted
  <2>3. approved' \in [Projects -> SUBSET Services]
    BY <1>0, <1>2 DEF UseTool, TypeOK
  <2>4. QED
    BY <1>0, <2>1, <2>2, <2>3, ActivateRight, OnListType
<1>3. ASSUME NEW a \in Acts, NEW p \in Projects, Reload(a, p) PROVE RouteInv'
  <2>1. Activate(a, instance + 1, p, approved'[p], OnList(instance)) /\ acts[a].at = "idle"
    BY <1>3 DEF Reload, ShutdownClients
  <2>2. mishaps' \cap {"overlap", "elsewhere"} = {} => ~ Overlap(a)
    BY <1>3 DEF Reload, Noted
  <2>3. approved' \in [Projects -> SUBSET Services]
    BY <1>0, <1>3 DEF Reload, TypeOK
  <2>4. instance + 1 \in Instances
    BY <1>0, <1>3, BoundAssumption DEF Reload, TypeOK, Instances
  <2>5. QED
    BY <2>1, <2>2, <2>3, <2>4, ActivateRight, OnListType
<1>4. ASSUME NEW a \in Acts, NEW p \in Projects, NEW s \in Services, Manage(a, p, s)
      PROVE RouteInv'
  <2>1. Activate(a, 1, p, approved'[p], OnList(1)) /\ acts[a].at = "idle"
    BY <1>4 DEF Manage
  <2>2. mishaps' \cap {"overlap", "elsewhere"} = {} => ~ Overlap(a)
    BY <1>4 DEF Manage, Noted
  <2>3. approved' \in [Projects -> SUBSET Services]
    BY <1>0, <1>4 DEF Manage, Toggled, TypeOK
  <2>4. QED
    BY <1>0, <2>1, <2>2, <2>3, ActivateRight, OnListType
<1>5. ASSUME NEW a \in Acts, Acknowledged(a) PROVE RouteInv'
  <2> DEFINE r == [acts[a] EXCEPT !.left = approved[acts[a].project]]
  <2>1. acts[a] \in Act /\ acts[a].at # "idle" /\ acts[a].project \in Projects
    BY <1>0, <1>5 DEF Acknowledged, Coherent
  <2>2. r \in Act /\ r.project = acts[a].project /\ r.left = approved[acts[a].project]
    BY <1>0, <2>1 DEF Act, TypeOK
  <2>3. Onward(a, r, wrapper, acts)
    BY <1>5 DEF Acknowledged
  <2>4. UNCHANGED <<serviceRoute, toolRoute, root, approved, mishaps>>
    BY <1>5 DEF Acknowledged
  <2> HIDE DEF r
  <2>5. Undisturbed =>
           /\ r.project = root /\ r.left \subseteq approved[root]
           /\ \A b \in Acts \ {a} : acts[b].at = "idle"
           /\ Leads(wrapper, serviceRoute, root, approved[root])
           /\ Leads(wrapper, toolRoute, root, approved[root])
    BY <2>1, <2>2, OneAtATime
  <2>6. QED
    BY <1>0, <1>l, <2>2, <2>3, <2>4, <2>5, OnwardRight
<1>6. ASSUME NEW a \in Acts, Initialized(a) PROVE RouteInv'
  <2> DEFINE k == acts[a].id
  <2> DEFINE new == [wrapper[k] EXCEPT !.list = acts[a].list]
  <2> DEFINE act == [acts[a] EXCEPT !.at = "list"]
  <2>1. /\ k \in Ids /\ wrapper[k] \in Process /\ acts[a] \in Act
        /\ acts[a].at = "init"
    BY <1>0, <1>6 DEF Initialized, Coherent
  <2>2. /\ new # NoProcess
        /\ new.project = wrapper[k].project /\ new.service = wrapper[k].service
    <3>1. new \in Process
      BY <2>1 DEF Process, Act
    <3>2. QED
      BY <2>1, <3>1, ProcessAssumption DEF Process
  <2>3. /\ act.at = "list" /\ act.id = k /\ act.project = acts[a].project
        /\ act.left = acts[a].left
    BY <2>1 DEF Act
  <2>4. wrapper' = [wrapper EXCEPT ![k] = new] /\ acts' = [acts EXCEPT ![a] = act]
    BY <1>6 DEF Initialized
  <2>5. serviceRoute' = [serviceRoute EXCEPT ![wrapper[k].service] = k]
    BY <1>6 DEF Initialized
  <2>6. UNCHANGED <<toolRoute, root, approved, mishaps>>
    BY <1>6 DEF Initialized
  <2>7. serviceRoute \in [Services -> Ids \cup {NoId}] /\ wrapper[k].service \in Services
    BY <1>0, <2>1 DEF TypeOK, Process
  <2> HIDE DEF new, act, k
  <2>8. \A j \in Ids : wrapper[j] # NoProcess =>
          /\ wrapper'[j] # NoProcess
          /\ wrapper'[j].project = wrapper[j].project
          /\ wrapper'[j].service = wrapper[j].service
    BY <1>0, <2>1, <2>2, <2>4 DEF Coherent
  <2>9. wrapper'[k] = new /\ acts'[a] = act
    BY <1>0, <2>1, <2>4 DEF Coherent
  <2>10. Alive(wrapper', serviceRoute') /\ Alive(wrapper', toolRoute')
    BY <1>l, <2>1, <2>2, <2>5, <2>6, <2>7, <2>8, <2>9 DEF Alive
  <2>11. ASSUME Undisturbed PROVE Right'
    <3>1. /\ acts[a].project = root /\ acts[a].left \subseteq approved[root]
          /\ \A b \in Acts \ {a} : acts[b].at = "idle"
          /\ Leads(wrapper, serviceRoute, root, approved[root])
          /\ Leads(wrapper, toolRoute, root, approved[root])
      BY <2>1, <2>11, OneAtATime
    <3>2. wrapper[k].project = root /\ wrapper[k].service \in approved[root]
      BY <2>1, <2>11 DEF k, RouteInv, Right, Alone
    <3>3. \A b \in Acts \ {a} : acts'[b].at = "idle"
      BY <1>0, <2>4, <3>1 DEF Coherent
    <3>4. Alone(wrapper', acts', root, approved[root])
      BY <2>2, <2>3, <2>9, <3>1, <3>2, <3>3 DEF Alone
    <3>5. Leads(wrapper', serviceRoute', root, approved[root])
      BY <1>l, <2>1, <2>2, <2>5, <2>7, <2>8, <2>9, <3>1, <3>2 DEF Alive, Leads
    <3>6. Leads(wrapper', toolRoute', root, approved[root])
      BY <1>l, <2>6, <2>8, <3>1 DEF Alive, Leads
    <3>7. QED
      BY <2>6, <3>4, <3>5, <3>6 DEF Right
  <2>12. QED
    BY <2>6, <2>10, <2>11 DEF RouteInv, Live, Undisturbed
<1>7. ASSUME NEW a \in Acts, Listed(a) PROVE RouteInv'
  <2> DEFINE k == acts[a].id
  <2>1. /\ acts[a] \in Act /\ acts[a].at = "list"
        /\ k \in Ids /\ wrapper[k] # NoProcess /\ wrapper[k] \in Process
    BY <1>0, <1>7 DEF Listed, Coherent
  <2>2. Onward(a, acts[a], wrapper, acts)
    BY <1>7 DEF Listed
  <2>3. \/ toolRoute' = [toolRoute EXCEPT ![wrapper[k].service] = k]
        \/ toolRoute' = toolRoute
    BY <1>7 DEF Listed
  <2>4. UNCHANGED <<serviceRoute, root, approved, mishaps>>
    BY <1>7 DEF Listed
  <2>5. toolRoute \in [Services -> Ids \cup {NoId}] /\ wrapper[k].service \in Services
    BY <1>0, <2>1 DEF TypeOK, Process
  <2>6. ASSUME Undisturbed
        PROVE  wrapper[k].project = root /\ wrapper[k].service \in approved[root]
    BY <2>1, <2>6 DEF RouteInv, Right, Alone
  <2> HIDE DEF k
  <2>7. Alive(wrapper, toolRoute')
    BY <1>l, <2>1, <2>3, <2>5 DEF Alive
  <2>8. ASSUME Undisturbed
        PROVE  Leads(wrapper, toolRoute', root, approved[root])
    <3>1. Leads(wrapper, toolRoute, root, approved[root])
      BY <2>1, <2>8, OneAtATime
    <3>2. QED
      BY <2>3, <2>5, <2>6, <2>8, <3>1 DEF Leads
  <2>9. Undisturbed =>
           /\ acts[a].project = root /\ acts[a].left \subseteq approved[root]
           /\ \A b \in Acts \ {a} : acts[b].at = "idle"
           /\ Leads(wrapper, serviceRoute, root, approved[root])
           /\ Leads(wrapper, toolRoute', root, approved[root])
    BY <2>1, <2>8, OneAtATime
  <2>10. QED
    BY <1>0, <1>l, <2>1, <2>2, <2>4, <2>7, <2>9, OnwardRight
<1>8. ASSUME NEW a \in Acts, GiveUp(a) PROVE RouteInv'
  <2> DEFINE K == {acts[a].id}
  <2> DEFINE W == Stopped(K)
  <2> DEFINE A == CutActs(K)
  <2> DEFINE sr == CutRoutes(serviceRoute, K)
  <2> DEFINE tr == CutRoutes(toolRoute, K)
  <2>1. acts[a] \in Act /\ acts[a].at # "idle" /\ K \in SUBSET Ids
    BY <1>0, <1>8 DEF GiveUp, Coherent
  <2>2. Onward(a, acts[a], W, A) /\ serviceRoute' = sr /\ toolRoute' = tr
    BY <1>8 DEF GiveUp
  <2>3. UNCHANGED <<root, approved, mishaps>>
    BY <1>8 DEF GiveUp
  <2>a. \A b \in Acts : acts[b].at = "idle" => A[b].at = "idle"
    BY <1>0, <2>1, IdAssumption DEF CutActs, Coherent
  <2> HIDE DEF K
  <2>4. Coherent(W, A) /\ Alive(W, sr) /\ Alive(W, tr)
    BY <1>0, <1>l, <2>1, CutCoherent, CutRight
  <2>5. ASSUME Undisturbed
        PROVE  /\ acts[a].project = root /\ acts[a].left \subseteq approved[root]
               /\ \A b \in Acts \ {a} : A[b].at = "idle"
               /\ Leads(W, sr, root, approved[root]) /\ Leads(W, tr, root, approved[root])
    <3>1. /\ acts[a].project = root /\ acts[a].left \subseteq approved[root]
          /\ \A b \in Acts \ {a} : acts[b].at = "idle"
          /\ Leads(wrapper, serviceRoute, root, approved[root])
          /\ Leads(wrapper, toolRoute, root, approved[root])
      BY <2>1, <2>5, OneAtATime
    <3>2. Leads(W, sr, root, approved[root]) /\ Leads(W, tr, root, approved[root])
      BY <1>l, <2>1, <3>1, CutRight
    <3>3. QED
      BY <2>a, <3>1, <3>2
  <2> HIDE DEF W, A, sr, tr
  <2>6. QED
    BY <2>1, <2>2, <2>3, <2>4, <2>5, OnwardRight
<1>9. ASSUME NEW a \in Acts, Resume(a) PROVE RouteInv'
  <2>1. acts[a] \in Act /\ acts[a].at # "idle"
    BY <1>0, <1>9 DEF Resume, Coherent
  <2>2. Onward(a, acts[a], wrapper, acts)
    BY <1>9 DEF Resume
  <2>3. UNCHANGED <<serviceRoute, toolRoute, root, approved, mishaps>>
    BY <1>9 DEF Resume
  <2>4. Undisturbed =>
           /\ acts[a].project = root /\ acts[a].left \subseteq approved[root]
           /\ \A b \in Acts \ {a} : acts[b].at = "idle"
           /\ Leads(wrapper, serviceRoute, root, approved[root])
           /\ Leads(wrapper, toolRoute, root, approved[root])
    BY <2>1, OneAtATime
  <2>5. QED
    BY <1>0, <1>l, <2>1, <2>2, <2>3, <2>4, OnwardRight
<1>10. ASSUME NEW k \in Ids, Gone(k) PROVE RouteInv'
  <2>1. /\ wrapper' = Stopped({k}) /\ acts' = CutActs({k})
        /\ serviceRoute' = CutRoutes(serviceRoute, {k})
        /\ toolRoute' = CutRoutes(toolRoute, {k})
        /\ UNCHANGED <<root, approved, mishaps>>
    BY <1>10 DEF Gone
  <2>2. {k} \in SUBSET Ids
    OBVIOUS
  <2>3. Alive(wrapper', serviceRoute') /\ Alive(wrapper', toolRoute')
    BY <1>l, <2>1, <2>2, CutRight
  <2>4. ASSUME Undisturbed PROVE Right'
    <3>1. Right
      BY <2>4 DEF RouteInv
    <3>2. /\ Alone(wrapper', acts', root, approved[root])
          /\ Leads(wrapper', serviceRoute', root, approved[root])
          /\ Leads(wrapper', toolRoute', root, approved[root])
      BY <1>l, <2>1, <2>2, <3>1, CutRight DEF Right
    <3>3. QED
      BY <2>1, <3>2 DEF Right
  <2>5. QED
    BY <2>1, <2>3, <2>4 DEF RouteInv, Live, Undisturbed
<1>11. ASSUME UNCHANGED <<wrapper, acts, serviceRoute, toolRoute, root, approved, mishaps>>
       PROVE RouteInv'
  BY <1>11 DEF RouteInv, Live, Undisturbed, Right
<1>12. ASSUME NEW c \in Calls, NEW s \in Services, Call(c, s) PROVE RouteInv'
  BY <1>11, <1>12 DEF Call
<1>13. ASSUME NEW c \in Calls, Answered(c) \/ Timeout(c) PROVE RouteInv'
  BY <1>11, <1>13 DEF Answered, Timeout, Returns
<1>14. ASSUME NEW p \in Projects, NEW s \in Services, Elsewhere(p, s) PROVE RouteInv'
  BY <1>l, <1>14 DEF Elsewhere, RouteInv, Live, Undisturbed
<1>15. CASE UNCHANGED vars
  BY <1>11, <1>15 DEF vars
<1>16. QED
  BY <1>1, <1>2, <1>3, <1>4, <1>5, <1>6, <1>7, <1>8, <1>9, <1>10, <1>12, <1>13,
     <1>14, <1>15 DEF Next, Settle

(* At rest every route leads to a running wrapper of a service approved    *)
(* for the project shown, for any projects, services and activations,      *)
(* unless activations overlapped or another client changed the file since. *)
THEOREM RouteSafety == Spec => []RoutesFollowState
<1>1. Init => RouteInv
  BY DEF Init, RouteInv, Live, Alive, Undisturbed, Right, Alone, Leads, NoAct, NoRoutes
<1>2. Spec => [](TypeInv /\ RouteInv)
  BY <1>1, TypeInit, TypeStep, RouteStep, PTL DEF Spec
<1>3. RouteInv => RoutesFollowState
  BY DEF RouteInv, Undisturbed, Right, Leads, RoutesFollowState
<1>4. QED
  BY <1>2, <1>3, PTL
===============================================================================
