--------------------------- MODULE OnboardingProofs ---------------------------
(***************************************************************************)
(* Theorems about Onboarding, for any sessions, services, questions,       *)
(* answers, ports, messages and bounds.                                    *)
(***************************************************************************)
EXTENDS Onboarding, TLAPS

-------------------------------------------------------------------------------
(* Types.                                                                  *)

(* A call that records, loads or sends a package has one; a call that      *)
(* builds one has every answer.                                            *)
Ready(s) ==
    /\ pc[s] \in {"store", "load", "send", "sent"} => work[s].package \in Package
    /\ pc[s] = "build" \/ (pc[s] = "gate" /\ work[s].call = "facts")
       => work[s].facts \in Facts
HasPackage == \A s \in Sessions : Ready(s)

TypeInv == TypeOK /\ HasPackage

LEMMA NoWorkType == NoWork \in Work
<1>1. (CHOOSE v \in Services : TRUE) \in Services
  BY NamesAssumption
<1>2. NoAnswers \in Draft
  BY DEF NoAnswers, Draft
<1>3. QED
  BY <1>1, <1>2 DEF NoWork, Work, Call

LEMMA FactsAreAnswers == Facts \subseteq Draft /\ Given \subseteq Facts
  BY GivenAssumption DEF Facts, Draft

LEMMA MergeType ==
  ASSUME NEW old \in Draft, NEW new \in Draft
  PROVE  Merge(old, new) \in Draft
  BY DEF Merge, Draft

(* A session takes up the work w at a label where no package is needed.    *)
LEMMA TakeUp ==
  ASSUME TypeInv, NEW s \in Sessions, NEW w \in Work,
         NEW label \in {"idle", "cut", "fill", "build", "gate"},
         label = "build" \/ (label = "gate" /\ w.call = "facts") => w.facts \in Facts,
         work' = [work EXCEPT ![s] = w], Goto(s, label)
  PROVE  /\ pc' \in [Sessions -> Label] /\ work' \in [Sessions -> Work]
         /\ HasPackage'
  BY DEF TypeInv, TypeOK, HasPackage, Ready, Goto, Label

(* Or it goes on with the work it has.                                     *)
LEMMA GoOn ==
  ASSUME TypeInv, NEW s \in Sessions, NEW label \in Label \ {"gate"}, UNCHANGED work,
         Goto(s, label), label = "build" => work[s].facts \in Facts,
         label \in {"store", "load", "send", "sent"} => work[s].package \in Package
  PROVE  /\ pc' \in [Sessions -> Label] /\ work' \in [Sessions -> Work]
         /\ HasPackage'
  BY DEF TypeInv, TypeOK, HasPackage, Ready, Goto, Label

LEMMA ReturnTypes ==
  ASSUME TypeInv, NEW s \in Sessions, Return(s)
  PROVE  /\ pc' \in [Sessions -> Label] /\ work' \in [Sessions -> Work]
         /\ consented' \in SUBSET Sessions
         /\ HasPackage'
<1>1. consented' \in SUBSET Sessions
  BY DEF Return, TypeInv, TypeOK
<1>2. QED
  BY <1>1, NoWorkType, TakeUp DEF Return

LEMMA SayTypes ==
  ASSUME TypeInv, NEW m \in Message, Say(m), drafts' = drafts, trouble' \in 0 .. MaxTrouble
  PROVE  TypeInv'
<1>1. consented' \in SUBSET Sessions
  BY DEF Say, Hear, TypeInv, TypeOK
<1>2. QED
  BY <1>1 DEF Say, files, TypeInv, TypeOK, HasPackage, Ready

LEMMA TroubleTypes ==
  ASSUME TypeOK, Trouble \/ UNCHANGED spent
  PROVE  drafts' = drafts /\ trouble' \in 0 .. MaxTrouble
  BY BoundAssumption DEF TypeOK, Trouble, spent

LEMMA BeginDraftTypes ==
  ASSUME TypeInv, NEW s \in Sessions, NEW v \in Services, NEW given \in Draft,
         BeginDraft(s, v, given)
  PROVE  TypeInv'
<1> DEFINE w == [NoWork EXCEPT !.service = v, !.read = draft[v], !.facts = given]
<1>1. draft[v] \in Draft
  BY DEF BeginDraft, TypeInv, TypeOK
<1>2. w \in Work
  BY <1>1, NoWorkType DEF Work
<1>3. work' = [work EXCEPT ![s] = w] /\ Goto(s, "cut")
  BY DEF BeginDraft
<1> HIDE DEF w
<1>4. /\ pc' \in [Sessions -> Label] /\ work' \in [Sessions -> Work] /\ HasPackage'
  BY <1>2, <1>3, TakeUp
<1>5. rivals' \in SUBSET Services /\ drafts' \in 0 .. MaxDrafts
  BY BoundAssumption DEF BeginDraft, TypeInv, TypeOK
<1>6. QED
  BY <1>4, <1>5 DEF BeginDraft, At, files, TypeInv, TypeOK

LEMMA CutDraftTypes ==
  ASSUME TypeInv, NEW s \in Sessions, CutDraft(s)
  PROVE  TypeInv'
<1>1. /\ pc' \in [Sessions -> Label] /\ work' \in [Sessions -> Work] /\ HasPackage'
  BY GoOn DEF CutDraft, Label
<1>2. draft' \in [Services -> Draft \cup {Torn}]
  BY DEF CutDraft, TypeInv, TypeOK
<1>3. QED
  BY <1>1, <1>2 DEF CutDraft, At, history, spent, TypeInv, TypeOK

LEMMA FillDraftTypes ==
  ASSUME TypeInv, NEW s \in Sessions, FillDraft(s)
  PROVE  TypeInv'
<1> DEFINE w == work[s]
<1> DEFINE a == IF w.service \in rivals THEN draft'[w.service]
                ELSE [q \in Questions |-> IF w.facts[q] = Missing
                        THEN answered[w.service][q] ELSE w.facts[q]]
<1>1. w.service \in Services /\ w.read \in Draft /\ w.facts \in Draft
  BY DEF TypeInv, TypeOK, Work
<1>2. Merge(w.read, w.facts) \in Draft
  BY <1>1, MergeType
<1>3. /\ draft' = [draft EXCEPT ![w.service] = Merge(w.read, w.facts)]
      /\ answered' = [answered EXCEPT ![w.service] = a]
  BY DEF FillDraft
<1>4. draft'[w.service] \in Draft
  BY <1>1, <1>2, <1>3 DEF TypeInv, TypeOK
<1>5. answered[w.service] \in Draft
  BY <1>1 DEF TypeInv, TypeOK
<1>6. a \in Draft
  BY <1>1, <1>4, <1>5 DEF Draft
<1>7. Return(s) /\ UNCHANGED <<message, host, adrift, whole, torn, screen, shown, rivals, spent>>
  BY DEF FillDraft, At
<1> HIDE DEF a, w
<1>8. /\ pc' \in [Sessions -> Label] /\ work' \in [Sessions -> Work]
      /\ consented' \in SUBSET Sessions /\ HasPackage'
  BY <1>7, ReturnTypes
<1>9. draft' \in [Services -> Draft \cup {Torn}] /\ answered' \in [Services -> Draft]
  BY <1>1, <1>2, <1>3, <1>6 DEF TypeInv, TypeOK
<1>10. QED
  BY <1>7, <1>8, <1>9 DEF spent, TypeInv, TypeOK

LEMMA BeginPreviewTypes ==
  ASSUME TypeInv, NEW s \in Sessions, NEW v \in Services, NEW facts \in Payloads(v),
         BeginPreview(s, v, facts)
  PROVE  TypeInv'
<1> DEFINE w == [NoWork EXCEPT !.call = "preview", !.service = v, !.facts = facts]
<1>1. facts \in Draft /\ facts \in Facts
  BY FactsAreAnswers DEF Payloads
<1>2. w \in Work /\ w.facts \in Facts
  BY <1>1, NoWorkType DEF Work, Call
<1>3. work' = [work EXCEPT ![s] = w] /\ Goto(s, "build")
  BY DEF BeginPreview
<1> HIDE DEF w
<1>4. /\ pc' \in [Sessions -> Label] /\ work' \in [Sessions -> Work] /\ HasPackage'
  BY <1>2, <1>3, TakeUp
<1>5. QED
  BY <1>4 DEF BeginPreview, At, files, history, spent, TypeInv, TypeOK

LEMMA BuildTypes ==
  ASSUME TypeInv, NEW s \in Sessions, Build(s)
  PROVE  TypeInv'
<1>1. PICK n \in Free(work[s].service) :
        LET p == [service |-> work[s].service, facts |-> work[s].facts, port |-> n]
        IN  /\ At(s, "build")
            /\ work' = [work EXCEPT ![s].package = p]
            /\ torn' = torn \cup {p} /\ whole' = whole \ {p}
            /\ Goto(s, "store")
            /\ UNCHANGED <<draft, screen, history, spent>>
  BY DEF Build
<1> DEFINE p == [service |-> work[s].service, facts |-> work[s].facts, port |-> n]
<1>2. n \in Ports
  BY DEF Free
<1>3. pc[s] = "build" /\ work[s].facts \in Facts /\ work[s].service \in Services
  BY <1>1 DEF At, TypeInv, TypeOK, HasPackage, Ready, Work
<1>4. p \in Package
  BY <1>2, <1>3 DEF Package
<1>5. /\ work' = [work EXCEPT ![s].package = p]
      /\ torn' = torn \cup {p} /\ whole' = whole \ {p}
      /\ Goto(s, "store")
      /\ UNCHANGED <<message, host, adrift, draft, screen, history, spent>>
  BY <1>1 DEF At
<1> HIDE DEF p
<1>6. [work[s] EXCEPT !.package = p] \in Work
  BY <1>4 DEF TypeInv, TypeOK, Work
<1>7. work' \in [Sessions -> Work] /\ work'[s].package = p
  BY <1>5, <1>6 DEF TypeInv, TypeOK, Work
<1>8. pc' \in [Sessions -> Label] /\ HasPackage'
  BY <1>4, <1>5, <1>7 DEF TypeInv, TypeOK, HasPackage, Ready, Goto, Label
<1>9. QED
  BY <1>4, <1>5, <1>7, <1>8 DEF history, spent, TypeInv, TypeOK

LEMMA StoreTypes ==
  ASSUME TypeInv, NEW s \in Sessions, Store(s)
  PROVE  TypeInv'
<1>1. work[s].package \in Package /\ pc[s] = "store"
  BY DEF Store, At, TypeInv, HasPackage, Ready
<1>2. /\ torn' \in SUBSET Package /\ whole' \in SUBSET Package
      /\ UNCHANGED <<message, host, adrift, draft, answered, rivals, spent>>
  BY <1>1 DEF Store, At, TypeInv, TypeOK
<1>3. CASE work[s].call = "preview"
  <2>1. /\ screen' = [screen EXCEPT ![s] = work[s].package]
        /\ shown' = shown \cup {work[s].package} /\ Return(s)
    BY <1>3 DEF Store
  <2>2. /\ pc' \in [Sessions -> Label] /\ work' \in [Sessions -> Work]
        /\ consented' \in SUBSET Sessions /\ HasPackage'
    BY <2>1, ReturnTypes
  <2>3. QED
    BY <1>1, <1>2, <2>1, <2>2 DEF spent, TypeInv, TypeOK
<1>4. CASE work[s].call # "preview"
  <2>1. Goto(s, "send") /\ UNCHANGED <<screen, shown, work, consented>>
    BY <1>4 DEF Store
  <2>2. /\ pc' \in [Sessions -> Label] /\ work' \in [Sessions -> Work] /\ HasPackage'
    BY <1>1, <2>1, GoOn DEF Label
  <2>3. QED
    BY <1>2, <2>1, <2>2 DEF spent, TypeInv, TypeOK
<1>5. QED
  BY <1>3, <1>4

LEMMA BeginExecuteTypes ==
  ASSUME TypeInv, NEW s \in Sessions, NEW w \in Work, BeginExecute(s, w),
         w.call = "facts" => w.facts \in Facts
  PROVE  TypeInv'
<1> DEFINE x == [w EXCEPT !.surface = message.surface]
<1>1. message.surface \in {"named", "unnamed"}
  BY DEF TypeInv, TypeOK, Message
<1>2. x \in Work /\ x.call = w.call /\ x.facts = w.facts
  BY <1>1 DEF Work
<1>3. work' = [work EXCEPT ![s] = x] /\ Goto(s, "gate")
  BY DEF BeginExecute
<1> HIDE DEF x
<1>4. /\ pc' \in [Sessions -> Label] /\ work' \in [Sessions -> Work] /\ HasPackage'
  BY <1>2, <1>3, TakeUp
<1>5. consented' \in SUBSET Sessions
  BY DEF BeginExecute, TypeInv, TypeOK
<1>6. QED
  BY <1>4, <1>5 DEF BeginExecute, At, files, spent, TypeInv, TypeOK

LEMMA ExecuteTypes ==
  ASSUME TypeInv, NEW s \in Sessions,
         \/ \E p \in shown : ExecuteId(s, p)
         \/ \E v \in Services : \E facts \in Payloads(v) : ExecuteFacts(s, v, facts)
  PROVE  TypeInv'
<1>1. CASE \E p \in shown : ExecuteId(s, p)
  <2>1. PICK p \in shown : BeginExecute(s, ById(p))
    BY <1>1 DEF ExecuteId
  <2>2. p \in Package /\ p.service \in Services
    BY DEF TypeInv, TypeOK, Package
  <2>3. ById(p) \in Work /\ ById(p).call = "id"
    BY <2>2, NoWorkType DEF ById, Work, Call
  <2>4. QED
    BY <2>1, <2>3, BeginExecuteTypes
<1>2. CASE \E v \in Services : \E facts \in Payloads(v) : ExecuteFacts(s, v, facts)
  <2>1. PICK v \in Services : \E facts \in Payloads(v) : ExecuteFacts(s, v, facts)
    BY <1>2
  <2>2. PICK facts \in Payloads(v) : BeginExecute(s, ByFacts(v, facts))
    BY <2>1 DEF ExecuteFacts
  <2>3. facts \in Facts /\ facts \in Draft
    BY FactsAreAnswers DEF Payloads
  <2>4. ByFacts(v, facts) \in Work /\ ByFacts(v, facts).facts = facts
    BY <2>3, NoWorkType DEF ByFacts, Work, Call
  <2>5. QED
    BY <2>2, <2>3, <2>4, BeginExecuteTypes
<1>3. QED
  BY <1>1, <1>2

LEMMA RefuseTypes ==
  ASSUME TypeInv, NEW s \in Sessions, Refuse(s), UNCHANGED <<message, host, adrift>>
  PROVE  TypeInv'
  BY ReturnTypes DEF Refuse, files, spent, TypeInv, TypeOK

LEMMA PassTypes ==
  ASSUME TypeInv, NEW s \in Sessions, NEW label \in Label \ {"gate"}, Pass(s, label),
         UNCHANGED <<message, host, adrift>>,
         label = "build" => work[s].facts \in Facts,
         label \in {"store", "load", "send", "sent"} => work[s].package \in Package
  PROVE  TypeInv'
  BY GoOn DEF Pass, files, history, spent, TypeInv, TypeOK

LEMMA GateTypes ==
  ASSUME TypeInv, NEW s \in Sessions, Gate(s) \/ Load(s) \/ Send(s)
  PROVE  TypeInv'
<1>0. UNCHANGED <<message, host, adrift>>
  BY DEF Gate, Load, Send, At
<1>1. Ready(s) /\ whole \subseteq Package
  BY DEF TypeInv, TypeOK, HasPackage
<1>2. CASE Refuse(s)
  BY <1>0, <1>2, RefuseTypes
<1>3. CASE Pass(s, "build") /\ pc[s] = "gate" /\ work[s].call = "facts"
  BY <1>0, <1>1, <1>3, PassTypes DEF Ready, Label
<1>4. CASE Pass(s, "load") /\ work[s].package \in whole
  BY <1>0, <1>1, <1>4, PassTypes DEF Label
<1>5. CASE Pass(s, "send") /\ work[s].package \in whole
  BY <1>0, <1>1, <1>5, PassTypes DEF Label
<1>6. CASE Pass(s, "sent") /\ pc[s] = "send"
  BY <1>0, <1>1, <1>6, PassTypes DEF Ready, Label
<1>7. QED
  BY <1>2, <1>3, <1>4, <1>5, <1>6 DEF Gate, Load, Send, At

LEMMA InstallTypes ==
  ASSUME TypeOK, NEW p \in Package, Install(p)
  PROVE  host' \in [Services -> Package \cup {Nothing}]
  BY DEF TypeOK, Install, Package

LEMMA AnswerTypes ==
  ASSUME TypeInv, NEW s \in Sessions,
         Succeed(s) \/ Fail(s) \/ Timeout(s) \/ Crash(s)
  PROVE  TypeInv'
<1>1. Return(s) /\ UNCHANGED <<message, files, shown, answered, rivals>>
  BY DEF Succeed, Fail, Timeout, Crash, At, files
<1>2. Trouble \/ UNCHANGED spent
  BY DEF Succeed, Fail, Timeout, Crash
<1>3. pc[s] = "sent" => work[s].package \in Package
  BY DEF TypeInv, HasPackage, Ready
<1>4. host' \in [Services -> Package \cup {Nothing}]
  BY <1>3, InstallTypes DEF Succeed, Fail, Timeout, Crash, At, TypeInv, TypeOK
<1>5. adrift' \in SUBSET Package
  BY <1>3 DEF Succeed, Fail, Timeout, Crash, At, TypeInv, TypeOK
<1>6. screen' \in [Sessions -> Package \cup {Nothing}]
  BY DEF Succeed, Fail, Timeout, Crash, At, TypeInv, TypeOK
<1>7. drafts' \in 0 .. MaxDrafts /\ trouble' \in 0 .. MaxTrouble
  BY <1>2, TroubleTypes DEF TypeInv, TypeOK
<1>8. QED
  BY <1>1, <1>4, <1>5, <1>6, <1>7, ReturnTypes DEF files, TypeInv, TypeOK

LEMMA OutsideTypes ==
  ASSUME TypeInv, NEW p \in Package, EndAdrift(p) \/ Elsewhere(p)
  PROVE  TypeInv'
<1>1. /\ UNCHANGED <<message, files, pc, work, screen, history>>
      /\ Trouble \/ UNCHANGED spent
  BY DEF EndAdrift, Elsewhere
<1>2. host' \in [Services -> Package \cup {Nothing}]
  BY InstallTypes DEF EndAdrift, Elsewhere, TypeInv, TypeOK
<1>3. adrift' \in SUBSET Package
  BY DEF EndAdrift, Elsewhere, TypeInv, TypeOK
<1>4. drafts' \in 0 .. MaxDrafts /\ trouble' \in 0 .. MaxTrouble
  BY <1>1, TroubleTypes DEF TypeInv, TypeOK
<1>5. QED
  BY <1>1, <1>2, <1>3, <1>4 DEF files, history, TypeInv, TypeOK, HasPackage, Ready

LEMMA UserTypes ==
  ASSUME TypeInv,
         (\E s \in Sessions : Agree(s)) \/ (\E m \in Said : Talk(m))
  PROVE  TypeInv'
<1>1. CASE \E s \in Sessions : Agree(s)
  <2>1. PICK s \in Sessions : Agree(s)
    BY <1>1
  <2>2. Exact(screen[s]) \in Message
    BY <2>1 DEF Agree, Exact, Message, TypeInv, TypeOK
  <2>3. QED
    BY <2>1, <2>2, SayTypes, TroubleTypes DEF Agree, TypeInv
<1>2. CASE \E m \in Said : Talk(m)
  BY <1>2, SaidAssumption, SayTypes, TroubleTypes DEF Talk, TypeInv
<1>3. QED
  BY <1>1, <1>2

LEMMA TypeStep == TypeInv /\ [Next]_vars => TypeInv'
<1> SUFFICES ASSUME TypeInv, [Next]_vars PROVE TypeInv'
  OBVIOUS
<1>1. ASSUME NEW s \in Sessions, NEW v \in Services, NEW given \in Draft,
             BeginDraft(s, v, given)
      PROVE  TypeInv'
  BY <1>1, BeginDraftTypes
<1>2. ASSUME NEW s \in Sessions, CutDraft(s) PROVE TypeInv'
  BY <1>2, CutDraftTypes
<1>3. ASSUME NEW s \in Sessions, FillDraft(s) PROVE TypeInv'
  BY <1>3, FillDraftTypes
<1>4. ASSUME NEW s \in Sessions, NEW v \in Services, NEW facts \in Payloads(v),
             BeginPreview(s, v, facts)
      PROVE  TypeInv'
  BY <1>4, BeginPreviewTypes
<1>5. ASSUME NEW s \in Sessions, Build(s) \/ Store(s) PROVE TypeInv'
  BY <1>5, BuildTypes, StoreTypes
<1>6. ASSUME NEW s \in Sessions,
             \/ \E p \in shown : ExecuteId(s, p)
             \/ \E v \in Services : \E facts \in Payloads(v) : ExecuteFacts(s, v, facts)
      PROVE  TypeInv'
  BY <1>6, ExecuteTypes
<1>7. ASSUME NEW s \in Sessions, Gate(s) \/ Load(s) \/ Send(s) PROVE TypeInv'
  BY <1>7, GateTypes
<1>8. ASSUME NEW s \in Sessions, Succeed(s) \/ Fail(s) \/ Timeout(s) \/ Crash(s)
      PROVE  TypeInv'
  BY <1>8, AnswerTypes
<1>9. CASE \E p \in adrift : EndAdrift(p)
  BY <1>9, OutsideTypes DEF TypeInv, TypeOK
<1>10. CASE \E p \in Package : Elsewhere(p)
  BY <1>10, OutsideTypes
<1>11. CASE (\E s \in Sessions : Agree(s)) \/ (\E m \in Said : Talk(m))
  BY <1>11, UserTypes
<1>12. CASE UNCHANGED vars
  BY <1>12 DEF vars, files, history, spent, TypeInv, TypeOK, HasPackage, Ready
<1> HIDE DEF TypeInv
<1>13. QED
  BY <1>1, <1>2, <1>3, <1>4, <1>5, <1>6, <1>7, <1>8, <1>9, <1>10, <1>11, <1>12
     DEF Next, Continue

LEMMA TypeInit == Init => TypeInv
<1> SUFFICES ASSUME Init PROVE TypeInv
  OBVIOUS
<1>1. NoAnswers \in Draft /\ Silence \in Message
  BY DEF NoAnswers, Draft, Silence, Message
<1>2. draft \in [Services -> Draft] /\ answered = draft
  BY <1>1 DEF Init
<1>3. QED
  BY <1>1, <1>2, NoWorkType, BoundAssumption DEF Init, TypeInv, TypeOK, HasPackage, Ready, Label

(* The variables keep their types, and what is built, recorded or sent is  *)
(* a package with every answer.                                            *)
THEOREM TypeCorrect == Spec => []TypeOK
<1>1. Spec => []TypeInv
  BY TypeInit, TypeStep, PTL DEF Spec
<1>2. TypeInv => TypeOK
  BY DEF TypeInv
<1>3. QED
  BY <1>1, <1>2, PTL

-------------------------------------------------------------------------------
(* Answers.                                                                *)

(* A draft on disk holds the answers accepted.  A call that writes it had  *)
(* read these, and is alone in writing it, unless the draft has rivals.    *)
Held(v) == draft[v] = Torn \/ draft[v] = answered[v]
Alone(s) ==
    /\ work[s].read = answered[work[s].service]
    /\ \A t \in Drafting(work[s].service) : t = s
AnswerInv ==
    /\ \A v \in Services : Held(v)
    /\ \A s \in Sessions : pc[s] \in {"cut", "fill"} /\ work[s].service \notin rivals
                           => Alone(s)

(* A step that leaves the drafts alone, and after which only calls that    *)
(* wrote a draft before, the same, are still writing one.                  *)
LEMMA Aside ==
  ASSUME AnswerInv, UNCHANGED <<draft, answered, rivals>>,
         \A s \in Sessions : pc'[s] \in {"cut", "fill"}
            => pc[s] \in {"cut", "fill"} /\ work'[s] = work[s]
  PROVE  AnswerInv'
  BY DEF AnswerInv, Held, Alone, Drafting

LEMMA BeginDraftAnswers ==
  ASSUME TypeInv, AnswerInv, NEW s \in Sessions, NEW v \in Services, NEW given \in Draft,
         BeginDraft(s, v, given)
  PROVE  AnswerInv'
<1> DEFINE w == [NoWork EXCEPT !.service = v, !.read = draft[v], !.facts = given]
<1>1. w.service = v /\ w.read = draft[v]
  BY NoWorkType DEF Work
<1>2. /\ work' = [work EXCEPT ![s] = w] /\ pc' = [pc EXCEPT ![s] = "cut"]
      /\ pc[s] = "idle" /\ UNCHANGED <<draft, answered>>
      /\ rivals' = IF Drafting(v) = {} THEN rivals \ {v} ELSE rivals \cup {v}
  BY DEF BeginDraft, At, Goto, files
<1>3. draft[v] = answered[v]
  BY DEF BeginDraft, AnswerInv, Held
<1> HIDE DEF w
<1>4. work'[s] = w /\ pc'[s] = "cut"
      /\ \A t \in Sessions \ {s} : work'[t] = work[t] /\ pc'[t] = pc[t]
  BY <1>2 DEF TypeInv, TypeOK
<1>5. ASSUME NEW t \in Sessions, pc'[t] \in {"cut", "fill"}, work'[t].service \notin rivals'
      PROVE  Alone(t)'
  <2>1. CASE t = s
    <3>1. Drafting(v) = {}
      BY <1>1, <1>2, <1>4, <1>5, <2>1
    <3>2. \A r \in Drafting(v)' : r = s
      BY <1>4, <3>1 DEF Drafting
    <3>3. QED
      BY <1>1, <1>2, <1>3, <1>4, <2>1, <3>2 DEF Alone
  <2>2. CASE t # s
    <3>1. pc[t] \in {"cut", "fill"} /\ work'[t] = work[t]
      BY <1>4, <1>5, <2>2
    <3>2. t \in Drafting(work[t].service)
      BY <3>1 DEF Drafting
    <3>3. work[t].service # v
      BY <1>2, <1>5, <3>1, <3>2
    <3>4. work[t].service \notin rivals
      BY <1>2, <1>5, <3>1, <3>3
    <3>5. Alone(t)
      BY <3>1, <3>4 DEF AnswerInv
    <3>6. Drafting(work[t].service)' = Drafting(work[t].service)
      BY <1>1, <1>2, <1>4, <3>1, <3>3 DEF Drafting
    <3>7. QED
      BY <1>2, <3>1, <3>5, <3>6 DEF Alone, Drafting
  <2>3. QED
    BY <2>1, <2>2
<1>6. QED
  BY <1>2, <1>5 DEF AnswerInv, Held

LEMMA CutDraftAnswers ==
  ASSUME TypeInv, AnswerInv, NEW s \in Sessions, CutDraft(s)
  PROVE  AnswerInv'
<1>1. /\ draft' = [draft EXCEPT ![work[s].service] = Torn]
      /\ pc' = [pc EXCEPT ![s] = "fill"] /\ pc[s] = "cut"
      /\ UNCHANGED <<work, answered, rivals>>
  BY DEF CutDraft, At, Goto, history
<1>2. \A v \in Services : Held(v)'
  BY <1>1 DEF AnswerInv, Held, TypeInv, TypeOK
<1>3. \A t \in Sessions : pc'[t] \in {"cut", "fill"} <=> pc[t] \in {"cut", "fill"}
  BY <1>1 DEF TypeInv, TypeOK
<1>4. QED
  BY <1>1, <1>2, <1>3 DEF AnswerInv, Alone, Drafting

LEMMA FillDraftAnswers ==
  ASSUME TypeInv, AnswerInv, NEW s \in Sessions, FillDraft(s)
  PROVE  AnswerInv'
<1> DEFINE v == work[s].service
<1>1. v \in Services /\ work[s].read \in Draft /\ work[s].facts \in Draft
  BY DEF TypeInv, TypeOK, Work
<1>2. /\ draft' = [draft EXCEPT ![v] = Merge(work[s].read, work[s].facts)]
      /\ pc[s] = "fill" /\ pc' = [pc EXCEPT ![s] = "idle"]
      /\ work' = [work EXCEPT ![s] = NoWork] /\ UNCHANGED rivals
  BY DEF FillDraft, At, Return, Goto
<1>3. \A u \in Services \ {v} : draft'[u] = draft[u] /\ answered'[u] = answered[u]
  BY <1>1 DEF FillDraft, TypeInv, TypeOK
<1>4. draft'[v] = Merge(work[s].read, work[s].facts)
  BY <1>1, <1>2 DEF TypeInv, TypeOK
<1>5. answered'[v] = draft'[v]
  <2>1. CASE v \in rivals
    BY <1>1, <2>1 DEF FillDraft, TypeInv, TypeOK
  <2>2. CASE v \notin rivals
    <3>1. work[s].read = answered[v]
      BY <1>2, <2>2 DEF AnswerInv, Alone
    <3>2. answered'[v] = [q \in Questions |-> IF work[s].facts[q] = Missing
                            THEN answered[v][q] ELSE work[s].facts[q]]
      BY <1>1, <2>2 DEF FillDraft, TypeInv, TypeOK
    <3>3. QED
      BY <1>4, <3>1, <3>2 DEF Merge
  <2>3. QED
    BY <2>1, <2>2
<1>6. \A t \in Sessions : pc'[t] \in {"cut", "fill"}
        => t # s /\ pc[t] \in {"cut", "fill"} /\ work'[t] = work[t]
  BY <1>2 DEF TypeInv, TypeOK
<1>7. ASSUME NEW t \in Sessions, pc'[t] \in {"cut", "fill"}, work'[t].service \notin rivals'
      PROVE  Alone(t)'
  <2>1. t # s /\ pc[t] \in {"cut", "fill"} /\ work'[t] = work[t] /\ Alone(t)
    BY <1>2, <1>6, <1>7 DEF AnswerInv
  <2>2. s \in Drafting(v)
    BY <1>2 DEF Drafting
  <2>3. work[t].service # v /\ work[t].service \in Services
    BY <2>1, <2>2 DEF Alone, TypeInv, TypeOK, Work
  <2>4. QED
    BY <1>3, <1>6, <2>1, <2>3 DEF Alone, Drafting
<1>8. QED
  BY <1>3, <1>5, <1>7 DEF AnswerInv, Held

LEMMA AnswerStep == TypeInv /\ AnswerInv /\ [Next]_vars => AnswerInv'
<1> SUFFICES ASSUME TypeInv, AnswerInv, [Next]_vars PROVE AnswerInv'
  OBVIOUS
<1>0. pc \in [Sessions -> Label]
  BY DEF TypeInv, TypeOK
<1>1. ASSUME NEW s \in Sessions, NEW v \in Services, NEW given \in Draft,
             BeginDraft(s, v, given)
      PROVE  AnswerInv'
  BY <1>1, BeginDraftAnswers
<1>2. ASSUME NEW s \in Sessions, CutDraft(s) PROVE AnswerInv'
  BY <1>2, CutDraftAnswers
<1>3. ASSUME NEW s \in Sessions, FillDraft(s) PROVE AnswerInv'
  BY <1>3, FillDraftAnswers
<1>4. ASSUME NEW s \in Sessions, NEW v \in Services, NEW facts \in Payloads(v),
             BeginPreview(s, v, facts) \/ ExecuteFacts(s, v, facts)
      PROVE  AnswerInv'
  <2>1. /\ \E label \in {"build", "gate"} : Goto(s, label)
        /\ \A t \in Sessions \ {s} : work'[t] = work[t]
    BY <1>4 DEF BeginPreview, ExecuteFacts, BeginExecute, TypeInv, TypeOK
  <2>2. UNCHANGED <<draft, answered, rivals>>
    BY <1>4 DEF BeginPreview, ExecuteFacts, BeginExecute, files, history
  <2>3. QED
    BY <2>1, <2>2, Aside DEF Goto, TypeInv, TypeOK
<1>5. ASSUME NEW s \in Sessions, NEW p \in shown, ExecuteId(s, p) PROVE AnswerInv'
  <2>1. Goto(s, "gate") /\ \A t \in Sessions \ {s} : work'[t] = work[t]
    BY <1>5 DEF ExecuteId, BeginExecute, TypeInv, TypeOK
  <2>2. UNCHANGED <<draft, answered, rivals>>
    BY <1>5 DEF ExecuteId, BeginExecute, files
  <2>3. QED
    BY <2>1, <2>2, Aside DEF Goto, TypeInv, TypeOK
<1>6. ASSUME NEW s \in Sessions,
             \/ Build(s) \/ Store(s) \/ Gate(s) \/ Load(s) \/ Send(s)
             \/ Succeed(s) \/ Fail(s) \/ Timeout(s) \/ Crash(s)
      PROVE  AnswerInv'
  <2>1. UNCHANGED <<draft, answered, rivals>>
    BY <1>6 DEF Build, Store, Gate, Load, Send, Refuse, Pass, Succeed, Fail, Timeout, Crash,
                files, history
  <2>2. \E label \in {"idle", "build", "store", "load", "send", "sent"} : Goto(s, label)
    BY <1>6 DEF Build, Store, Gate, Load, Send, Refuse, Pass, Succeed, Fail, Timeout, Crash,
                Return
  <2>3. \A t \in Sessions \ {s} : work'[t] = work[t]
    BY <1>6 DEF Build, Store, Gate, Load, Send, Refuse, Pass, Succeed, Fail, Timeout, Crash,
                Return, TypeInv, TypeOK
  <2>4. QED
    BY <1>0, <2>1, <2>2, <2>3, Aside DEF Goto
<1>7. CASE \/ \E p \in adrift : EndAdrift(p)
           \/ \E p \in Package : Elsewhere(p)
           \/ \E s \in Sessions : Agree(s)
           \/ \E m \in Said : Talk(m)
           \/ UNCHANGED vars
  <2>1. UNCHANGED <<draft, answered, rivals, pc, work>>
    BY <1>7 DEF EndAdrift, Elsewhere, Agree, Talk, Say, vars, files, history
  <2>2. QED
    BY <2>1, Aside
<1> HIDE DEF TypeInv, AnswerInv
<1>8. QED
  BY <1>1, <1>2, <1>3, <1>4, <1>5, <1>6, <1>7 DEF Next, Continue

(* A draft on disk holds the latest answer to every question that a call   *)
(* reported as accepted, unless two calls wrote it at once or it is cut    *)
(* short.                                                                  *)
THEOREM AnswersSafety == Spec => []AnswersKept
<1>1. Init => AnswerInv
  BY DEF Init, AnswerInv, Held
<1>2. AnswerInv => AnswersKept
  BY DEF AnswerInv, Held, AnswersKept
<1>3. QED
  BY <1>1, <1>2, TypeInit, TypeStep, AnswerStep, PTL DEF Spec

-------------------------------------------------------------------------------
(* Consent.                                                                *)

(* A session that finds a consent at the gate is among those in whose call *)
(* one stood, and so is every session beyond the gate; the package an      *)
(* execution by id carries was shown.                                      *)
Sound(s) ==
    /\ pc[s] = "gate" /\ Approves(message, work[s]) => s \in consented
    /\ pc[s] \in {"load", "send"} => s \in consented
    /\ pc[s] \in {"build", "store"} => work[s].call \in {"preview", "facts"}
    /\ pc[s] \in {"build", "store"} /\ work[s].call = "facts" => s \in consented
    /\ pc[s] \in {"gate", "load", "send"} /\ work[s].call = "id"
       => work[s].package \in shown
ConsentInv == \A s \in Sessions : Sound(s)

(* A step of one session leaves the others sound.                          *)
LEMMA OnlyOne ==
  ASSUME ConsentInv, NEW s \in Sessions, UNCHANGED message, shown \subseteq shown',
         \A t \in Sessions \ {s} : pc'[t] = pc[t] /\ work'[t] = work[t],
         consented \ {s} \subseteq consented', Sound(s)'
  PROVE  ConsentInv'
<1> SUFFICES ASSUME NEW t \in Sessions \ {s} PROVE Sound(t)'
  BY DEF ConsentInv
<1>1. Sound(t) /\ pc'[t] = pc[t] /\ work'[t] = work[t] /\ (t \in consented => t \in consented')
  BY DEF ConsentInv
<1>2. Approves(message, work[t])' <=> Approves(message, work[t])
  BY <1>1 DEF Approves
<1>3. QED
  BY <1>1, <1>2 DEF Sound

LEMMA ReturnConsent ==
  ASSUME TypeInv, ConsentInv, NEW s \in Sessions, UNCHANGED message, shown \subseteq shown',
         Return(s)
  PROVE  ConsentInv'
<1>1. pc'[s] = "idle" /\ consented \ {s} \subseteq consented'
      /\ \A t \in Sessions \ {s} : pc'[t] = pc[t] /\ work'[t] = work[t]
  BY DEF Return, Goto, TypeInv, TypeOK
<1>2. Sound(s)'
  BY <1>1 DEF Sound
<1>3. QED
  BY <1>1, <1>2, OnlyOne

(* The user says something.                                                *)
LEMMA SayConsent ==
  ASSUME ConsentInv, NEW m, Say(m)
  PROVE  ConsentInv'
<1> SUFFICES ASSUME NEW s \in Sessions PROVE Sound(s)'
  BY DEF ConsentInv
<1>1. /\ message' = m /\ UNCHANGED <<pc, work, shown>>
      /\ consented' = consented \cup Hear(m)
  BY DEF Say
<1>2. pc[s] = "gate" /\ Approves(m, work[s]) => s \in consented'
  BY <1>1 DEF Hear
<1>3. Approves(message, work[s])' <=> Approves(m, work[s])
  BY <1>1 DEF Approves
<1>4. QED
  BY <1>1, <1>2, <1>3 DEF ConsentInv, Sound

LEMMA BeginExecuteConsent ==
  ASSUME TypeInv, ConsentInv, NEW s \in Sessions, NEW w \in Work, BeginExecute(s, w),
         w.call = "id" => w.package \in shown
  PROVE  ConsentInv'
<1> DEFINE x == [w EXCEPT !.surface = message.surface]
<1>1. x.call = w.call /\ x.package = w.package /\ x.service = w.service
  BY DEF Work
<1>2. /\ work' = [work EXCEPT ![s] = x] /\ pc' = [pc EXCEPT ![s] = "gate"]
      /\ UNCHANGED <<message, shown>>
      /\ consented' = IF Approves(message, w) THEN consented \cup {s} ELSE consented
  BY DEF BeginExecute, At, Goto
<1> HIDE DEF x
<1>3. /\ pc'[s] = "gate" /\ work'[s] = x
      /\ \A t \in Sessions \ {s} : pc'[t] = pc[t] /\ work'[t] = work[t]
  BY <1>2 DEF TypeInv, TypeOK
<1>4. Approves(message, work[s])' <=> Approves(message, w)
  BY <1>1, <1>2, <1>3 DEF Approves
<1>5. Sound(s)'
  BY <1>1, <1>2, <1>3, <1>4 DEF Sound
<1>6. QED
  BY <1>2, <1>3, <1>5, OnlyOne

LEMMA ExecuteConsent ==
  ASSUME TypeInv, ConsentInv, NEW s \in Sessions,
         \/ \E p \in shown : ExecuteId(s, p)
         \/ \E v \in Services : \E facts \in Payloads(v) : ExecuteFacts(s, v, facts)
  PROVE  ConsentInv'
<1>1. CASE \E p \in shown : ExecuteId(s, p)
  <2>1. PICK p \in shown : BeginExecute(s, ById(p))
    BY <1>1 DEF ExecuteId
  <2>2. p \in Package /\ p.service \in Services
    BY DEF TypeInv, TypeOK, Package
  <2>3. ById(p) \in Work /\ ById(p).package = p
    BY <2>2, NoWorkType DEF ById, Work, Call
  <2>4. QED
    BY <2>1, <2>3, BeginExecuteConsent
<1>2. CASE \E v \in Services : \E facts \in Payloads(v) : ExecuteFacts(s, v, facts)
  <2>1. PICK v \in Services : \E facts \in Payloads(v) : ExecuteFacts(s, v, facts)
    BY <1>2
  <2>2. PICK facts \in Payloads(v) : BeginExecute(s, ByFacts(v, facts))
    BY <2>1 DEF ExecuteFacts
  <2>3. facts \in Draft
    BY FactsAreAnswers DEF Payloads
  <2>4. ByFacts(v, facts) \in Work /\ ByFacts(v, facts).call = "facts"
    BY <2>3, NoWorkType DEF ByFacts, Work, Call
  <2>5. QED
    BY <2>2, <2>4, BeginExecuteConsent
<1>3. QED
  BY <1>1, <1>2

(* Starting to draft or to preview, and going on after it.                 *)
LEMMA PrepareConsent ==
  ASSUME TypeInv, ConsentInv, NEW s \in Sessions,
         \/ \E v \in Services : \E given \in Draft : BeginDraft(s, v, given)
         \/ \E v \in Services : \E facts \in Payloads(v) : BeginPreview(s, v, facts)
         \/ CutDraft(s) \/ FillDraft(s) \/ Build(s) \/ Store(s)
  PROVE  ConsentInv'
<1>1. CASE \E v \in Services : \E given \in Draft : BeginDraft(s, v, given)
  <2>1. /\ pc'[s] = "cut" /\ UNCHANGED <<message, shown, consented>>
        /\ \A t \in Sessions \ {s} : pc'[t] = pc[t] /\ work'[t] = work[t]
    BY <1>1 DEF BeginDraft, At, Goto, TypeInv, TypeOK
  <2>2. QED
    BY <2>1, OnlyOne DEF Sound
<1>2. CASE \E v \in Services : \E facts \in Payloads(v) : BeginPreview(s, v, facts)
  <2>1. PICK v \in Services : \E facts \in Payloads(v) : BeginPreview(s, v, facts)
    BY <1>2
  <2>2. PICK facts \in Payloads(v) : BeginPreview(s, v, facts)
    BY <2>1
  <2> DEFINE w == [NoWork EXCEPT !.call = "preview", !.service = v, !.facts = facts]
  <2>3. w.call = "preview"
    BY NoWorkType DEF Work
  <2>4. /\ pc' = [pc EXCEPT ![s] = "build"] /\ work' = [work EXCEPT ![s] = w]
        /\ UNCHANGED <<message, shown, consented>>
    BY <2>2 DEF BeginPreview, At, Goto, history
  <2> HIDE DEF w
  <2>5. /\ pc'[s] = "build" /\ work'[s] = w
        /\ \A t \in Sessions \ {s} : pc'[t] = pc[t] /\ work'[t] = work[t]
    BY <2>4 DEF TypeInv, TypeOK
  <2>6. QED
    BY <2>3, <2>4, <2>5, OnlyOne DEF Sound
<1>3. CASE CutDraft(s)
  <2>1. /\ pc'[s] = "fill" /\ UNCHANGED <<message, shown, consented, work>>
        /\ \A t \in Sessions \ {s} : pc'[t] = pc[t]
    BY <1>3 DEF CutDraft, At, Goto, history, TypeInv, TypeOK
  <2>2. QED
    BY <2>1, OnlyOne DEF Sound
<1>4. CASE FillDraft(s)
  BY <1>4, ReturnConsent DEF FillDraft, At
<1>5. CASE Build(s)
  <2>1. /\ pc[s] = "build" /\ pc'[s] = "store" /\ UNCHANGED <<message, shown, consented>>
        /\ work'[s].call = work[s].call
        /\ \A t \in Sessions \ {s} : pc'[t] = pc[t] /\ work'[t] = work[t]
    BY <1>5 DEF Build, At, Goto, history, TypeInv, TypeOK, Work
  <2>2. QED
    BY <2>1, OnlyOne DEF ConsentInv, Sound
<1>6. CASE Store(s) /\ work[s].call = "preview"
  BY <1>6, ReturnConsent DEF Store, At
<1>7. CASE Store(s) /\ work[s].call # "preview"
  <2>1. /\ pc[s] = "store" /\ pc'[s] = "send"
        /\ UNCHANGED <<message, shown, consented, work>>
        /\ \A t \in Sessions \ {s} : pc'[t] = pc[t]
    BY <1>7 DEF Store, At, Goto, TypeInv, TypeOK
  <2>2. QED
    BY <1>7, <2>1, OnlyOne DEF ConsentInv, Sound
<1>8. QED
  BY <1>1, <1>2, <1>3, <1>4, <1>5, <1>6, <1>7

LEMMA GateConsent ==
  ASSUME TypeInv, ConsentInv, NEW s \in Sessions, Gate(s) \/ Load(s) \/ Send(s)
  PROVE  ConsentInv'
<1>1. UNCHANGED message
  BY DEF Gate, Load, Send, At
<1>2. CASE Refuse(s)
  BY <1>1, <1>2, ReturnConsent DEF Refuse
<1>3. ASSUME NEW label \in Label, Pass(s, label)
      PROVE  /\ pc'[s] = label /\ UNCHANGED <<message, shown, consented, work>>
             /\ \A t \in Sessions \ {s} : pc'[t] = pc[t]
  BY <1>1, <1>3 DEF Pass, Goto, history, TypeInv, TypeOK
<1>4. CASE Gate(s) /\ Pass(s, "build") /\ work[s].call = "facts" /\ Approves(message, work[s])
  <2>1. s \in consented
    BY <1>4 DEF Gate, At, ConsentInv, Sound
  <2>2. /\ pc'[s] = "build" /\ UNCHANGED <<message, shown, consented, work>>
        /\ \A t \in Sessions \ {s} : pc'[t] = pc[t]
    BY <1>3, <1>4 DEF Label
  <2>3. QED
    BY <1>4, <2>1, <2>2, OnlyOne DEF Sound
<1>5. CASE Gate(s) /\ Pass(s, "load") /\ Approves(message, work[s])
  <2>1. s \in consented /\ (work[s].call = "id" => work[s].package \in shown)
    BY <1>5 DEF Gate, At, ConsentInv, Sound
  <2>2. /\ pc'[s] = "load" /\ UNCHANGED <<message, shown, consented, work>>
        /\ \A t \in Sessions \ {s} : pc'[t] = pc[t]
    BY <1>3, <1>5 DEF Label
  <2>3. QED
    BY <2>1, <2>2, OnlyOne DEF Sound
<1>6. CASE Load(s) /\ Pass(s, "send")
  <2>1. s \in consented /\ (work[s].call = "id" => work[s].package \in shown)
    BY <1>6 DEF Load, At, ConsentInv, Sound
  <2>2. /\ pc'[s] = "send" /\ UNCHANGED <<message, shown, consented, work>>
        /\ \A t \in Sessions \ {s} : pc'[t] = pc[t]
    BY <1>3, <1>6 DEF Label
  <2>3. QED
    BY <2>1, <2>2, OnlyOne DEF Sound
<1>7. CASE Send(s) /\ Pass(s, "sent")
  <2>1. /\ pc'[s] = "sent" /\ UNCHANGED <<message, shown, consented, work>>
        /\ \A t \in Sessions \ {s} : pc'[t] = pc[t]
    BY <1>3, <1>7 DEF Label
  <2>2. QED
    BY <2>1, OnlyOne DEF Sound
<1>8. QED
  BY <1>2, <1>4, <1>5, <1>6, <1>7 DEF Gate, Load, Send

LEMMA ConsentStep == TypeInv /\ ConsentInv /\ [Next]_vars => ConsentInv'
<1> SUFFICES ASSUME TypeInv, ConsentInv, [Next]_vars PROVE ConsentInv'
  OBVIOUS
<1>1. ASSUME NEW s \in Sessions,
             \/ \E v \in Services : \E given \in Draft : BeginDraft(s, v, given)
             \/ \E v \in Services : \E facts \in Payloads(v) : BeginPreview(s, v, facts)
             \/ CutDraft(s) \/ FillDraft(s) \/ Build(s) \/ Store(s)
      PROVE  ConsentInv'
  BY <1>1, PrepareConsent
<1>2. ASSUME NEW s \in Sessions,
             \/ \E p \in shown : ExecuteId(s, p)
             \/ \E v \in Services : \E facts \in Payloads(v) : ExecuteFacts(s, v, facts)
      PROVE  ConsentInv'
  BY <1>2, ExecuteConsent
<1>3. ASSUME NEW s \in Sessions, Gate(s) \/ Load(s) \/ Send(s) PROVE ConsentInv'
  BY <1>3, GateConsent
<1>4. ASSUME NEW s \in Sessions, Succeed(s) \/ Fail(s) \/ Timeout(s) \/ Crash(s)
      PROVE  ConsentInv'
  BY <1>4, ReturnConsent DEF Succeed, Fail, Timeout, Crash, At
<1>5. CASE (\E s \in Sessions : Agree(s)) \/ (\E m \in Said : Talk(m))
  BY <1>5, SayConsent DEF Agree, Talk
<1>6. CASE \/ \E p \in adrift : EndAdrift(p)
           \/ \E p \in Package : Elsewhere(p)
           \/ UNCHANGED vars
  <2>1. UNCHANGED <<message, pc, work, shown, consented>>
    BY <1>6 DEF EndAdrift, Elsewhere, vars, history
  <2>2. ASSUME NEW s \in Sessions PROVE Approves(message, work[s])' <=> Approves(message, work[s])
    BY <2>1 DEF Approves
  <2>3. QED
    BY <2>1, <2>2 DEF ConsentInv, Sound
<1> HIDE DEF TypeInv, ConsentInv
<1>7. QED
  BY <1>1, <1>2, <1>3, <1>4, <1>5, <1>6 DEF Next, Continue

(* What is sent to the executor for an id was shown under it, and a        *)
(* consent stood while the call was under way, whatever else is said and   *)
(* done in between.                                                        *)
THEOREM ConsentSafety == Spec => SentAsApproved
<1>1. Init => ConsentInv
  BY DEF Init, ConsentInv, Sound
<1>2. ConsentInv => [\A s \in Sessions :
         pc[s] = "send" /\ pc'[s] = "sent"
         => /\ s \in consented
            /\ work[s].call = "id" => work[s].package \in shown]_vars
  BY DEF ConsentInv, Sound
<1>3. QED
  BY <1>1, <1>2, TypeInit, TypeStep, ConsentStep, PTL DEF Spec, SentAsApproved
===============================================================================
