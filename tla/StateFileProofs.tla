--------------------------- MODULE StateFileProofs ----------------------------
(***************************************************************************)
(* Proofs about the project's state file: how it is written (StateStore)   *)
(* and what it says (ProjectDocument).                                     *)
(*                                                                         *)
(* The first part is for any number of processes, any mix of callers and   *)
(* any number of crashes.  The second is for any clients, services, server *)
(* ids and jobs, and job sequences of any length.                          *)
(***************************************************************************)
EXTENDS StateStore, ProjectDocument, WellFoundedInduction, FiniteSetTheorems, TLAPS

-------------------------------------------------------------------------------
(* PART ONE.  How the file is written.                                     *)

(* Types are preserved by every step.                                      *)
THEOREM TypeCorrect == Spec => []TypeOK
<1>1. Init => TypeOK
  <2> SUFFICES ASSUME Init PROVE TypeOK
    OBVIOUS
  <2>1. NoFile \in [rev : Nat, doc : SUBSET Update, form : Form]
    <3>1. 0 \in Nat /\ {} \in SUBSET Update /\ "valid" \in Form
      BY DEF Form
    <3>2. QED
      BY <3>1, Zenon DEF NoFile
  <2>2. stateFile \in [rev : Nat, doc : SUBSET Update, form : Form]
    BY <2>1 DEF Init, NoFile
  <2>3. base \in [Procs -> [rev : Nat, doc : SUBSET Update, form : Form]]
    BY <2>1 DEF Init
  <2>4. QED
    BY <2>2, <2>3 DEF Init, TypeOK, Label
<1>2. TypeOK /\ [Next]_vars => TypeOK'
  <2> SUFFICES ASSUME TypeOK, [Next]_vars PROVE TypeOK'
    OBVIOUS
  <2> USE DEF TypeOK, Goto, Label, Critical, Form
  <2>1. ASSUME NEW p \in Procs, Begin(p) PROVE TypeOK'
    <3>1. ASSUME NEW left \in {stateFile.doc, {}}
          PROVE  [rev |-> 0, doc |-> left, form |-> "damaged"]
                   \in [rev : Nat, doc : SUBSET Update, form : Form]
      OBVIOUS
    <3>2. base' \in [Procs -> [rev : Nat, doc : SUBSET Update, form : Form]]
      BY <2>1, <3>1 DEF Begin
    <3>3. /\ pc' \in [Procs -> Label]
          /\ UNCHANGED <<lockBy, lockAge, stateFile, cur, commits, crashes,
                         mishaps>>
      BY <2>1, Zenon DEF Begin
    <3>4. QED
      BY <3>2, <3>3
  <2>2. ASSUME NEW p \in Procs, OpenLock(p) PROVE TypeOK'
    BY <2>2 DEF OpenLock
  <2>3. ASSUME NEW p \in Procs, StatLock(p) PROVE TypeOK'
    BY <2>3 DEF StatLock
  <2>4. ASSUME NEW p \in Procs, BreakLock(p) PROVE TypeOK'
    BY <2>4 DEF BreakLock
  <2>5. ASSUME NEW p \in Procs, ReadCurrent(p) PROVE TypeOK'
    BY <2>5 DEF ReadCurrent, CurrentRevision
  <2>6. ASSUME NEW p \in Procs, Replace(p) PROVE TypeOK'
    BY <2>6 DEF Replace, NextDocument, Update
  <2>7. ASSUME NEW p \in Procs, WriteFails(p) PROVE TypeOK'
    BY <2>7 DEF WriteFails
  <2>8. ASSUME NEW p \in Procs, ReleaseLock(p) PROVE TypeOK'
    BY <2>8 DEF ReleaseLock
  <2>9. ASSUME NEW p \in Procs, Crash(p) PROVE TypeOK'
    BY <2>9 DEF Crash
  <2>10. ASSUME LockAges PROVE TypeOK'
    BY <2>10 DEF LockAges
  <2>11. ASSUME Rewind PROVE TypeOK'
    BY <2>11 DEF Rewind, NoFile
  <2>12. CASE UNCHANGED vars
    BY <2>12 DEF vars
  <2>13. QED
    BY <2>1, <2>2, <2>3, <2>4, <2>5, <2>6, <2>7, <2>8, <2>9, <2>10, <2>11,
       <2>12 DEF Next, Step
<1>3. QED
  BY <1>1, <1>2, PTL DEF Spec

-------------------------------------------------------------------------------
(* The lock.                                                               *)

LockKept == mishaps \cap {"overlap", "overstay"} = {}

(* While nothing has stolen the lock, the lock file belongs to whoever is  *)
(* inside, and a process about to unlink a stale lock is alone in that and *)
(* still finds the lock of a dead process there.  The second part is what  *)
(* makes SerializedUnlessLockStolen inductive: without it a recovery could *)
(* unlink the lock of a live holder.                                       *)
LockInv ==
    LockKept =>
        /\ \A p \in Procs : pc[p] \in Critical => lockBy = p
        /\ \A p \in Procs : pc[p] = "break" =>
              /\ lockBy \in Procs
              /\ lockAge = "stale"
              /\ pc[lockBy] \notin Critical
        /\ \A p, q \in Procs : pc[p] = "break" /\ pc[q] = "break" => p = q
        /\ lockBy \in Procs /\ lockAge = "stale" => pc[lockBy] \notin Critical

LEMMA LockStep == TypeOK /\ LockInv /\ [Next]_vars => LockInv'
<1> SUFFICES ASSUME TypeOK, LockInv, [Next]_vars PROVE LockInv'
  OBVIOUS
<1> USE ProcsAssumption DEF TypeOK, LockInv, LockKept, Goto, Label, Critical
<1>1. ASSUME NEW p \in Procs, Begin(p) PROVE LockInv'
  <2>1. /\ pc[p] = "idle" /\ pc' = [pc EXCEPT ![p] = "open"]
        /\ UNCHANGED <<lockBy, lockAge, mishaps>>
    BY <1>1, Zenon DEF Begin
  <2>2. QED
    BY <2>1
<1>2. ASSUME NEW p \in Procs, OpenLock(p) PROVE LockInv'
  BY <1>2 DEF OpenLock
<1>3. ASSUME NEW p \in Procs, StatLock(p) PROVE LockInv'
  <2>1. CASE pc' = [pc EXCEPT ![p] = "break"]
    <3>1. /\ pc[p] = "stat" /\ lockBy \in Procs /\ lockAge = "stale"
          /\ UNCHANGED <<lockBy, lockAge>>
          /\ mishaps \subseteq mishaps'
          /\ (\E q \in Procs : pc[q] = "break") => "overlap" \in mishaps'
      BY <1>3, <2>1 DEF StatLock
    <3>2. QED
      BY <2>1, <3>1
  <2>2. CASE \E label \in {"open", "idle"} : pc' = [pc EXCEPT ![p] = label]
    BY <1>3, <2>2 DEF StatLock
  <2>3. QED
    BY <1>3, <2>1, <2>2 DEF StatLock
<1>4. ASSUME NEW p \in Procs, BreakLock(p) PROVE LockInv'
  BY <1>4 DEF BreakLock
<1>5. ASSUME NEW p \in Procs, ReadCurrent(p) PROVE LockInv'
  BY <1>5 DEF ReadCurrent
<1>6. ASSUME NEW p \in Procs, Replace(p) PROVE LockInv'
  BY <1>6 DEF Replace
<1>7. ASSUME NEW p \in Procs, WriteFails(p) PROVE LockInv'
  BY <1>7 DEF WriteFails
<1>8. ASSUME NEW p \in Procs, ReleaseLock(p) PROVE LockInv'
  BY <1>8 DEF ReleaseLock
<1>9. ASSUME NEW p \in Procs, Crash(p) PROVE LockInv'
  BY <1>9 DEF Crash
<1>10. ASSUME LockAges PROVE LockInv'
  BY <1>10 DEF LockAges, Orphan, Holders
<1>11. ASSUME Rewind PROVE LockInv'
  BY <1>11 DEF Rewind
<1>12. CASE UNCHANGED vars
  BY <1>12 DEF vars
<1>13. QED
  BY <1>1, <1>2, <1>3, <1>4, <1>5, <1>6, <1>7, <1>8, <1>9, <1>10, <1>11,
     <1>12 DEF Next, Step

(* state_lock serializes, for any number of processes and crashes, until a *)
(* holder outlives the stale age or two recoveries of one lock overlap.    *)
THEOREM Serialization == Spec => []SerializedUnlessLockStolen
<1>1. Init => LockInv
  BY ProcsAssumption DEF Init, LockInv, Critical
<1>2. LockInv => SerializedUnlessLockStolen
  BY DEF LockInv, LockKept, SerializedUnlessLockStolen, MutualExclusion,
         Holders
<1>3. QED
  BY <1>1, <1>2, TypeCorrect, LockStep, PTL DEF Spec

-------------------------------------------------------------------------------
(* The register.                                                           *)

(* Until a mishap, no caller has read a document newer than the file, one  *)
(* that read the file's revision read its document, and what the process   *)
(* about to replace the file compared and counted under the lock is still  *)
(* so.                                                                     *)
DataInv ==
    mishaps = {} =>
        /\ stateFile.form = "valid"
        /\ \A p \in Procs :
              /\ base[p].form = "valid"
              /\ base[p].rev <= stateFile.rev
              /\ base[p].rev = stateFile.rev => base[p].doc = stateFile.doc
        /\ \A p \in Procs : pc[p] = "replace" =>
              /\ cur[p] = stateFile.rev
              /\ p \in CasCallers =>
                    stateFile.rev # 0 /\ base[p].rev = stateFile.rev

LEMMA MishapsOnlyGrow == [Next]_vars => mishaps \subseteq mishaps'
BY DEF Next, Step, vars, Begin, OpenLock, StatLock, BreakLock, ReadCurrent,
       Replace, WriteFails, ReleaseLock, Crash, LockAges, Rewind

(* What Begin and Replace do while there has been no mishap.               *)
LEMMA BeginReads ==
  ASSUME DataInv, mishaps = {}, NEW p \in Procs, Begin(p)
  PROVE  /\ base' = [base EXCEPT ![p] = stateFile]
         /\ pc' = [pc EXCEPT ![p] = "open"]
         /\ UNCHANGED <<stateFile, cur, commits>>
BY DEF Begin, DataInv, Goto

LEMMA ReplaceCommits ==
  ASSUME TypeOK, LockInv, DataInv, mishaps = {}, NEW p \in Procs, Replace(p)
  PROVE  /\ stateFile' = [rev |-> stateFile.rev + 1,
                          doc |-> base[p].doc \cup {<<p, commits[p] + 1>>},
                          form |-> "valid"]
         /\ p \in CasCallers =>
               /\ stateFile.rev # 0 /\ base[p].rev = stateFile.rev
               /\ base[p].doc = stateFile.doc
         /\ \A q \in Procs : pc'[q] # "replace"
         /\ UNCHANGED base
<1>1. pc[p] = "replace" /\ stateFile' = NextDocument(p) /\ UNCHANGED base
      /\ pc' = [pc EXCEPT ![p] = "release"]
  BY DEF Replace, Goto
<1>2. cur[p] = stateFile.rev
  BY <1>1 DEF DataInv
<1>3. \A q \in Procs : pc[q] = "replace" => q = p
  BY <1>1 DEF LockInv, LockKept, Critical
<1>4. \A q \in Procs : pc'[q] # "replace"
  BY <1>1, <1>3 DEF TypeOK
<1>5. p \in CasCallers =>
        /\ stateFile.rev # 0 /\ base[p].rev = stateFile.rev
        /\ base[p].doc = stateFile.doc
  BY <1>1 DEF DataInv
<1>6. QED
  BY <1>1, <1>2, <1>4, <1>5 DEF NextDocument

LEMMA DataStep == TypeOK /\ LockInv /\ DataInv /\ [Next]_vars => DataInv'
<1> SUFFICES ASSUME TypeOK, LockInv, DataInv, [Next]_vars, mishaps' = {}
             PROVE  DataInv'
  BY DEF DataInv
<1>0. mishaps = {}
  BY MishapsOnlyGrow
<1>1. ASSUME NEW p \in Procs, Begin(p) PROVE DataInv'
  <2>1. /\ base' = [base EXCEPT ![p] = stateFile]
        /\ pc' = [pc EXCEPT ![p] = "open"]
        /\ UNCHANGED <<stateFile, cur, commits>>
    BY <1>0, <1>1, BeginReads
  <2>2. QED
    BY <1>0, <2>1 DEF DataInv, TypeOK
<1>2. ASSUME NEW p \in Procs, Replace(p) PROVE DataInv'
  <2>1. /\ stateFile' = [rev |-> stateFile.rev + 1,
                         doc |-> base[p].doc \cup {<<p, commits[p] + 1>>},
                         form |-> "valid"]
        /\ \A q \in Procs : pc'[q] # "replace"
        /\ UNCHANGED base
    BY <1>0, <1>2, ReplaceCommits
  <2>2. QED
    BY <1>0, <2>1 DEF DataInv, TypeOK
<1>3. ASSUME NEW p \in Procs, ReadCurrent(p) PROVE DataInv'
  BY <1>0, <1>3 DEF ReadCurrent, CurrentRevision, RevisionAccepted, DataInv,
                    TypeOK, Goto
<1>4. ASSUME NEW p \in Procs,
             \/ OpenLock(p) \/ StatLock(p) \/ BreakLock(p)
             \/ WriteFails(p) \/ ReleaseLock(p) \/ Crash(p)
      PROVE  DataInv'
  <2>1. /\ UNCHANGED <<stateFile, base, cur>>
        /\ \E label \in Label \ {"replace"} : pc' = [pc EXCEPT ![p] = label]
    BY <1>4 DEF OpenLock, StatLock, BreakLock, WriteFails, ReleaseLock, Crash,
                Goto, Label, Critical
  <2>2. QED
    BY <1>0, <2>1 DEF DataInv, TypeOK
<1>5. CASE LockAges \/ UNCHANGED vars
  BY <1>0, <1>5 DEF LockAges, vars, DataInv
<1>6. CASE Rewind
  BY <1>6 DEF Rewind
<1>7. QED
  BY <1>1, <1>2, <1>3, <1>4, <1>5, <1>6 DEF Next, Step

LEMMA InitData == Init => DataInv
<1> SUFFICES ASSUME Init PROVE DataInv
  OBVIOUS
<1>1. /\ stateFile.form = "valid" /\ stateFile.doc = {}
      /\ stateFile.rev \in {0, 1}
  BY DEF Init, NoFile
<1>2. \A p \in Procs : base[p].form = "valid" /\ base[p].doc = {}
                       /\ base[p].rev = 0 /\ pc[p] = "idle"
  BY DEF Init, NoFile
<1>3. QED
  BY <1>1, <1>2 DEF DataInv

(* A caller that passes expected_revision never overwrites what it had not *)
(* read, whatever the other callers do.                                    *)
THEOREM CasSafety == Spec => CasNeverClobbers
<1>1. TypeOK /\ LockInv /\ DataInv /\ [Next]_vars => CasWriteKeepsUpdates
  <2> SUFFICES ASSUME TypeOK, LockInv, DataInv, [Next]_vars,
                      NEW p \in CasCallers, mishaps = {},
                      commits'[p] # commits[p]
               PROVE  stateFile.doc \subseteq stateFile'.doc
    BY DEF CasWriteKeepsUpdates
  <2>1. p \in Procs
    BY ProcsAssumption
  <2>2. PICK q \in Procs : Replace(q)
    BY DEF Next, Step, vars, Begin, OpenLock, StatLock, BreakLock, ReadCurrent,
           WriteFails, ReleaseLock, Crash, LockAges, Rewind
  <2>3. q = p
    BY <2>1, <2>2 DEF Replace, TypeOK
  <2>4. QED
    BY <2>1, <2>2, <2>3, ReplaceCommits
<1>2. Init => LockInv
  BY ProcsAssumption DEF Init, LockInv, Critical
<1>3. QED
  BY <1>1, <1>2, InitData, TypeCorrect, LockStep, DataStep, PTL
     DEF Spec, CasNeverClobbers

(* When every caller passes expected_revision, no update is ever lost.     *)
LEMMA CommittedStep ==
  CasCallers = Procs /\ TypeOK /\ LockInv /\ DataInv
    /\ NoCommittedUpdateLost /\ [Next]_vars => NoCommittedUpdateLost'
<1> SUFFICES ASSUME CasCallers = Procs, TypeOK, LockInv, DataInv,
                    NoCommittedUpdateLost, [Next]_vars, mishaps' = {}
             PROVE  NoCommittedUpdateLost'
  BY DEF NoCommittedUpdateLost
<1>0. mishaps = {}
  BY MishapsOnlyGrow
<1>1. ASSUME NEW p \in Procs, Replace(p) PROVE NoCommittedUpdateLost'
  <2>1. stateFile'.doc = stateFile.doc \cup {<<p, commits[p] + 1>>}
    BY <1>0, <1>1, ReplaceCommits
  <2>2. commits' = [commits EXCEPT ![p] = @ + 1]
    BY <1>1 DEF Replace
  <2> SUFFICES ASSUME NEW q \in Procs, NEW k \in 1..commits'[q]
               PROVE  <<q, k>> \in stateFile'.doc
    BY DEF NoCommittedUpdateLost
  <2>3. k \in 1..commits[q] \/ (q = p /\ k = commits[p] + 1)
    BY <2>2 DEF TypeOK
  <2>4. QED
    BY <1>0, <2>1, <2>3 DEF NoCommittedUpdateLost
<1>2. CASE UNCHANGED <<stateFile, commits>>
  BY <1>0, <1>2 DEF NoCommittedUpdateLost
<1>3. QED
  BY <1>1, <1>2 DEF Next, Step, vars, Begin, OpenLock, StatLock, BreakLock,
     ReadCurrent, WriteFails, ReleaseLock, Crash, LockAges, Rewind

(* If every caller passed expected_revision no committed update would ever *)
(* be lost, short of a stolen lock, a reset or a damaged file.             *)
THEOREM NoLostUpdate == CasCallers = Procs /\ Spec => []NoCommittedUpdateLost
<1> SUFFICES ASSUME CasCallers = Procs PROVE Spec => []NoCommittedUpdateLost
  OBVIOUS
<1>1. Init => NoCommittedUpdateLost
  BY DEF Init, NoCommittedUpdateLost
<1>2. Init => LockInv
  BY ProcsAssumption DEF Init, LockInv, Critical
<1>3. TypeOK /\ LockInv /\ DataInv /\ NoCommittedUpdateLost /\ [Next]_vars
        => NoCommittedUpdateLost'
  BY CommittedStep
<1>4. QED
  BY <1>1, <1>2, <1>3, InitData, TypeCorrect, LockStep, DataStep, PTL
     DEF Spec

(* Until a mishap the store implements the atomic register of AtomicStore: *)
(* Begin is its Read, Replace is its Commit, every other step stutters.    *)
LEMMA RegisterStep ==
  TypeOK /\ LockInv /\ DataInv /\ [Next]_vars
    => (mishaps' = {} => [A!Next]_(A!vars))
<1> SUFFICES ASSUME TypeOK, LockInv, DataInv, [Next]_vars, mishaps' = {}
             PROVE  [A!Next]_(A!vars)
  OBVIOUS
<1>0. mishaps = {}
  BY MishapsOnlyGrow
<1>1. ASSUME NEW p \in Procs, Begin(p) PROVE A!Read(p)
  <2>1. base' = [base EXCEPT ![p] = stateFile] /\ UNCHANGED stateFile
    BY <1>0, <1>1, BeginReads
  <2>2. QED
    BY <2>1 DEF A!Read, TypeOK
<1>2. ASSUME NEW p \in Procs, Replace(p) PROVE A!Commit(p)
  <2>1. /\ stateFile' = [rev |-> stateFile.rev + 1,
                         doc |-> base[p].doc \cup {<<p, commits[p] + 1>>},
                         form |-> "valid"]
        /\ p \in CasCallers =>
              stateFile.rev # 0 /\ base[p].rev = stateFile.rev
        /\ UNCHANGED base
    BY <1>0, <1>2, ReplaceCommits
  <2>2. <<p, commits[p] + 1>> \in Procs \X (1..MaxCommits)
    BY <1>2, BoundsAssumption DEF Replace, TypeOK
  <2>3. QED
    BY <2>1, <2>2 DEF A!Commit
<1>3. CASE UNCHANGED <<stateFile, base>>
  BY <1>3 DEF A!vars
<1>4. QED
  BY <1>1, <1>2, <1>3 DEF A!Next, Next, Step, vars, OpenLock, StatLock,
     BreakLock, ReadCurrent, WriteFails, ReleaseLock, Crash, LockAges, Rewind

THEOREM Refinement == Spec => AtomicUnlessMishap
<1>1. Init => A!Init
  BY DEF Init, A!Init, A!Document, NoFile
<1>2. Init => LockInv
  BY ProcsAssumption DEF Init, LockInv, Critical
<1>3. QED
  BY <1>1, <1>2, InitData, TypeCorrect, LockStep, DataStep, RegisterStep, PTL
     DEF Spec, AtomicUnlessMishap

-------------------------------------------------------------------------------
(* PART TWO.  What the file says.                                          *)

-------------------------------------------------------------------------------
(* Induction on naturals, over sets.                                       *)

LEMMA LeastNatural ==
  ASSUME NEW T \in SUBSET Nat, T # {}
  PROVE  \E x \in T : \A y \in T : x <= y
<1> DEFINE R == {p \in Nat \X Nat : p[1] < p[2]}
<1>1. IsWellFoundedOn(R, Nat)
  BY NatLessThanWellFounded DEF OpToRel, IsWellFoundedOn
<1>2. \E x \in T : \A y \in T : ~ (<<y, x>> \in R)
  <2> HIDE DEF R
  <2> QED BY <1>1, WFMin
<1>3. PICK x \in T : \A y \in T : ~ (<<y, x>> \in R)
  BY <1>2
<1>4. \A y \in T : ~ (y < x)
  BY <1>3
<1> QED BY <1>4

LEMMA SetInduction ==
  ASSUME NEW S \in SUBSET Nat, 0 \in S, \A n \in S : n + 1 \in S
  PROVE  S = Nat
<1> SUFFICES ASSUME Nat \ S # {} PROVE FALSE
  OBVIOUS
<1>1. PICK m \in Nat \ S : \A y \in Nat \ S : m <= y
  BY LeastNatural
<1>2. m - 1 \in Nat /\ m - 1 \in S
  BY <1>1
<1> QED BY <1>1, <1>2

(* A finite set of naturals that is not empty has a greatest member.       *)
LEMMA GreatestNatural ==
  ASSUME NEW T \in SUBSET Nat, IsFiniteSet(T), T # {}
  PROVE  \E x \in T : \A y \in T : y <= x
<1>1. Cardinality(T) \in Nat
  BY FS_CardinalityType
<1> DEFINE
      Bounded == {n \in Nat : \A U \in SUBSET T :
                     IsFiniteSet(U) /\ Cardinality(U) = n /\ U # {}
                     => \E x \in U : \A y \in U : y <= x}
<1>3. 0 \in Bounded
  BY FS_EmptySet
<1>4. ASSUME NEW n \in Bounded PROVE n + 1 \in Bounded
  <2> SUFFICES ASSUME NEW U \in SUBSET T, IsFiniteSet(U), Cardinality(U) = n + 1, U # {}
               PROVE  \E x \in U : \A y \in U : y <= x
    OBVIOUS
  <2>1. PICK u \in U : TRUE
    OBVIOUS
  <2>2. IsFiniteSet(U \ {u}) /\ Cardinality(U \ {u}) = n
    <3>1. /\ IsFiniteSet(U \ {u})
          /\ Cardinality(U \ {u}) = IF u \in U THEN Cardinality(U) - 1 ELSE Cardinality(U)
      BY FS_RemoveElement, Zenon
    <3>2. n \in Nat
      OBVIOUS
    <3> QED BY <3>1, <3>2
  <2>3. CASE U \ {u} = {}
    BY <2>3
  <2>4. CASE U \ {u} # {}
    <3>1. PICK x \in U \ {u} : \A y \in U \ {u} : y <= x
      BY <2>2, <2>4
    <3>2. \/ \A y \in U : y <= x
          \/ \A y \in U : y <= u
      BY <3>1
    <3> QED BY <3>2
  <2> QED BY <2>3, <2>4
<1>5. Bounded = Nat
  <2>1. Bounded \subseteq Nat
    OBVIOUS
  <2> HIDE DEF Bounded
  <2> QED BY <1>3, <1>4, <2>1, SetInduction
<1> QED BY <1>1, <1>5

-------------------------------------------------------------------------------
(* Among.                                                                  *)

(* kept holds what Among has taken of the first n items.                   *)
Keeping(kept, q, V, m) ==
    kept = [n \in 0 .. m |->
               IF n = 0 THEN <<>>
               ELSE IF q[n].service \in V THEN Append(kept[n - 1], q[n]) ELSE kept[n - 1]]

(* There is such a function, however long the sequence.                    *)
LEMMA KeepingExists ==
  ASSUME NEW q, NEW V, NEW m \in Nat
  PROVE  \E kept : Keeping(kept, q, V, m)
<1> DEFINE Reached == {n \in Nat : \E kept : Keeping(kept, q, V, n)}
<1>1. 0 \in Reached
  <2>1. Keeping([n \in 0 .. 0 |-> <<>>], q, V, 0)
    BY DEF Keeping
  <2> QED BY <2>1
<1>2. ASSUME NEW k \in Reached PROVE k + 1 \in Reached
  <2>1. PICK f : Keeping(f, q, V, k)
    BY <1>2
  <2> DEFINE g == [n \in 0 .. k + 1 |->
               IF n = 0 THEN <<>>
               ELSE IF q[n].service \in V THEN Append(f[n - 1], q[n]) ELSE f[n - 1]]
  <2>2. ASSUME NEW n \in 0 .. k PROVE g[n] = f[n]
    <3>1. f[n] = IF n = 0 THEN <<>>
                 ELSE IF q[n].service \in V THEN Append(f[n - 1], q[n]) ELSE f[n - 1]
      BY <2>1 DEF Keeping
    <3>2. n \in 0 .. k + 1
      OBVIOUS
    <3> QED BY <3>1, <3>2
  <2>3. g = [n \in 0 .. k + 1 |->
               IF n = 0 THEN <<>>
               ELSE IF q[n].service \in V THEN Append(g[n - 1], q[n]) ELSE g[n - 1]]
    <3>1. ASSUME NEW n \in 0 .. k + 1, n # 0 PROVE g[n - 1] = f[n - 1]
      BY <2>2, <3>1
    <3> QED BY <3>1
  <2>4. Keeping(g, q, V, k + 1)
    BY <2>3 DEF Keeping
  <2> QED BY <2>4
<1>3. Reached = Nat
  <2>1. Reached \subseteq Nat
    OBVIOUS
  <2> HIDE DEF Reached
  <2> QED BY <1>1, <1>2, <2>1, SetInduction
<1> QED BY <1>3

(* Among is the last value of one.                                         *)
LEMMA AmongKeeps ==
  ASSUME NEW q, NEW V, Len(q) \in Nat
  PROVE  \E kept : Keeping(kept, q, V, Len(q)) /\ Among(q, V) = kept[Len(q)]
<1> DEFINE kept == CHOOSE kept : Keeping(kept, q, V, Len(q))
<1>1. Keeping(kept, q, V, Len(q))
  BY KeepingExists
<1>2. Among(q, V) = kept[Len(q)]
  BY DEF Among, Keeping
<1> QED BY <1>1, <1>2

(* Its values, one after the other.                                        *)
LEMMA KeepingAt ==
  ASSUME NEW kept, NEW q, NEW V, NEW m \in Nat, Keeping(kept, q, V, m)
  PROVE  /\ kept[0] = <<>>
         /\ \A n \in Nat : n + 1 <= m =>
               kept[n + 1] = IF q[n + 1].service \in V THEN Append(kept[n], q[n + 1]) ELSE kept[n]
<1>1. \A n \in 0 .. m :
         kept[n] = IF n = 0 THEN <<>>
                   ELSE IF q[n].service \in V THEN Append(kept[n - 1], q[n]) ELSE kept[n - 1]
  BY DEF Keeping
<1>2. kept[0] = <<>>
  <2>1. 0 \in 0 .. m
    OBVIOUS
  <2> QED BY <1>1, <2>1, Zenon
<1>3. ASSUME NEW n \in Nat, n + 1 <= m
      PROVE  kept[n + 1] = IF q[n + 1].service \in V THEN Append(kept[n], q[n + 1]) ELSE kept[n]
  <2>1. n + 1 \in 0 .. m /\ n + 1 # 0 /\ (n + 1) - 1 = n
    BY <1>3
  <2> QED BY <1>1, <2>1
<1> QED BY <1>2, <1>3

(* What is taken are items of the sequence, of the services asked for.     *)
LEMMA AmongItems ==
  ASSUME NEW T, NEW q \in Seq(T), NEW V
  PROVE  /\ Among(q, V) \in Seq(T)
         /\ \A k \in 1 .. Len(Among(q, V)) :
               /\ Among(q, V)[k].service \in V
               /\ \E i \in 1 .. Len(q) : Among(q, V)[k] = q[i]
<1>1. PICK kept : Keeping(kept, q, V, Len(q)) /\ Among(q, V) = kept[Len(q)]
  BY AmongKeeps
<1> DEFINE
      Sound(s) == /\ s \in Seq(T)
                  /\ \A k \in 1 .. Len(s) :
                        s[k].service \in V /\ \E i \in 1 .. Len(q) : s[k] = q[i]
      Reached == {n \in Nat : n <= Len(q) => Sound(kept[n])}
<1>2. 0 \in Reached
  <2>1. kept[0] = <<>>
    BY <1>1, KeepingAt
  <2>2. Sound(<<>>)
    OBVIOUS
  <2> QED BY <2>1, <2>2
<1>3. ASSUME NEW n \in Reached PROVE n + 1 \in Reached
  <2> SUFFICES ASSUME n + 1 <= Len(q) PROVE Sound(kept[n + 1])
    OBVIOUS
  <2>1. Sound(kept[n]) /\ n + 1 \in 1 .. Len(q) /\ q[n + 1] \in T
    OBVIOUS
  <2>2. kept[n + 1] = IF q[n + 1].service \in V THEN Append(kept[n], q[n + 1]) ELSE kept[n]
    BY <1>1, KeepingAt
  <2>3. CASE q[n + 1].service \in V
    <3> DEFINE s == Append(kept[n], q[n + 1])
    <3>1. s \in Seq(T) /\ Len(s) = Len(kept[n]) + 1
      BY <2>1
    <3>2. ASSUME NEW k \in 1 .. Len(s)
          PROVE  s[k].service \in V /\ \E i \in 1 .. Len(q) : s[k] = q[i]
      <4>1. CASE k = Len(kept[n]) + 1
        <5>1. s[k] = q[n + 1]
          BY <2>1, <4>1
        <5> QED BY <5>1, <2>1, <2>3
      <4>2. CASE k # Len(kept[n]) + 1
        <5>1. k \in 1 .. Len(kept[n]) /\ s[k] = kept[n][k]
          BY <2>1, <3>1, <4>2
        <5> QED BY <5>1, <2>1
      <4> QED BY <4>1, <4>2
    <3> QED BY <2>2, <2>3, <3>1, <3>2
  <2>4. CASE q[n + 1].service \notin V
    BY <2>1, <2>2, <2>4
  <2> QED BY <2>3, <2>4
<1>4. Reached = Nat
  <2>1. Reached \subseteq Nat
    OBVIOUS
  <2> HIDE DEF Reached
  <2> QED BY <1>2, <1>3, <2>1, SetInduction
<1> QED BY <1>1, <1>4

(* A function on the first n naturals is a sequence.                       *)
LEMMA FromFunction ==
  ASSUME NEW T, NEW n \in Nat, NEW f \in [1 .. n -> T]
  PROVE  f \in Seq(T) /\ Len(f) = n
OBVIOUS

(* Sequences of the same items are the same.                               *)
LEMMA SameItems ==
  ASSUME NEW T, NEW s \in Seq(T), NEW t \in Seq(T), Len(t) = Len(s),
         \A i \in 1 .. Len(s) : t[i] = s[i]
  PROVE  t = s
OBVIOUS

(* A sequence is what it begins with and its last item.                    *)
LEMMA Extended ==
  ASSUME NEW T, NEW s \in Seq(T), NEW t \in Seq(T), Len(t) = Len(s) + 1,
         \A i \in 1 .. Len(s) : t[i] = s[i]
  PROVE  Append(s, t[Len(t)]) = t
OBVIOUS

(* The items of V are those after the first l, up to the u-th.             *)
Together(q, V, l, u) ==
    /\ l <= u /\ u <= Len(q)
    /\ \A i \in 1 .. Len(q) : q[i].service \in V <=> (l < i /\ i <= u)

(* Of items that stand together, all are taken, in their order.            *)
LEMMA AmongRun ==
  ASSUME NEW T, NEW q \in Seq(T), NEW V, NEW l \in Nat, NEW u \in Nat,
         Together(q, V, l, u)
  PROVE  /\ Len(Among(q, V)) = u - l
         /\ \A i \in 1 .. (u - l) : Among(q, V)[i] = q[l + i]
<1>0. /\ Len(q) \in Nat /\ l <= u /\ u <= Len(q)
      /\ \A i \in 1 .. Len(q) : q[i].service \in V <=> (l < i /\ i <= u)
  BY DEF Together
<1>1. PICK kept : Keeping(kept, q, V, Len(q)) /\ Among(q, V) = kept[Len(q)]
  BY <1>0, AmongKeeps
<1> DEFINE
      Taken(n) == IF n <= l THEN 0 ELSE IF n <= u THEN n - l ELSE u - l
      First(m) == [i \in 1 .. m |-> q[l + i]]
      Reached == {n \in Nat : n <= Len(q) => kept[n] = First(Taken(n))}
<1>2. 0 \in Reached
  <2>1. Taken(0) = 0 /\ First(0) = <<>>
    OBVIOUS
  <2> QED BY <2>1, <1>1, KeepingAt
<1>3. ASSUME NEW n \in Reached PROVE n + 1 \in Reached
  <2> USE <1>0
  <2> SUFFICES ASSUME n + 1 <= Len(q) PROVE kept[n + 1] = First(Taken(n + 1))
    OBVIOUS
  <2>1. kept[n] = First(Taken(n)) /\ n + 1 \in 1 .. Len(q)
    OBVIOUS
  <2>2. kept[n + 1] = IF q[n + 1].service \in V THEN Append(kept[n], q[n + 1]) ELSE kept[n]
    BY <1>1, KeepingAt
  <2>3. CASE l < n + 1 /\ n + 1 <= u
    <3>1. Taken(n) \in Nat /\ Taken(n + 1) = Taken(n) + 1 /\ l + Taken(n + 1) = n + 1
      BY <2>3
    <3>2. Append(First(Taken(n)), q[n + 1]) = First(Taken(n) + 1)
      <4>1. ASSUME NEW m \in Nat, l + m + 1 <= Len(q)
            PROVE  Append(First(m), q[l + m + 1]) = First(m + 1)
        <5>1. ASSUME NEW p \in Nat, l + p <= Len(q)
              PROVE  First(p) \in Seq(T) /\ Len(First(p)) = p
          <6>1. ASSUME NEW i \in 1 .. p PROVE q[l + i] \in T
            <7>1. l + i \in 1 .. Len(q)
              BY <5>1
            <7> QED BY <7>1
          <6>2. First(p) \in [1 .. p -> T]
            BY <6>1
          <6> QED BY <6>2, FromFunction
        <5>2. First(m) \in Seq(T) /\ Len(First(m)) = m
          <6>1. l + m <= Len(q)
            BY <4>1
          <6> HIDE DEF First
          <6> QED BY <5>1, <6>1
        <5>3. First(m + 1) \in Seq(T) /\ Len(First(m + 1)) = m + 1
          <6>1. m + 1 \in Nat /\ l + (m + 1) <= Len(q)
            BY <4>1
          <6> HIDE DEF First
          <6> QED BY <5>1, <6>1
        <5>4. \A i \in 1 .. m : First(m + 1)[i] = First(m)[i]
          OBVIOUS
        <5>5. First(m + 1)[m + 1] = q[l + m + 1]
          OBVIOUS
        <5> HIDE DEF First
        <5> QED BY <5>2, <5>3, <5>4, <5>5, Extended
      <4> QED BY <3>1, <4>1
    <3> QED BY <2>1, <2>2, <2>3, <3>1, <3>2
  <2>4. CASE ~ (l < n + 1 /\ n + 1 <= u)
    <3>1. Taken(n + 1) = Taken(n)
      BY <2>4
    <3>2. q[n + 1].service \notin V
      BY <2>4, <2>1
    <3> QED BY <2>1, <2>2, <3>1, <3>2
  <2> QED BY <2>3, <2>4
<1>4. Reached = Nat
  <2>1. Reached \subseteq Nat
    OBVIOUS
  <2> HIDE DEF Reached
  <2> QED BY <1>2, <1>3, <2>1, SetInduction
<1>5. Taken(Len(q)) = u - l /\ u - l \in Nat /\ Len(q) \in Nat
  BY <1>0
<1>6. Among(q, V) = First(u - l)
  <2> HIDE DEF First, Taken
  <2> QED BY <1>1, <1>4, <1>5
<1>7. First(u - l) \in [1 .. (u - l) -> T]
  <2>1. \A i \in 1 .. (u - l) : l + i \in 1 .. Len(q)
    BY <1>0
  <2> QED BY <2>1
<1>8. Len(First(u - l)) = u - l
  <2> HIDE DEF First
  <2> QED BY <1>5, <1>7, FromFunction
<1> QED BY <1>6, <1>8

-------------------------------------------------------------------------------
(* Reading a document.                                                     *)

Latest(d, c, added) == CHOOSE j \in LastOf(JobsOf(d, c), added) : TRUE
Reading(d, c, added) ==
    IF JobsOf(d, c) # {} THEN FromJob(d, Latest(d, c, added))
    ELSE IF ServicesOn(d, c) # {} THEN FromServices(d, c) ELSE d.clients[c]

(* The job that decides for a client is one of the client's, the one just  *)
(* added or the greatest.                                                  *)
LEMMA LatestIs ==
  ASSUME NEW d \in Document, NEW c \in Clients, NEW added, JobsOf(d, c) # {}
  PROVE  /\ Latest(d, c, added) \in JobsOf(d, c)
         /\ added \in JobsOf(d, c) => Latest(d, c, added) = added
         /\ added \notin JobsOf(d, c) => \A j \in JobsOf(d, c) : j <= Latest(d, c, added)
<1> DEFINE js == JobsOf(d, c)
<1>1. js \in SUBSET Nat /\ IsFiniteSet(js)
  <2>1. js \subseteq Jobs
    BY DEF JobsOf
  <2> QED BY <2>1, JobAssumption, FS_Subset
<1>2. \E j \in js : \A i \in js : i <= j
  <2>1. js # {}
    OBVIOUS
  <2> HIDE DEF js
  <2> QED BY <1>1, <2>1, GreatestNatural
<1>3. LastOf(js, added) # {}
  BY <1>2 DEF LastOf, Greatest
<1>4. Latest(d, c, added) \in LastOf(js, added)
  BY <1>3 DEF Latest
<1> QED BY <1>4 DEF LastOf, Greatest

LEMMA BindingsTypes ==
  ASSUME NEW job \in Job
  PROVE  BindingsOf(job) \in SUBSET Services
<1>1. job.selected \in Seq(Identity)
  BY DEF Job
<1>2. \A k \in 1 .. Len(job.selected) : job.selected[k] \in Identity
  BY <1>1
<1> QED BY <1>2 DEF BindingsOf, Identity

LEMMA ReadingTypes ==
  ASSUME NEW d \in Document, NEW c \in Clients, NEW added
  PROVE  Reading(d, c, added) \in ClientState \cup {NoState}
<1>1. CASE JobsOf(d, c) # {}
  <2> DEFINE j == Latest(d, c, added)
  <2>1. j \in Jobs /\ d.jobs[j] # NoJob
    BY <1>1, LatestIs DEF JobsOf
  <2>2. d.jobs[j] \in Job
    BY <2>1 DEF Document
  <2>3. BindingsOf(d.jobs[j]) \in SUBSET Services
    BY <2>2, BindingsTypes
  <2>4. FromJob(d, j) \in ClientState
    <3> HIDE DEF j
    <3> QED BY <2>1, <2>3 DEF FromJob, ClientState
  <2> QED BY <1>1, <2>4 DEF Reading
<1>2. CASE JobsOf(d, c) = {} /\ ServicesOn(d, c) # {}
  <2>1. FromServices(d, c) \in ClientState
    BY DEF FromServices, FromValidation, ClientState, ServicesOn
  <2> QED BY <1>2, <2>1 DEF Reading
<1>3. CASE JobsOf(d, c) = {} /\ ServicesOn(d, c) = {}
  BY <1>3 DEF Reading, Document
<1> QED BY <1>1, <1>2, <1>3

(* Normalising changes what is said of the clients, and nothing else.      *)
LEMMA NormalizedIs ==
  ASSUME NEW d \in Document, NEW added
  PROVE  LET n == Normalized(d, added)
         IN  /\ n \in Document
             /\ n.init = d.init /\ n.status = d.status /\ n.services = d.services
             /\ n.decisions = d.decisions /\ n.jobs = d.jobs /\ n.current = d.current
             /\ \A c \in Clients : n.clients[c] = Reading(d, c, added)
<1> DEFINE f == [c \in Clients |-> Reading(d, c, added)]
<1>1. f \in [Clients -> ClientState \cup {NoState}]
  BY ReadingTypes
<1>2. Normalized(d, added) = [d EXCEPT !.clients = f]
  BY DEF Normalized, Reading, Latest
<1>3. \A c \in Clients : f[c] = Reading(d, c, added)
  OBVIOUS
<1> HIDE DEF f
<1> QED BY <1>1, <1>2, <1>3 DEF Document

(* Jobs that are referred to exist, and belong to who refers to them.      *)
Coherent(d) ==
    /\ d.current # NoJob => d.jobs[d.current] # NoJob
    /\ \A c \in Clients : d.clients[c] # NoState /\ d.clients[c].job # NoJob
                          => d.clients[c].job \in JobsOf(d, c)

(* A client is never read as having a job it has not got.                  *)
LEMMA ReadingCoherent ==
  ASSUME NEW d \in Document, NEW c \in Clients, NEW added, Coherent(d)
  PROVE  LET r == Reading(d, c, added)
         IN  r # NoState /\ r.job # NoJob => r.job \in JobsOf(d, c)
<1>1. CASE JobsOf(d, c) # {}
  <2>1. Latest(d, c, added) \in JobsOf(d, c)
    BY <1>1, LatestIs
  <2>2. Reading(d, c, added).job = Latest(d, c, added)
    BY <1>1 DEF Reading, FromJob
  <2> QED BY <2>1, <2>2
<1>2. CASE JobsOf(d, c) = {} /\ ServicesOn(d, c) # {}
  <2>1. Reading(d, c, added).job = NoJob
    BY <1>2 DEF Reading, FromServices
  <2> QED BY <2>1
<1>3. CASE JobsOf(d, c) = {} /\ ServicesOn(d, c) = {}
  BY <1>3 DEF Reading, Coherent
<1> QED BY <1>1, <1>2, <1>3

LEMMA NormalizedCoherent ==
  ASSUME NEW d \in Document, NEW added, Coherent(d)
  PROVE  Coherent(Normalized(d, added))
<1> DEFINE n == Normalized(d, added)
<1>1. /\ n.jobs = d.jobs /\ n.current = d.current
      /\ \A c \in Clients : n.clients[c] = Reading(d, c, added)
  BY NormalizedIs
<1>2. \A c \in Clients : JobsOf(n, c) = JobsOf(d, c)
  BY <1>1 DEF JobsOf
<1> HIDE DEF n
<1>3. n.current # NoJob => n.jobs[n.current] # NoJob
  BY <1>1 DEF Coherent
<1>4. ASSUME NEW c \in Clients, n.clients[c] # NoState, n.clients[c].job # NoJob
      PROVE  n.clients[c].job \in JobsOf(n, c)
  BY <1>1, <1>2, <1>4, ReadingCoherent
<1> QED BY <1>3, <1>4 DEF Coherent, n

LEMMA DefaultTypes == DefaultState \in Document /\ Coherent(DefaultState)
<1>1. DefaultState \in Document
  BY DEF DefaultState, Document
<1> QED BY <1>1 DEF DefaultState, Coherent

(* What a reader reads.                                                    *)
LEMMA LoadIs ==
  ASSUME NEW d \in Document \cup {NoDocument},
         d # NoDocument => Coherent(d)
  PROVE  /\ Load(d) \in Document /\ Coherent(Load(d))
         /\ Loadable(d) => d \in Document /\ Load(d) = Normalized(d, NoJob)
BY DefaultTypes, NormalizedIs, NormalizedCoherent DEF Load, Loadable

-------------------------------------------------------------------------------
(* Planning.                                                               *)

(* A plan is a configuration.                                              *)
LEMMA PlanTypes ==
  ASSUME DocTypeOK, NEW d \in Document, NEW c \in Clients, NEW S \in SUBSET Services
  PROVE  Before(d, c, S) \in Exposure /\ After(d, c, S) \in Exposure
<1>1. Before(d, c, S) \in Exposure
  BY DEF Before, Exposure, Entry, DocTypeOK
<1>2. After(d, c, S) \in Exposure
  BY <1>1 DEF After, Exposure, Entry
<1> QED BY <1>1, <1>2

LEMMA CatalogTypes ==
  ASSUME DocTypeOK, NEW v \in Services
  PROVE  FromCatalog(v) \in Identity /\ FromCatalog(v).service = v
BY DEF FromCatalog, Identity, DocTypeOK

LEMMA RecordTypes ==
  ASSUME NEW d \in Document, NEW v \in Recorded(d)
  PROVE  OnRecord(d, v) \in Identity /\ OnRecord(d, v).service = v
BY DEF OnRecord, Identity, Document, Recorded, Record

(* The services of a job as they are now: h of them on record, in front,   *)
(* the others from the catalogue, and no service but the job's.            *)
LEMMA ServicesNow ==
  ASSUME DocTypeOK, NEW d \in Document, NEW job \in Job
  PROVE  LET now == ServicesFromState(d, job)
         IN  /\ now \in Seq(Identity)
             /\ \E h \in Nat :
                  /\ h <= Len(now)
                  /\ \A k \in 1 .. Len(now) :
                       /\ now[k].service \in BindingsOf(job)
                       /\ now[k].service \in Recorded(d) <=> k <= h
                       /\ now[k] = IF k <= h THEN OnRecord(d, now[k].service)
                                   ELSE FromCatalog(now[k].service)
<1> DEFINE
      q == job.selected
      here == Among(q, Recorded(d))
      unknown == Services \ Recorded(d)
      gone == Among(q, unknown)
      H == [k \in 1 .. Len(here) |-> OnRecord(d, here[k].service)]
      G == [k \in 1 .. Len(gone) |-> FromCatalog(gone[k].service)]
<1>1. q \in Seq(Identity)
  BY DEF Job
<1>2. /\ here \in Seq(Identity)
      /\ \A k \in 1 .. Len(here) : /\ here[k].service \in Recorded(d)
                                   /\ here[k].service \in BindingsOf(job)
  <2> HIDE DEF q
  <2>1. /\ here \in Seq(Identity)
        /\ \A k \in 1 .. Len(here) : /\ here[k].service \in Recorded(d)
                                     /\ \E i \in 1 .. Len(q) : here[k] = q[i]
    BY <1>1, AmongItems
  <2> HIDE DEF here
  <2> QED BY <2>1 DEF BindingsOf, q
<1>3. /\ gone \in Seq(Identity)
      /\ \A k \in 1 .. Len(gone) : /\ gone[k].service \in Services \ Recorded(d)
                                   /\ gone[k].service \in BindingsOf(job)
  <2> HIDE DEF q, unknown
  <2>1. /\ gone \in Seq(Identity)
        /\ \A k \in 1 .. Len(gone) : /\ gone[k].service \in unknown
                                     /\ \E i \in 1 .. Len(q) : gone[k] = q[i]
    BY <1>1, AmongItems
  <2> HIDE DEF gone
  <2> QED BY <2>1 DEF BindingsOf, q, unknown
<1>4. ServicesFromState(d, job) = H \o G
  BY DEF ServicesFromState
<1> HIDE DEF q, here, gone
<1>5. /\ H \in Seq(Identity) /\ Len(H) = Len(here)
      /\ \A k \in 1 .. Len(H) : /\ H[k].service = here[k].service
                                /\ H[k] = OnRecord(d, H[k].service)
  <2>1. Len(here) \in Nat
    BY <1>2
  <2>2. \A k \in 1 .. Len(here) : OnRecord(d, here[k].service) \in Identity
                                  /\ OnRecord(d, here[k].service).service = here[k].service
    BY <1>2, RecordTypes
  <2>3. H \in [1 .. Len(here) -> Identity]
    BY <2>2
  <2>4. H \in Seq(Identity) /\ Len(H) = Len(here)
    <3> HIDE DEF H
    <3> QED BY <2>1, <2>3, FromFunction
  <2> QED BY <2>2, <2>4
<1>6. /\ G \in Seq(Identity) /\ Len(G) = Len(gone)
      /\ \A k \in 1 .. Len(G) : /\ G[k].service = gone[k].service
                                /\ G[k] = FromCatalog(G[k].service)
  <2>1. Len(gone) \in Nat
    BY <1>3
  <2>2. \A k \in 1 .. Len(gone) : FromCatalog(gone[k].service) \in Identity
                                  /\ FromCatalog(gone[k].service).service = gone[k].service
    BY <1>3, CatalogTypes
  <2>3. G \in [1 .. Len(gone) -> Identity]
    BY <2>2
  <2>4. G \in Seq(Identity) /\ Len(G) = Len(gone)
    <3> HIDE DEF G
    <3> QED BY <2>1, <2>3, FromFunction
  <2> QED BY <2>2, <2>4
<1> HIDE DEF H, G
<1> DEFINE now == H \o G
<1>7. now \in Seq(Identity) /\ Len(now) = Len(H) + Len(G) /\ Len(H) \in Nat /\ Len(G) \in Nat
  <2> H \in Seq(Identity) /\ G \in Seq(Identity)
    BY <1>5, <1>6
  <2> QED OBVIOUS
<1>8. ASSUME NEW k \in 1 .. Len(now)
      PROVE  /\ now[k].service \in BindingsOf(job)
             /\ now[k].service \in Recorded(d) <=> k <= Len(H)
             /\ now[k] = IF k <= Len(H) THEN OnRecord(d, now[k].service)
                         ELSE FromCatalog(now[k].service)
  <2>1. CASE k <= Len(H)
    <3>1. k \in 1 .. Len(H) /\ now[k] = H[k]
      BY <2>1, <1>5, <1>6, <1>7
    <3> HIDE DEF now
    <3> QED BY <3>1, <1>2, <1>5, <2>1
  <2>2. CASE ~ (k <= Len(H))
    <3>1. k - Len(H) \in 1 .. Len(G) /\ now[k] = G[k - Len(H)]
      BY <2>2, <1>5, <1>6, <1>7
    <3> HIDE DEF now
    <3> QED BY <3>1, <1>3, <1>6, <2>2
  <2> QED BY <2>1, <2>2
<1> HIDE DEF now
<1>9. ServicesFromState(d, job) = now
  BY <1>4 DEF now
<1>10. Len(H) <= Len(now)
  BY <1>7
<1> QED BY <1>7, <1>8, <1>9, <1>10

(* Services that stand as they are now are found as they stand.            *)
LEMMA ServicesStand ==
  ASSUME DocTypeOK, NEW d \in Document, NEW job \in Job, NEW h \in Nat,
         h <= Len(job.selected),
         \A k \in 1 .. Len(job.selected) :
            LET i == job.selected[k]
            IN  /\ i.service \in Recorded(d) <=> k <= h
                /\ i = IF k <= h THEN OnRecord(d, i.service) ELSE FromCatalog(i.service)
  PROVE  ServicesFromState(d, job) = job.selected
<1> DEFINE
      q == job.selected
      unknown == Services \ Recorded(d)
      here == Among(q, Recorded(d))
      gone == Among(q, unknown)
      rest == Len(q) - h
<1>1. /\ q \in Seq(Identity) /\ Len(q) \in Nat /\ rest \in Nat /\ h <= Len(q)
      /\ \A k \in 1 .. Len(q) :
            q[k].service \in Services /\ (q[k].service \in Recorded(d) <=> k <= h)
  <2>1. q \in Seq(Identity)
    BY DEF Job
  <2>2. \A k \in 1 .. Len(q) : q[k] \in Identity
    <3> HIDE DEF q
    <3> QED BY <2>1
  <2>3. \A k \in 1 .. Len(q) : q[k].service \in Services
    BY <2>2 DEF Identity
  <2>4. Len(q) \in Nat /\ h <= Len(q)
    BY <2>1
  <2>5. \A k \in 1 .. Len(q) : q[k].service \in Recorded(d) <=> k <= h
    OBVIOUS
  <2> HIDE DEF q
  <2> QED BY <2>1, <2>3, <2>4, <2>5
<1>2. /\ here \in Seq(Identity) /\ Len(here) = h
      /\ \A k \in 1 .. h : here[k] = q[k]
  <2>1. here \in Seq(Identity)
    <3> HIDE DEF q
    <3> QED BY <1>1, AmongItems
  <2>2. ASSUME NEW l \in Nat, l = 0
        PROVE  Len(here) = h - l /\ \A k \in 1 .. (h - l) : here[k] = q[l + k]
    <3> HIDE DEF q
    <3>1. Together(q, Recorded(d), l, h)
      BY <1>1, <2>2 DEF Together
    <3> QED BY <1>1, <3>1, AmongRun
  <2> HIDE DEF here, q
  <2> QED BY <2>1, <2>2
<1>3. /\ gone \in Seq(Identity) /\ Len(gone) = rest
      /\ \A k \in 1 .. rest : gone[k] = q[h + k]
  <2>1. Together(q, unknown, h, Len(q))
    BY <1>1 DEF Together
  <2> HIDE DEF q, unknown
  <2>2. gone \in Seq(Identity)
    BY <1>1, AmongItems
  <2>3. Len(gone) = Len(q) - h /\ \A k \in 1 .. (Len(q) - h) : gone[k] = q[h + k]
    BY <1>1, <2>1, AmongRun
  <2> QED BY <2>2, <2>3
<1> DEFINE
      H == [k \in 1 .. Len(here) |-> OnRecord(d, here[k].service)]
      G == [k \in 1 .. Len(gone) |-> FromCatalog(gone[k].service)]
<1>5. ServicesFromState(d, job) = H \o G
  BY DEF ServicesFromState
<1>6. H = here
  <2>1. \A k \in 1 .. h : OnRecord(d, here[k].service) = here[k]
    BY <1>1, <1>2
  <2> HIDE DEF here
  <2> QED BY <2>1, <1>2
<1>7. G = gone
  <2>1. ASSUME NEW k \in 1 .. rest PROVE FromCatalog(gone[k].service) = gone[k]
    <3> HIDE DEF gone
    <3>1. gone[k] = q[h + k]
      BY <1>3
    <3>2. h + k \in 1 .. Len(q) /\ ~ (h + k <= h)
      <4> HIDE DEF q
      <4> QED BY <1>1
    <3>3. q[h + k] = FromCatalog(q[h + k].service)
      BY <3>2
    <3> HIDE DEF q
    <3> QED BY <3>1, <3>3
  <2> HIDE DEF gone
  <2> QED BY <2>1, <1>3
<1>8. here \o gone = q
  <2> HIDE DEF q, here, gone, rest
  <2>1. here \o gone \in Seq(Identity) /\ Len(here \o gone) = Len(q)
    <3>1. here \o gone \in Seq(Identity) /\ Len(here \o gone) = Len(here) + Len(gone)
      <4> here \in Seq(Identity) /\ gone \in Seq(Identity)
        BY <1>2, <1>3
      <4> QED OBVIOUS
    <3> QED BY <1>1, <1>2, <1>3, <3>1 DEF rest
  <2>2. ASSUME NEW k \in 1 .. Len(q) PROVE (here \o gone)[k] = q[k]
    <3>1. CASE k <= h
      BY <3>1, <1>1, <1>2, <1>3
    <3>2. CASE ~ (k <= h)
      <4>1. k - h \in 1 .. rest /\ h + (k - h) = k
        BY <3>2, <1>1 DEF rest
      <4>2. (here \o gone)[k] = gone[k - h]
        BY <1>1, <1>2, <1>3, <3>2 DEF rest
      <4>3. gone[k - h] = q[h + (k - h)]
        BY <1>3, <4>1
      <4> QED BY <4>1, <4>2, <4>3
    <3> QED BY <3>1, <3>2
  <2> QED BY <1>1, <2>1, <2>2, SameItems
<1> QED BY <1>5, <1>6, <1>7, <1>8

-------------------------------------------------------------------------------
(* Writing a document.                                                     *)

LEMMA ActivatedTypes ==
  ASSUME NEW d \in Document, NEW c \in Clients, NEW i \in Identity
  PROVE  Activated(d, c, i) \in Record
<1>1. Inherited(d, i) \in ServerIds \cup {NoServer}
  BY DEF Inherited, Identity, Document, Record
<1>2. \A o \in Clients : d.services[i.service] # NoRecord
                         => d.services[i.service].on[o] \in Validation
  BY DEF Identity, Document, Record
<1>3. i.digest \in Readback
  BY DEF Identity
<1> QED BY <1>1, <1>2, <1>3 DEF Activated, Record, Validation

(* An activation makes its job, and records the services of the job as     *)
(* some item of it tells.                                                  *)
Installed(d, c, selected, S, e) ==
    /\ \A v \in S : /\ \E k \in 1 .. Len(selected) :
                          /\ selected[k].service = v
                          /\ e.services[v] = Activated(d, c, selected[k])
                     /\ e.decisions[v] = "accepted"
    /\ \A v \in Services \ S :
          e.services[v] = d.services[v] /\ e.decisions[v] = d.decisions[v]

LEMMA ActivationIs ==
  ASSUME NEW d \in Document, NEW c \in Clients, NEW selected \in Seq(Identity),
         NEW j \in Jobs, NEW after \in Exposure
  PROVE  LET e == ActivationToState(d, c, selected, j, after)
             job == [client |-> c, selected |-> selected, digest |-> after]
         IN  /\ job \in Job /\ e \in Document
             /\ e.init = "present" /\ e.status = "initialized" /\ e.current = j
             /\ e.clients = d.clients /\ e.jobs = [d.jobs EXCEPT ![j] = job]
             /\ Installed(d, c, selected, BindingsOf(job), e)
<1> DEFINE
      job == [client |-> c, selected |-> selected, digest |-> after]
      S == BindingsOf(job)
      entry(v) == {i \in {selected[k] : k \in 1 .. Len(selected)} : i.service = v}
      services == [v \in Services |->
                      IF v \in S THEN Activated(d, c, CHOOSE i \in entry(v) : TRUE)
                      ELSE d.services[v]]
      decisions == [v \in Services |-> IF v \in S THEN "accepted" ELSE d.decisions[v]]
      jobs == [d.jobs EXCEPT ![j] = job]
<1>1. job \in Job
  BY DEF Job
<1>2. S \subseteq Services
  <2> HIDE DEF job
  <2> QED BY <1>1, BindingsTypes
<1>3. ASSUME NEW v \in S
      PROVE  \E k \in 1 .. Len(selected) :
                /\ selected[k] \in Identity /\ selected[k].service = v
                /\ services[v] = Activated(d, c, selected[k])
  <2>1. entry(v) # {}
    BY DEF BindingsOf
  <2>2. (CHOOSE i \in entry(v) : TRUE) \in entry(v)
    <3> HIDE DEF entry
    <3> QED BY <2>1
  <2>3. PICK k \in 1 .. Len(selected) :
           selected[k] = (CHOOSE i \in entry(v) : TRUE) /\ selected[k].service = v
    BY <2>2
  <2>4. services[v] = Activated(d, c, CHOOSE i \in entry(v) : TRUE)
    <3> HIDE DEF S, entry
    <3> QED BY <1>2
  <2>5. selected[k] \in Identity
    OBVIOUS
  <2> HIDE DEF S, services, entry
  <2> QED BY <2>3, <2>4, <2>5
<1>4. ASSUME NEW v \in Services \ S
      PROVE  services[v] = d.services[v] /\ decisions[v] = d.decisions[v]
  <2> HIDE DEF S
  <2> QED OBVIOUS
<1>5. services \in [Services -> Record \cup {NoRecord}]
  <2>1. \A v \in S : services[v] \in Record
    <3> HIDE DEF S, services
    <3> QED BY <1>3, ActivatedTypes
  <2>2. \A v \in Services \ S : services[v] \in Record \cup {NoRecord}
    <3> HIDE DEF S, services
    <3> QED BY <1>4 DEF Document
  <2>3. \A v \in Services : services[v] \in Record \cup {NoRecord}
    <3> HIDE DEF S, services
    <3> QED BY <2>1, <2>2
  <2>4. services = [v \in Services |-> services[v]]
    <3> HIDE DEF S, entry
    <3> QED OBVIOUS
  <2> HIDE DEF services
  <2> QED BY <2>3, <2>4
<1>6. /\ decisions \in [Services -> {"none", "accepted", "off"}]
      /\ jobs \in [Jobs -> Job \cup {NoJob}]
  <2> HIDE DEF S, job
  <2> QED BY <1>1 DEF Document
<1>7. \A v \in S : decisions[v] = "accepted"
  <2> HIDE DEF S
  <2> QED BY <1>2
<1>8. ActivationToState(d, c, selected, j, after)
        = [d EXCEPT !.init = "present", !.status = "initialized", !.services = services,
                    !.decisions = decisions, !.jobs[j] = job, !.current = j]
  BY DEF ActivationToState
<1>9. ActivationToState(d, c, selected, j, after)
        = [d EXCEPT !.init = "present", !.status = "initialized", !.services = services,
                    !.decisions = decisions, !.jobs = jobs, !.current = j]
  <2> HIDE DEF services, decisions, job
  <2> QED BY <1>8 DEF Document
<1> HIDE DEF services, decisions, jobs, entry, S
<1> DEFINE e == ActivationToState(d, c, selected, j, after)
<1>10. /\ e \in Document
       /\ e.init = "present" /\ e.status = "initialized" /\ e.current = j
       /\ e.clients = d.clients /\ e.jobs = jobs
       /\ e.services = services /\ e.decisions = decisions
  BY <1>5, <1>6, <1>9 DEF Document
<1>11. Installed(d, c, selected, S, e)
  <2> HIDE DEF e
  <2> QED BY <1>3, <1>4, <1>7, <1>10 DEF Installed
<1> HIDE DEF e
<1> QED BY <1>1, <1>10, <1>11 DEF S, e, jobs

(* What installing for c makes of the records and the decisions.           *)
Grown(d, c, x) ==
    \A v \in Services :
        /\ \/ x.services[v] = d.services[v]
           \/ \E i \in Identity : i.service = v /\ x.services[v] = Activated(d, c, i)
        /\ x.decisions[v] = d.decisions[v] \/ x.decisions[v] = "accepted"

(* An activation is an installation for its client.                        *)
LEMMA ActivationGrows ==
  ASSUME NEW d \in Document, NEW c \in Clients, NEW selected \in Seq(Identity),
         NEW j \in Jobs, NEW after \in Exposure
  PROVE  Grown(d, c, ActivationToState(d, c, selected, j, after))
<1> DEFINE
      e == ActivationToState(d, c, selected, j, after)
      S == BindingsOf([client |-> c, selected |-> selected, digest |-> after])
<1>1. Installed(d, c, selected, S, e)
  BY ActivationIs
<1>2. \A k \in 1 .. Len(selected) : selected[k] \in Identity
  OBVIOUS
<1> HIDE DEF e, S
<1>3. ASSUME NEW v \in Services
      PROVE  /\ \/ e.services[v] = d.services[v]
                \/ \E i \in Identity : i.service = v /\ e.services[v] = Activated(d, c, i)
             /\ e.decisions[v] = d.decisions[v] \/ e.decisions[v] = "accepted"
  <2>1. CASE v \in S
    BY <1>1, <1>2, <2>1 DEF Installed
  <2>2. CASE v \notin S
    BY <1>1, <2>2 DEF Installed
  <2> QED BY <2>1, <2>2
<1> QED BY <1>3 DEF Grown, e

(* Another document that has every job of the first, for the same client.  *)
LEMMA MoreJobs ==
  ASSUME NEW d \in Document, Coherent(d), NEW e \in Document,
         e.clients = d.clients,
         e.current = d.current \/ e.jobs[e.current] # NoJob,
         \A j \in Jobs : d.jobs[j] # NoJob
                         => e.jobs[j] # NoJob /\ e.jobs[j].client = d.jobs[j].client
  PROVE  /\ Coherent(e)
         /\ \A c \in Clients : JobsOf(d, c) \subseteq JobsOf(e, c)
<1>1. \A c \in Clients : JobsOf(d, c) \subseteq JobsOf(e, c)
  BY DEF JobsOf
<1>2. d.current # NoJob => d.current \in Jobs
  BY DEF Document
<1>3. e.current # NoJob => e.jobs[e.current] # NoJob
  BY <1>2 DEF Coherent
<1>4. ASSUME NEW c \in Clients, e.clients[c] # NoState, e.clients[c].job # NoJob
      PROVE  e.clients[c].job \in JobsOf(e, c)
  <2>1. d.clients[c] # NoState /\ d.clients[c].job # NoJob
    BY <1>4
  <2>2. d.clients[c].job \in JobsOf(d, c)
    BY <2>1 DEF Coherent
  <2> QED BY <1>1, <2>2
<1> QED BY <1>1, <1>3, <1>4 DEF Coherent

LEMMA SelectedTypes ==
  ASSUME DocTypeOK, NEW q \in Seq(Services), NEW c, NEW after
  PROVE  LET selected == [k \in 1 .. Len(q) |-> FromCatalog(q[k])]
             S == {q[k] : k \in 1 .. Len(q)}
         IN  /\ selected \in Seq(Identity)
             /\ S \in SUBSET Services
             /\ BindingsOf([client |-> c, selected |-> selected, digest |-> after]) = S
<1> DEFINE selected == [k \in 1 .. Len(q) |-> FromCatalog(q[k])]
<1>1. \A k \in 1 .. Len(q) : q[k] \in Services
  OBVIOUS
<1>2. \A k \in 1 .. Len(q) : FromCatalog(q[k]) \in Identity /\ FromCatalog(q[k]).service = q[k]
  BY <1>1, CatalogTypes
<1>3. selected \in [1 .. Len(q) -> Identity]
  BY <1>2
<1>4. selected \in Seq(Identity) /\ Len(selected) = Len(q)
  <2> Len(q) \in Nat
    OBVIOUS
  <2> HIDE DEF selected
  <2> QED BY <1>3, FromFunction
<1>5. \A k \in 1 .. Len(q) : selected[k].service = q[k]
  BY <1>2
<1> HIDE DEF selected
<1>6. BindingsOf([client |-> c, selected |-> selected, digest |-> after])
        = {q[k] : k \in 1 .. Len(q)}
  BY <1>4, <1>5 DEF BindingsOf
<1> QED BY <1>1, <1>4, <1>6 DEF selected

-------------------------------------------------------------------------------
(* The invariant.                                                          *)

(* The document hangs together, and knows the latest job of each client;   *)
(* one that does not load is as an older helper left it.                   *)
OnlyOlder == file # NoDocument /\ ~ Loadable(file) => file \in Legacy
LastKnown == \A c \in Clients : last[c] # NoJob => Loadable(file) /\ last[c] \in JobsOf(file, c)
DocInv ==
    /\ DocTypeOK
    /\ file # NoDocument => Coherent(file)
    /\ OnlyOlder
    /\ LastKnown

(* What an activation starts from.                                         *)
Base == IF Loadable(file) THEN Load(file) ELSE DefaultState

LEMMA BaseIs ==
  ASSUME DocInv
  PROVE  /\ Base \in Document /\ Coherent(Base)
         /\ \A c \in Clients : last[c] # NoJob => last[c] \in JobsOf(Base, c)
<1>1. file \in Document \cup {NoDocument} /\ (file # NoDocument => Coherent(file))
  BY DEF DocInv, DocTypeOK
<1>2. Base \in Document /\ Coherent(Base)
  BY <1>1, LoadIs, DefaultTypes DEF Base
<1>3. ASSUME NEW c \in Clients, last[c] # NoJob PROVE last[c] \in JobsOf(Base, c)
  <2>1. Loadable(file) /\ last[c] \in JobsOf(file, c)
    BY <1>3 DEF DocInv, LastKnown
  <2>2. file \in Document /\ Base = Normalized(file, NoJob)
    BY <1>1, <2>1, LoadIs DEF Base
  <2>3. Base.jobs = file.jobs
    BY <2>2, NormalizedIs
  <2> QED BY <2>1, <2>3 DEF JobsOf
<1> QED BY <1>2, <1>3

(* A new document with the jobs of the old one keeps the invariant.        *)
LEMMA InvByDocument ==
  ASSUME DocInv, NEW x \in Document, Coherent(x), x.init = "present",
         NEW added, file' = Normalized(x, added),
         config' \in [Clients -> Exposure], readback' \in [Services -> Readback],
         changes' \in 0 .. MaxChanges, last' \in [Clients -> Jobs \cup {NoJob}],
         \A c \in Clients : last'[c] # NoJob => last'[c] \in JobsOf(x, c)
  PROVE  DocInv'
<1> DEFINE n == Normalized(x, added)
<1>1. n \in Document /\ Coherent(n) /\ n.init = "present" /\ n.jobs = x.jobs
  BY NormalizedIs, NormalizedCoherent
<1>2. n # NoDocument
  BY <1>1, NamesAssumption
<1>3. Loadable(n) /\ \A c \in Clients : JobsOf(n, c) = JobsOf(x, c)
  BY <1>1, <1>2 DEF Loadable, JobsOf
<1>4. file' = n
  OBVIOUS
<1> HIDE DEF n
<1>5. DocTypeOK'
  BY <1>1, <1>4 DEF DocTypeOK
<1>6. LastKnown'
  BY <1>3, <1>4 DEF LastKnown
<1>7. OnlyOlder'
  BY <1>3, <1>4 DEF OnlyOlder, Loadable
<1> QED BY <1>1, <1>4, <1>5, <1>6, <1>7 DEF DocInv

LEMMA ConfigTypes ==
  ASSUME DocTypeOK, NEW c \in Clients, NEW after \in Exposure, WriteConfig(c, after)
  PROVE  config' \in [Clients -> Exposure]
BY DEF DocTypeOK, WriteConfig

(* What Activate writes.                                                   *)
Selected(q) == [k \in 1 .. Len(q) |-> FromCatalog(q[k])]
Planned(c, q) == After(Base, c, {q[k] : k \in 1 .. Len(q)})
Written(c, q, j) == ActivationToState(Base, c, Selected(q), j, Planned(c, q))
WithJob(d, j, c, selected, after) ==
    [d.jobs EXCEPT ![j] = [client |-> c, selected |-> selected, digest |-> after]]

LEMMA ActivateIs ==
  ASSUME DocInv, NEW c \in Clients, NEW q \in Selections, NEW j \in Jobs, Activate(c, q, j)
  PROVE  LET d == Base
             after == Planned(c, q)
             selected == Selected(q)
             x == Written(c, q, j)
         IN  /\ selected \in Seq(Identity) /\ after \in Exposure
             /\ d.jobs[j] = NoJob
             /\ file' = Normalized(x, j)
             /\ x \in Document /\ Coherent(x) /\ x.init = "present"
             /\ j \in JobsOf(x, c)
             /\ \A o \in Clients : JobsOf(d, o) \subseteq JobsOf(x, o)
             /\ WriteConfig(c, after)
             /\ x.clients = d.clients /\ Grown(d, c, x)
             /\ x.jobs = WithJob(d, j, c, selected, after)
<1> DEFINE
      d == Base
      S == {q[k] : k \in 1 .. Len(q)}
      after == After(d, c, S)
      selected == [k \in 1 .. Len(q) |-> FromCatalog(q[k])]
      x == ActivationToState(d, c, selected, j, after)
<1>1. DocTypeOK /\ q \in Seq(Services)
  BY SelectionAssumption DEF DocInv
<1>2. d \in Document /\ Coherent(d)
  BY BaseIs
<1>3. selected \in Seq(Identity) /\ S \in SUBSET Services
  BY <1>1, SelectedTypes
<1>4. after \in Exposure
  <2> HIDE DEF d, S
  <2> QED BY <1>1, <1>2, <1>3, PlanTypes
<1>5. d.jobs[j] = NoJob /\ file' = Normalized(x, j) /\ WriteConfig(c, after)
  BY DEF Activate, Base
<1> DEFINE job == [client |-> c, selected |-> selected, digest |-> after]
<1>6. /\ job \in Job /\ x \in Document /\ x.init = "present" /\ x.current = j
      /\ x.clients = d.clients /\ x.jobs = [d.jobs EXCEPT ![j] = job]
  <2> HIDE DEF d, selected, after
  <2> QED BY <1>2, <1>3, <1>4, ActivationIs, SMTT(60)
<1>11. Grown(d, c, x)
  <2> HIDE DEF d, selected, after
  <2> QED BY <1>2, <1>3, <1>4, ActivationGrows
<1> HIDE DEF d, S, after, selected, x
<1>7. x.jobs[j] = job /\ job # NoJob /\ job.client = c
  BY <1>2, <1>6, NamesAssumption DEF Document
<1>8. \A i \in Jobs : d.jobs[i] # NoJob => x.jobs[i] # NoJob /\ x.jobs[i].client = d.jobs[i].client
  <2> HIDE DEF job
  <2> QED BY <1>2, <1>5, <1>6 DEF Document
<1>9. Coherent(x) /\ \A o \in Clients : JobsOf(d, o) \subseteq JobsOf(x, o)
  <2>1. x.current = d.current \/ x.jobs[x.current] # NoJob
    BY <1>6, <1>7
  <2> QED BY <1>2, <1>6, <1>8, <2>1, MoreJobs
<1>10. j \in JobsOf(x, c)
  BY <1>7 DEF JobsOf
<1>12. after = Planned(c, q) /\ selected = Selected(q) /\ x = Written(c, q, j)
  BY DEF Planned, Selected, Written, d, S, after, selected, x
<1>13. x.jobs = WithJob(d, j, c, selected, after)
  BY <1>6 DEF WithJob
<1> QED BY <1>3, <1>4, <1>5, <1>6, <1>9, <1>10, <1>11, <1>12, <1>13 DEF d

(* The job a repair is about.                                              *)
LEMMA CurrentIs ==
  ASSUME NEW d \in Document, Coherent(d), NEW c \in Clients, HasCurrentJob(d, c)
  PROVE  CurrentJob(d, c) \in JobsOf(d, c) /\ d.jobs[CurrentJob(d, c)] \in Job
<1> DEFINE j == CurrentJob(d, c)
<1>1. j # NoJob /\ d.jobs[j].client = c
  BY DEF HasCurrentJob
<1>2. j \in Jobs /\ d.jobs[j] # NoJob
  <2>1. CASE d.clients[c] # NoState /\ d.clients[c].job # NoJob
    <3>1. j \in JobsOf(d, c)
      BY <2>1 DEF CurrentJob, Coherent
    <3> HIDE DEF j
    <3> QED BY <3>1 DEF JobsOf
  <2>2. CASE ~ (d.clients[c] # NoState /\ d.clients[c].job # NoJob)
    <3>1. j = d.current
      BY <2>2 DEF CurrentJob
    <3> HIDE DEF j
    <3> QED BY <1>1, <3>1 DEF Coherent, Document
  <2> QED BY <2>1, <2>2
<1> HIDE DEF j
<1>3. j \in JobsOf(d, c) /\ d.jobs[j] \in Job
  BY <1>1, <1>2 DEF JobsOf, Document
<1> QED BY <1>3 DEF j

LEMMA RepairedIs ==
  ASSUME NEW d \in Document, NEW c \in Clients, NEW j \in JobsOf(d, c),
         NEW now \in Seq(Identity), NEW after \in Exposure
  PROVE  LET x == Repaired(d, j, now, after)
             job == [client |-> c, selected |-> now, digest |-> after]
         IN  /\ job \in Job /\ x \in Document
             /\ x.init = d.init /\ x.status = d.status /\ x.services = d.services
             /\ x.decisions = d.decisions /\ x.current = d.current /\ x.clients = d.clients
             /\ x.jobs = [d.jobs EXCEPT ![j] = job]
<1> DEFINE job == [client |-> c, selected |-> now, digest |-> after]
<1>1. job \in Job
  BY DEF Job
<1>2. j \in Jobs /\ d.jobs[j] \in Job /\ d.jobs[j].client = c
  BY DEF JobsOf, Document
<1>3. [[d.jobs[j] EXCEPT !.selected = now] EXCEPT !.digest = after] = job
  <2>1. ASSUME NEW r \in Job, r.client = c
        PROVE  [[r EXCEPT !.selected = now] EXCEPT !.digest = after] = job
    <3>1. r = [client |-> c, selected |-> r.selected, digest |-> r.digest]
      BY <2>1 DEF Job
    <3>2. [r EXCEPT !.selected = now] = [client |-> c, selected |-> now, digest |-> r.digest]
      BY <3>1
    <3>3. [[client |-> c, selected |-> now, digest |-> r.digest] EXCEPT !.digest = after] = job
      OBVIOUS
    <3> HIDE DEF job
    <3> QED BY <3>2, <3>3
  <2> HIDE DEF job
  <2> QED BY <1>2, <2>1
<1>4. Repaired(d, j, now, after) = [d EXCEPT !.jobs = [d.jobs EXCEPT ![j] = job]]
  <2>1. Repaired(d, j, now, after)
          = [d EXCEPT !.jobs = [d.jobs EXCEPT ![j] =
                [[d.jobs[j] EXCEPT !.selected = now] EXCEPT !.digest = after]]]
    BY <1>2 DEF Repaired, Document
  <2> QED BY <1>3, <2>1
<1>5. [d.jobs EXCEPT ![j] = job] \in [Jobs -> Job \cup {NoJob}]
  <2> HIDE DEF job
  <2> QED BY <1>1 DEF Document
<1> DEFINE jobs == [d.jobs EXCEPT ![j] = job]
<1> HIDE DEF jobs
<1>6. jobs \in [Jobs -> Job \cup {NoJob}] /\ Repaired(d, j, now, after) = [d EXCEPT !.jobs = jobs]
  BY <1>4, <1>5 DEF jobs
<1> HIDE DEF job
<1>7. LET x == Repaired(d, j, now, after)
      IN  /\ x \in Document
          /\ x.init = d.init /\ x.status = d.status /\ x.services = d.services
          /\ x.decisions = d.decisions /\ x.current = d.current /\ x.clients = d.clients
          /\ x.jobs = jobs
  BY <1>6 DEF Document
<1> QED BY <1>1, <1>7 DEF job, jobs

(* What Repair writes.                                                     *)
Rewritten(c) ==
    LET d == Load(file)
        j == CurrentJob(d, c)
        job == d.jobs[j]
        now == ServicesFromState(d, job)
        after == After(d, c, BindingsOf(job))
    IN  IF c = Pi THEN ActivationToState(d, c, now, j, after) ELSE Repaired(d, j, now, after)

LEMMA RepairIs ==
  ASSUME DocInv, NEW c \in Clients, Repair(c)
  PROVE  LET d == Load(file)
             j == CurrentJob(d, c)
             job == d.jobs[j]
             S == BindingsOf(job)
             now == ServicesFromState(d, job)
             after == After(d, c, S)
             x == Rewritten(c)
         IN  /\ d \in Document /\ Coherent(d) /\ d.init = "present" /\ d = Base
             /\ j \in JobsOf(d, c) /\ job \in Job /\ S \in SUBSET Services
             /\ now \in Seq(Identity) /\ after \in Exposure
             /\ ~ Blocked(d, c, S)
             /\ readback' = readback /\ last' = last /\ changes' = changes
             /\ \/ file' = file /\ config' = config
                \/ /\ WriteConfig(c, after)
                   /\ file' = Normalized(x, NoJob)
                   /\ x \in Document /\ Coherent(x) /\ x.init = "present"
                   /\ x.clients = d.clients
                   /\ x.jobs = [d.jobs EXCEPT ![j] =
                                   [client |-> c, selected |-> now, digest |-> after]]
                   /\ \A o \in Clients : JobsOf(d, o) = JobsOf(x, o)
                   /\ Grown(d, c, x)
                   /\ IF c = Pi
                      THEN \A v \in {now[k].service : k \in 1 .. Len(now)} :
                             \E k \in 1 .. Len(now) :
                                /\ now[k].service = v
                                /\ x.services[v] = Activated(d, c, now[k])
                      ELSE x.services = d.services
<1> DEFINE
      d == Load(file)
      j == CurrentJob(d, c)
      job == d.jobs[j]
      S == BindingsOf(job)
      now == ServicesFromState(d, job)
      after == After(d, c, S)
      x == Rewritten(c)
      repaired == [client |-> c, selected |-> now, digest |-> after]
<1>1. DocTypeOK /\ Loadable(file) /\ HasCurrentJob(d, c)
  BY DEF Repair, DocInv
<1>2. d \in Document /\ Coherent(d) /\ d.init = "present" /\ d = Base
  <2>1. file \in Document \cup {NoDocument} /\ (file # NoDocument => Coherent(file))
    BY DEF DocInv, DocTypeOK
  <2>2. file \in Document /\ d = Normalized(file, NoJob) /\ d \in Document /\ Coherent(d)
    BY <1>1, <2>1, LoadIs
  <2>3. d.init = file.init
    BY <2>2, NormalizedIs
  <2>4. file.init = "present" /\ d = Base
    BY <1>1 DEF Loadable, Base
  <2> QED BY <2>2, <2>3, <2>4
<1>3. j \in JobsOf(d, c) /\ job \in Job
  <2> HIDE DEF d
  <2> QED BY <1>1, <1>2, CurrentIs
<1>4. S \in SUBSET Services
  <2> HIDE DEF job
  <2> QED BY <1>3, BindingsTypes
<1>5. now \in Seq(Identity) /\ after \in Exposure
  <2> HIDE DEF d, S, job
  <2> QED BY <1>1, <1>2, <1>3, <1>4, ServicesNow, PlanTypes
<1>6. /\ ~ Blocked(d, c, S)
      /\ readback' = readback /\ last' = last /\ changes' = changes
      /\ \/ file' = file /\ config' = config
         \/ WriteConfig(c, after) /\ file' = Normalized(x, NoJob)
  BY DEF Repair, Rewritten
<1>7. /\ x \in Document /\ x.init = "present" /\ x.clients = d.clients /\ repaired \in Job
      /\ x.jobs = [d.jobs EXCEPT ![j] = repaired]
      /\ x.current = d.current \/ x.current = j
      /\ Grown(d, c, x)
      /\ IF c = Pi
         THEN \A v \in {now[k].service : k \in 1 .. Len(now)} :
                \E k \in 1 .. Len(now) :
                   /\ now[k].service = v
                   /\ x.services[v] = Activated(d, c, now[k])
         ELSE x.services = d.services
  <2>1. x = IF c = Pi THEN ActivationToState(d, c, now, j, after) ELSE Repaired(d, j, now, after)
    BY DEF Rewritten
  <2>2. j \in Jobs
    <3> HIDE DEF j, d
    <3> QED BY <1>3 DEF JobsOf
  <2> HIDE DEF x, d, j, job, S, now, after
  <2>3. CASE c = Pi
    <3>1. x = ActivationToState(d, c, now, j, after)
      BY <2>1, <2>3
    <3>2. /\ x \in Document /\ x.init = "present" /\ x.clients = d.clients /\ repaired \in Job
          /\ x.jobs = [d.jobs EXCEPT ![j] = repaired]
          /\ x.current = j
      BY <1>2, <1>5, <2>2, <3>1, ActivationIs, SMTT(60)
    <3>3. Installed(d, c, now, BindingsOf(repaired), x)
      BY <1>2, <1>5, <2>2, <3>1, ActivationIs
    <3>4. BindingsOf(repaired) = {now[k].service : k \in 1 .. Len(now)}
      BY DEF BindingsOf
    <3>5. Grown(d, c, x)
      BY <1>2, <1>5, <2>2, <3>1, ActivationGrows
    <3> HIDE DEF repaired
    <3> QED BY <2>3, <3>2, <3>3, <3>4, <3>5 DEF Installed
  <2>4. CASE c # Pi
    <3>1. x = Repaired(d, j, now, after)
      BY <2>1, <2>4
    <3>2. /\ x \in Document /\ x.init = "present" /\ x.clients = d.clients /\ repaired \in Job
          /\ x.jobs = [d.jobs EXCEPT ![j] = repaired]
          /\ x.current = d.current
          /\ x.services = d.services /\ x.decisions = d.decisions
      BY <1>2, <1>3, <1>5, <3>1, RepairedIs
    <3>3. Grown(d, c, x)
      BY <3>2 DEF Grown
    <3> HIDE DEF repaired
    <3> QED BY <2>4, <3>2, <3>3
  <2> QED BY <2>3, <2>4
<1> HIDE DEF x, d, j, job, S, now, after
<1>8. x.jobs[j] = repaired /\ repaired # NoJob /\ j \in Jobs
  <2>1. j \in Jobs
    BY <1>3 DEF JobsOf
  <2> HIDE DEF repaired
  <2> QED BY <1>2, <1>7, <2>1, NamesAssumption DEF Document
<1>9. repaired.client = c /\ d.jobs[j].client = c /\ d.jobs[j] # NoJob
  BY <1>3 DEF JobsOf
<1> HIDE DEF repaired
<1>10. \A i \in Jobs : /\ d.jobs[i] # NoJob <=> x.jobs[i] # NoJob
                       /\ x.jobs[i].client = d.jobs[i].client
  BY <1>2, <1>7, <1>8, <1>9 DEF Document
<1>11. Coherent(x)
  <2>1. x.current = d.current \/ x.jobs[x.current] # NoJob
    BY <1>7, <1>8
  <2> QED BY <1>2, <1>7, <1>10, <2>1, MoreJobs
<1>12. \A o \in Clients : JobsOf(d, o) = JobsOf(x, o)
  BY <1>10 DEF JobsOf
<1> QED BY <1>2, <1>3, <1>4, <1>5, <1>6, <1>7, <1>11, <1>12 DEF x, d, j, job, S, now, after, repaired

(* What RepairMissing writes: the first job there is.                      *)
LEMMA RepairMissingIs ==
  ASSUME DocInv, NEW c \in Clients, NEW q \in Selections, NEW j \in Jobs,
         RepairMissing(c, q, j)
  PROVE  \E x \in Document :
            /\ file' = Normalized(x, j) /\ Coherent(x) /\ x.init = "present"
            /\ j \in JobsOf(x, c)
            /\ \A o \in Clients : last[o] = NoJob
            /\ last' = [last EXCEPT ![c] = j]
            /\ config' = config /\ readback' = readback /\ changes' = changes
<1> DEFINE
      selected == [k \in 1 .. Len(q) |-> OnRecord(file, q[k])]
      digest == Before(file, c, Recorded(file))
      job == [client |-> c, selected |-> selected, digest |-> digest]
      x == [file EXCEPT !.init = "present", !.status = "in_progress",
                        !.jobs[j] = job, !.current = j]
<1>1. /\ DocTypeOK /\ q \in Seq(Services) /\ file \in Document /\ Coherent(file)
      /\ ~ Loadable(file) /\ {q[k] : k \in 1 .. Len(q)} = Recorded(file)
      /\ file' = Normalized(x, j) /\ last' = [last EXCEPT ![c] = j]
      /\ config' = config /\ readback' = readback /\ changes' = changes
  BY SelectionAssumption DEF RepairMissing, DocInv, DocTypeOK
<1>2. selected \in Seq(Identity)
  <2>1. \A k \in 1 .. Len(q) : q[k] \in Recorded(file)
    BY <1>1
  <2>2. \A k \in 1 .. Len(q) : OnRecord(file, q[k]) \in Identity
    BY <1>1, <2>1, RecordTypes
  <2>3. selected \in [1 .. Len(q) -> Identity] /\ Len(q) \in Nat
    BY <1>1, <2>2
  <2> HIDE DEF selected
  <2> QED BY <2>3, FromFunction
<1>3. digest \in Exposure
  <2>1. Recorded(file) \in SUBSET Services
    BY DEF Recorded
  <2> QED BY <1>1, <2>1, PlanTypes
<1>4. job \in Job
  <2> HIDE DEF selected, digest
  <2> QED BY <1>2, <1>3 DEF Job
<1>5. job.client = c
  OBVIOUS
<1> HIDE DEF selected, digest, job
<1> DEFINE jobs == [file.jobs EXCEPT ![j] = job]
<1>6. jobs \in [Jobs -> Job \cup {NoJob}] /\ jobs[j] = job /\ job # NoJob
  BY <1>1, <1>4, NamesAssumption DEF Document
<1>7. \A i \in Jobs : i # j => jobs[i] = file.jobs[i]
  BY <1>1 DEF Document
<1>8. x = [file EXCEPT !.init = "present", !.status = "in_progress",
                       !.jobs = jobs, !.current = j]
  BY <1>1 DEF Document
<1> HIDE DEF jobs
<1>9. /\ x \in Document /\ x.init = "present" /\ x.current = j /\ x.jobs = jobs
      /\ x.clients = file.clients
  BY <1>1, <1>6, <1>8 DEF Document
<1> HIDE DEF x
<1>10. \A o \in Clients : last[o] = NoJob
  BY <1>1 DEF DocInv, LastKnown
<1>11. \A i \in Jobs : file.jobs[i] = NoJob
  BY <1>1, LegacyAssumption, NamesAssumption DEF DocInv, OnlyOlder
<1>12. Coherent(x)
  <2>1. x.current = file.current \/ x.jobs[x.current] # NoJob
    BY <1>6, <1>9
  <2> QED BY <1>1, <1>9, <1>11, <2>1, MoreJobs
<1>13. j \in JobsOf(x, c)
  BY <1>5, <1>6, <1>9 DEF JobsOf
<1> QED BY <1>1, <1>9, <1>10, <1>12, <1>13

(* A decision and a status are of no matter to the jobs.                   *)
LEMMA InvByFile ==
  ASSUME NEW x \in Document, Coherent(x), x.init = "present", file' = x,
         config' \in [Clients -> Exposure], readback' \in [Services -> Readback],
         changes' \in 0 .. MaxChanges, last' \in [Clients -> Jobs \cup {NoJob}],
         \A c \in Clients : last'[c] # NoJob => last'[c] \in JobsOf(x, c)
  PROVE  DocInv'
<1>1. x # NoDocument
  BY NamesAssumption
<1>2. Loadable(x)
  BY <1>1 DEF Loadable
<1>3. DocTypeOK'
  BY DEF DocTypeOK
<1>4. LastKnown' /\ OnlyOlder'
  BY <1>2 DEF LastKnown, OnlyOlder
<1> QED BY <1>3, <1>4 DEF DocInv

LEMMA MayReadIs ==
  ASSUME DocInv, MayRead
  PROVE  /\ Load(file) = Base /\ Base \in Document /\ Coherent(Base) /\ Base.init = "present"
         /\ \A c \in Clients : last[c] # NoJob => last[c] \in JobsOf(Base, c)
<1>1. Load(file) = Base
  BY DEF MayRead, Base, Load, Loadable
<1>2. Base.init = "present"
  <2>1. CASE Loadable(file)
    <3>1. file \in Document /\ Base = Normalized(file, NoJob) /\ file.init = "present"
      BY <2>1 DEF DocInv, DocTypeOK, Base, Load, Loadable
    <3> QED BY <3>1, NormalizedIs
  <2>2. CASE ~ Loadable(file)
    BY <2>2 DEF Base, DefaultState
  <2> QED BY <2>1, <2>2
<1> QED BY <1>1, <1>2, BaseIs

(* The gateway and the user leave the document as it is.                   *)
LEMMA InvByOthers ==
  ASSUME DocInv, file' = file, last' = last,
         config' \in [Clients -> Exposure], readback' \in [Services -> Readback],
         changes' \in 0 .. MaxChanges
  PROVE  DocInv'
<1>1. DocTypeOK'
  BY DEF DocInv, DocTypeOK
<1> QED BY <1>1 DEF DocInv, LastKnown, OnlyOlder

LEMMA ChangeTypes ==
  ASSUME DocTypeOK, Change
  PROVE  changes' \in 0 .. MaxChanges
BY BoundAssumption DEF DocTypeOK, Change

LEMMA TakeBackTypes ==
  ASSUME DocTypeOK, NEW c \in Clients, NEW v \in Services, TakeBack(c, v)
  PROVE  config' \in [Clients -> Exposure]
BY DEF DocTypeOK, TakeBack, Exposure, Entry

LEMMA DocInitInv == DocInit => DocInv
<1> SUFFICES ASSUME DocInit PROVE DocInv
  OBVIOUS
<1>1. DocTypeOK
  BY BoundAssumption, FoundAssumption, LegacyAssumption
     DEF DocInit, DocTypeOK, Exposure, Entry
<1>2. OnlyOlder /\ LastKnown
  BY DEF DocInit, OnlyOlder, LastKnown
<1>3. ASSUME file # NoDocument PROVE Coherent(file)
  <2>1. file \in Document /\ file.current = NoJob /\ file.clients = [c \in Clients |-> NoState]
    BY <1>3, LegacyAssumption DEF DocInit
  <2> QED BY <2>1 DEF Coherent
<1> QED BY <1>1, <1>2, <1>3 DEF DocInv

(* Every operation keeps the invariant.                                    *)
LEMMA DocNextInv == DocInv /\ [DocNext]_docVars => DocInv'
<1> SUFFICES ASSUME DocInv, [DocNext]_docVars PROVE DocInv'
  OBVIOUS
<1>0. /\ DocTypeOK /\ config \in [Clients -> Exposure] /\ readback \in [Services -> Readback]
      /\ changes \in 0 .. MaxChanges /\ last \in [Clients -> Jobs \cup {NoJob}]
  BY DEF DocInv, DocTypeOK
<1>1. ASSUME NEW c \in Clients, NEW q \in Selections, NEW j \in Jobs, Activate(c, q, j)
      PROVE  DocInv'
  <2>1. PICK x \in Document, after \in Exposure :
           /\ file' = Normalized(x, j) /\ Coherent(x) /\ x.init = "present"
           /\ j \in JobsOf(x, c) /\ \A o \in Clients : JobsOf(Base, o) \subseteq JobsOf(x, o)
           /\ WriteConfig(c, after)
    BY <1>1, ActivateIs
  <2>2. last' = [last EXCEPT ![c] = j] /\ readback' = readback /\ changes' = changes
    BY <1>1 DEF Activate
  <2>3. config' \in [Clients -> Exposure]
    BY <1>0, <2>1, ConfigTypes
  <2>4. \A o \in Clients : last'[o] # NoJob => last'[o] \in JobsOf(x, o)
    BY <1>0, <2>1, <2>2, BaseIs
  <2>5. last' \in [Clients -> Jobs \cup {NoJob}]
    BY <1>0, <2>2
  <2> QED BY <1>0, <2>1, <2>2, <2>3, <2>4, <2>5, InvByDocument
<1>2. ASSUME NEW c \in Clients, NEW q \in Selections, NEW j \in Jobs, RepairMissing(c, q, j)
      PROVE  DocInv'
  <2>1. PICK x \in Document :
            /\ file' = Normalized(x, j) /\ Coherent(x) /\ x.init = "present"
            /\ j \in JobsOf(x, c)
            /\ \A o \in Clients : last[o] = NoJob
            /\ last' = [last EXCEPT ![c] = j]
            /\ config' = config /\ readback' = readback /\ changes' = changes
    BY <1>2, RepairMissingIs
  <2>2. \A o \in Clients : last'[o] # NoJob => last'[o] \in JobsOf(x, o)
    BY <1>0, <2>1
  <2>3. last' \in [Clients -> Jobs \cup {NoJob}]
    BY <1>0, <2>1
  <2> QED BY <1>0, <2>1, <2>2, <2>3, InvByDocument
<1>3. ASSUME NEW S \in Decided, Decide(S) PROVE DocInv'
  <2> DEFINE
        d == Base
        decisions == [v \in Services |-> IF v \in S THEN "off" ELSE d.decisions[v]]
        x == [d EXCEPT !.decisions = decisions, !.status = "initialized"]
  <2>1. /\ Load(file) = d /\ d \in Document /\ Coherent(d) /\ d.init = "present"
        /\ \A c \in Clients : last[c] # NoJob => last[c] \in JobsOf(d, c)
    BY <1>3, MayReadIs DEF Decide
  <2>2. file' = x /\ config' = config /\ readback' = readback /\ last' = last /\ Change
    BY <1>3, <2>1 DEF Decide
  <2> HIDE DEF d
  <2>3. decisions \in [Services -> {"none", "accepted", "off"}]
    BY <2>1 DEF Document
  <2> HIDE DEF decisions
  <2>4. /\ x \in Document /\ x.init = "present" /\ x.clients = d.clients
        /\ x.jobs = d.jobs /\ x.current = d.current
    BY <2>1, <2>3 DEF Document
  <2> HIDE DEF x
  <2>5. Coherent(x) /\ \A c \in Clients : JobsOf(d, c) \subseteq JobsOf(x, c)
    BY <2>1, <2>4, MoreJobs
  <2>6. changes' \in 0 .. MaxChanges
    BY <1>0, <2>2, ChangeTypes
  <2> QED BY <1>0, <2>1, <2>2, <2>4, <2>5, <2>6, InvByFile
<1>4. ASSUME NEW c \in Clients, NEW v \in Services, Disable(c, v) PROVE DocInv'
  <2> DEFINE
        d == Base
        x == [d EXCEPT !.decisions[v] = "off"]
  <2>1. /\ Load(file) = d /\ d \in Document /\ Coherent(d) /\ d.init = "present"
        /\ \A o \in Clients : last[o] # NoJob => last[o] \in JobsOf(d, o)
    BY <1>4, MayReadIs DEF Disable
  <2>2. file' = x /\ readback' = readback /\ last' = last /\ Change /\ TakeBack(c, v)
    BY <1>4, <2>1 DEF Disable
  <2> HIDE DEF d
  <2>4. /\ x \in Document /\ x.init = "present" /\ x.clients = d.clients
        /\ x.jobs = d.jobs /\ x.current = d.current
    BY <2>1 DEF Document
  <2> HIDE DEF x
  <2>5. Coherent(x) /\ \A o \in Clients : JobsOf(d, o) \subseteq JobsOf(x, o)
    BY <2>1, <2>4, MoreJobs
  <2>6. changes' \in 0 .. MaxChanges /\ config' \in [Clients -> Exposure]
    BY <1>0, <2>2, ChangeTypes, TakeBackTypes
  <2> QED BY <1>0, <2>1, <2>2, <2>4, <2>5, <2>6, InvByFile
<1>5. ASSUME NEW c \in Clients, NEW v \in Services, Remove(c, v) PROVE DocInv'
  <2> DEFINE
        d == Base
        x == [d EXCEPT !.services[v] = NoRecord, !.decisions[v] = "none"]
  <2>1. /\ Load(file) = d /\ d \in Document /\ Coherent(d) /\ d.init = "present"
        /\ \A o \in Clients : last[o] # NoJob => last[o] \in JobsOf(d, o)
    BY <1>5, MayReadIs DEF Remove
  <2>2. /\ file' = Normalized(x, NoJob) /\ readback' = readback /\ last' = last
        /\ Change /\ TakeBack(c, v)
    BY <1>5, <2>1 DEF Remove
  <2> HIDE DEF d
  <2>4. /\ x \in Document /\ x.init = "present" /\ x.clients = d.clients
        /\ x.jobs = d.jobs /\ x.current = d.current
    BY <2>1 DEF Document
  <2> HIDE DEF x
  <2>5. Coherent(x) /\ \A o \in Clients : JobsOf(d, o) \subseteq JobsOf(x, o)
    BY <2>1, <2>4, MoreJobs
  <2>6. changes' \in 0 .. MaxChanges /\ config' \in [Clients -> Exposure]
    BY <1>0, <2>2, ChangeTypes, TakeBackTypes
  <2> QED BY <1>0, <2>1, <2>2, <2>4, <2>5, <2>6, InvByDocument
<1>6. ASSUME NEW c \in Clients, Repair(c) PROVE DocInv'
  <2>1. readback' = readback /\ last' = last /\ changes' = changes
    BY <1>6 DEF Repair
  <2>2. \/ file' = file /\ config' = config
        \/ \E x \in Document, after \in Exposure :
              /\ WriteConfig(c, after)
              /\ file' = Normalized(x, NoJob)
              /\ Coherent(x) /\ x.init = "present"
              /\ \A o \in Clients : JobsOf(Base, o) = JobsOf(x, o)
    BY <1>6, RepairIs
  <2>3. CASE file' = file /\ config' = config
    BY <1>0, <2>1, <2>3, InvByOthers
  <2>4. ASSUME NEW x \in Document, NEW after \in Exposure,
               WriteConfig(c, after), file' = Normalized(x, NoJob),
               Coherent(x), x.init = "present",
               \A o \in Clients : JobsOf(Base, o) = JobsOf(x, o)
        PROVE  DocInv'
    <3>1. config' \in [Clients -> Exposure]
      BY <1>0, <2>4, ConfigTypes
    <3>2. \A o \in Clients : last'[o] # NoJob => last'[o] \in JobsOf(x, o)
      BY <2>1, <2>4, BaseIs
    <3> QED BY <1>0, <2>1, <2>4, <3>1, <3>2, InvByDocument
  <2> QED BY <2>2, <2>3, <2>4
<1>7. ASSUME NEW v \in Services, NEW r \in Readback, Reregister(v, r) PROVE DocInv'
  <2>1. /\ readback' = [readback EXCEPT ![v] = r] /\ Change
        /\ file' = file /\ config' = config /\ last' = last
    BY <1>7 DEF Reregister
  <2>2. changes' \in 0 .. MaxChanges /\ readback' \in [Services -> Readback]
    BY <1>0, <2>1, ChangeTypes
  <2> QED BY <1>0, <2>1, <2>2, InvByOthers
<1>8. ASSUME NEW c \in Clients, NEW v \in Services, NEW e \in {"none", "foreign"}, Edit(c, v, e)
      PROVE  DocInv'
  <2>1. /\ config' = [config EXCEPT ![c][v] = e] /\ Change
        /\ file' = file /\ readback' = readback /\ last' = last
    BY <1>8 DEF Edit
  <2>2. config' \in [Clients -> Exposure]
    BY <1>0, <2>1 DEF Exposure, Entry
  <2>3. changes' \in 0 .. MaxChanges
    BY <1>0, <2>1, ChangeTypes
  <2> QED BY <1>0, <2>1, <2>2, <2>3, InvByOthers
<1>9. CASE UNCHANGED docVars
  BY <1>0, <1>9, InvByOthers DEF docVars
<1> QED BY <1>1, <1>2, <1>3, <1>4, <1>5, <1>6, <1>7, <1>8, <1>9 DEF DocNext

(* A client with jobs is read as its latest one leaves it.                 *)
LEMMA ReadsJob ==
  ASSUME NEW f \in Document, Loadable(f), NEW c \in Clients, JobsOf(f, c) # {}
  PROVE  LET d == Load(f)
             j == Latest(f, c, NoJob)
         IN  /\ JobsOf(d, c) = JobsOf(f, c) /\ d.jobs = f.jobs
             /\ j \in JobsOf(f, c) /\ \A i \in JobsOf(f, c) : i <= j
             /\ d.clients[c] = FromJob(f, j) /\ d.clients[c] # NoState
             /\ d.clients[c].status = "reload_required"
             /\ CurrentJob(d, c) = j
<1> DEFINE
      d == Load(f)
      j == Latest(f, c, NoJob)
<1>1. d = Normalized(f, NoJob)
  BY NamesAssumption DEF Load
<1>2. /\ d.jobs = f.jobs /\ d.clients[c] = Reading(f, c, NoJob)
      /\ Reading(f, c, NoJob) \in ClientState \cup {NoState}
  BY <1>1, NormalizedIs, ReadingTypes
<1>3. JobsOf(d, c) = JobsOf(f, c)
  BY <1>2 DEF JobsOf
<1>4. NoJob \notin JobsOf(f, c) /\ JobsOf(f, c) \subseteq Jobs
  BY JobAssumption DEF JobsOf
<1>5. j \in JobsOf(f, c) /\ \A i \in JobsOf(f, c) : i <= j
  BY <1>4, LatestIs
<1>6. d.clients[c] = FromJob(f, j)
  BY <1>2 DEF Reading
<1> HIDE DEF d, j
<1>7. f.jobs[j] \in Job /\ j \in Jobs /\ j # NoJob
  BY <1>4, <1>5 DEF JobsOf, Document
<1>8. FromJob(f, j) \in ClientState /\ FromJob(f, j).job = j
      /\ FromJob(f, j).status = "reload_required"
  <2>1. BindingsOf(f.jobs[j]) \in SUBSET Services
    BY <1>7, BindingsTypes
  <2> QED BY <1>7, <2>1 DEF FromJob, ClientState
<1>9. d.clients[c] # NoState
  BY <1>6, <1>8, NamesAssumption
<1>10. CurrentJob(d, c) = j
  BY <1>6, <1>7, <1>8, <1>9 DEF CurrentJob
<1> QED BY <1>2, <1>3, <1>5, <1>6, <1>8, <1>9, <1>10 DEF d, j

(* The invariant holds from every file that an older helper may have left, *)
(* through every operation.                                                *)
THEOREM DocInvariance == DocSpec => []DocInv
<1>1. DocInit => DocInv
  BY DocInitInv
<1>2. DocInv /\ [DocNext]_docVars => DocInv'
  BY DocNextInv
<1> QED BY <1>1, <1>2, PTL DEF DocSpec

(* What the file says is a document, whatever the gateway said and however *)
(* often it was written and read.                                          *)
THEOREM DocumentTypes == DocSpec => []DocTypeOK
<1>1. DocInv => DocTypeOK
  BY DEF DocInv
<1> QED BY <1>1, DocInvariance, PTL

(* No prompt of the start-up hook is silent while the helper has a job of  *)
(* the client to resume.                                                   *)
THEOREM NoSilentWork == DocSpec => []HookTellsOfWork
<1>1. DocInv => HookTellsOfWork
  <2> SUFFICES ASSUME DocInv, Loadable(file), NEW c \in Clients,
                      Resume(Load(file), c) # "nothing"
               PROVE  Recommended(Load(file), c) = "resume"
    BY DEF HookTellsOfWork
  <2> DEFINE d == Load(file)
  <2>1. HasCurrentJob(d, c)
    BY DEF Resume
  <2>2. file \in Document /\ Coherent(file) /\ d \in Document /\ Coherent(d)
    <3>1. file \in Document /\ Coherent(file)
      BY DEF DocInv, DocTypeOK, Loadable
    <3> QED BY <3>1, LoadIs
  <2>3. JobsOf(d, c) # {}
    <3> HIDE DEF d
    <3> QED BY <2>1, <2>2, CurrentIs
  <2>4. JobsOf(file, c) # {}
    <3>1. d.jobs = file.jobs
      BY <2>2, LoadIs, NormalizedIs
    <3> HIDE DEF d
    <3> QED BY <2>3, <3>1 DEF JobsOf
  <2>5. d.clients[c] # NoState /\ d.clients[c].status = "reload_required"
    BY <2>2, <2>4, ReadsJob
  <2> HIDE DEF d
  <2>6. Waits(d, c) /\ HookPrompt(d, c) = "active"
    BY <2>5 DEF Waits, HookPrompt
  <2> QED BY <2>6 DEF Recommended, d
<1> QED BY <1>1, DocInvariance, PTL

(* A reader takes the latest job of a client for its current one, or one   *)
(* that sorts behind it.                                                   *)
THEOREM LatestIsCurrent == DocSpec => []CurrentIsLatestUnlessSorted
<1>1. DocInv => CurrentIsLatestUnlessSorted
  <2> SUFFICES ASSUME DocInv, Loadable(file), NEW c \in Clients, last[c] # NoJob
               PROVE  LET d == Load(file)
                      IN  \/ CurrentJob(d, c) = last[c]
                          \/ \E j \in JobsOf(d, c) : j > last[c]
    BY DEF CurrentIsLatestUnlessSorted
  <2>1. file \in Document /\ last[c] \in JobsOf(file, c)
    BY DEF DocInv, DocTypeOK, Loadable, LastKnown
  <2>2. /\ JobsOf(Load(file), c) = JobsOf(file, c)
        /\ Latest(file, c, NoJob) \in JobsOf(file, c)
        /\ last[c] <= Latest(file, c, NoJob)
        /\ CurrentJob(Load(file), c) = Latest(file, c, NoJob)
    BY <2>1, ReadsJob
  <2>3. JobsOf(file, c) \subseteq Nat
    BY JobAssumption DEF JobsOf
  <2>4. CASE Latest(file, c, NoJob) = last[c]
    BY <2>2, <2>4
  <2>5. CASE Latest(file, c, NoJob) # last[c]
    <3>1. Latest(file, c, NoJob) > last[c]
      BY <2>1, <2>2, <2>3, <2>5
    <3> QED BY <2>2, <3>1
  <2> QED BY <2>4, <2>5
<1> QED BY <1>1, DocInvariance, PTL

-------------------------------------------------------------------------------
(* What an operation for one client leaves to the others.                  *)

(* Two documents that are alike as far as a client goes.                   *)
AlikeFor(d, e, o) ==
    /\ JobsOf(d, o) = JobsOf(e, o)
    /\ \A j \in JobsOf(d, o) : d.jobs[j] = e.jobs[j]
    /\ ServicesOn(d, o) = ServicesOn(e, o)
    /\ \A v \in ServicesOn(d, o) : d.services[v].on[o] = e.services[v].on[o]
    /\ JobsOf(d, o) = {} /\ ServicesOn(d, o) = {} => d.clients[o] = e.clients[o]

LEMMA AlikeRead ==
  ASSUME NEW d \in Document, NEW e \in Document, NEW o \in Clients, AlikeFor(d, e, o)
  PROVE  Reading(d, o, NoJob) = Reading(e, o, NoJob)
<1>1. CASE JobsOf(d, o) # {}
  <2>1. Latest(d, o, NoJob) = Latest(e, o, NoJob) /\ Latest(d, o, NoJob) \in JobsOf(d, o)
    BY <1>1, LatestIs DEF AlikeFor, Latest
  <2>2. d.jobs[Latest(d, o, NoJob)] = e.jobs[Latest(e, o, NoJob)]
    BY <2>1 DEF AlikeFor
  <2>3. FromJob(d, Latest(d, o, NoJob)) = FromJob(e, Latest(e, o, NoJob))
    BY <2>1, <2>2 DEF FromJob
  <2> QED BY <1>1, <2>3 DEF Reading, AlikeFor
<1>2. CASE JobsOf(d, o) = {} /\ ServicesOn(d, o) # {}
  <2>1. {d.services[v].on[o] : v \in ServicesOn(d, o)}
          = {e.services[v].on[o] : v \in ServicesOn(e, o)}
    BY DEF AlikeFor
  <2>2. FromServices(d, o) = FromServices(e, o)
    BY <2>1 DEF FromServices, AlikeFor
  <2> QED BY <1>2, <2>2 DEF Reading, AlikeFor
<1>3. CASE JobsOf(d, o) = {} /\ ServicesOn(d, o) = {}
  BY <1>3 DEF Reading, AlikeFor
<1> QED BY <1>1, <1>2, <1>3

LEMMA ServicesOnIs ==
  ASSUME NEW d \in Document, NEW e \in Document, e.services = d.services, NEW o \in Clients
  PROVE  ServicesOn(e, o) = ServicesOn(d, o)
BY DEF ServicesOn

(* Reading what was read says the same again.                              *)
LEMMA ReadTwice ==
  ASSUME NEW d \in Document, NEW o \in Clients
  PROVE  LET n == Normalized(d, NoJob)
         IN  n.clients[o] = Reading(n, o, NoJob)
<1> DEFINE n == Normalized(d, NoJob)
<1>1. /\ n \in Document /\ n.jobs = d.jobs /\ n.services = d.services
      /\ n.clients[o] = Reading(d, o, NoJob)
  BY NormalizedIs
<1> HIDE DEF n
<1>2. JobsOf(d, o) = JobsOf(n, o) /\ ServicesOn(d, o) = ServicesOn(n, o)
  BY <1>1, ServicesOnIs DEF JobsOf
<1>3. JobsOf(d, o) = {} /\ ServicesOn(d, o) = {} => d.clients[o] = n.clients[o]
  BY <1>1 DEF Reading
<1>4. AlikeFor(d, n, o)
  BY <1>1, <1>2, <1>3 DEF AlikeFor
<1>5. Reading(d, o, NoJob) = Reading(n, o, NoJob)
  BY <1>1, <1>4, AlikeRead
<1> QED BY <1>1, <1>5 DEF n

(* A document that is loaded, written and loaded again says the same: the  *)
(* reading of a state file settles at once (load_state, on every load).    *)
THEOREM LoadTwice ==
  ASSUME NEW d \in Document
  PROVE  Load(Load(d)) = Load(d)
<1> DEFINE n == Normalized(d, NoJob)
<1>1. Load(d) = n /\ n \in Document /\ \A c \in Clients : n.clients[c] = Reading(n, c, NoJob)
  BY NormalizedIs, ReadTwice, NamesAssumption DEF Load
<1> HIDE DEF n
<1> DEFINE m == Normalized(n, NoJob)
<1>2. Load(n) = m
  BY <1>1, NamesAssumption DEF Load
<1>3. /\ m \in Document
      /\ m.init = n.init /\ m.status = n.status /\ m.services = n.services
      /\ m.decisions = n.decisions /\ m.jobs = n.jobs /\ m.current = n.current
      /\ \A c \in Clients : m.clients[c] = n.clients[c]
  BY <1>1, NormalizedIs
<1> HIDE DEF m
<1>4. m.clients = n.clients
  BY <1>1, <1>3 DEF Document
<1>5. m = n
  BY <1>1, <1>3, <1>4 DEF Document
<1> QED BY <1>1, <1>2, <1>5

(* Records grown for c say what they said of any other client.             *)
LEMMA GrownServices ==
  ASSUME NEW d \in Document, NEW x \in Document, NEW c \in Clients, Grown(d, c, x),
         NEW v \in Services, NEW o \in Clients
  PROVE  /\ v \in ServicesOn(d, o) => v \in ServicesOn(x, o)
         /\ o # c => /\ v \in ServicesOn(x, o) => v \in ServicesOn(d, o)
                     /\ v \in ServicesOn(d, o) => x.services[v].on[o] = d.services[v].on[o]
<1>1. CASE x.services[v] = d.services[v]
  BY <1>1 DEF ServicesOn
<1>2. CASE x.services[v] # d.services[v]
  <2>1. PICK i \in Identity : i.service = v /\ x.services[v] = Activated(d, c, i)
    BY <1>2 DEF Grown
  <2>2. x.services[v] \in Record /\ x.services[v] # NoRecord
    BY <2>1, ActivatedTypes, NamesAssumption
  <2>3. x.services[v].on[o] = IF o = c THEN "installed"
                              ELSE IF d.services[v] = NoRecord THEN "none"
                              ELSE d.services[v].on[o]
    BY <2>1 DEF Activated
  <2> QED BY <2>2, <2>3 DEF ServicesOn
<1> QED BY <1>1, <1>2

(* An operation for c, and what is read afterwards.                        *)
LEMMA GrownKeeps ==
  ASSUME NEW d \in Document, NEW x \in Document, NEW c \in Clients, NEW j \in Jobs,
         NEW job \in Job, NEW added,
         x.clients = d.clients, x.jobs = [d.jobs EXCEPT ![j] = job], job.client = c,
         d.jobs[j] = NoJob \/ d.jobs[j].client = c,
         Grown(d, c, x),
         \A o \in Clients : d.clients[o] = Reading(d, o, NoJob)
  PROVE  LET f == Normalized(x, added)
             e == Normalized(f, NoJob)
         IN  /\ \A o \in Clients \ {c} : e.clients[o] = d.clients[o]
             /\ Imported(d) \subseteq Imported(e)
<1> DEFINE
      f == Normalized(x, added)
      e == Normalized(f, NoJob)
<1>1. /\ f \in Document /\ f.jobs = x.jobs /\ f.services = x.services
      /\ f.decisions = x.decisions
      /\ \A o \in Clients : f.clients[o] = Reading(x, o, added)
  BY NormalizedIs
<1>2. /\ e \in Document /\ e.services = x.services /\ e.decisions = x.decisions
      /\ \A o \in Clients : e.clients[o] = Reading(f, o, NoJob)
  <2> HIDE DEF f
  <2> QED BY <1>1, NormalizedIs
<1> HIDE DEF e, f
<1>3. ASSUME NEW o \in Clients \ {c} PROVE e.clients[o] = d.clients[o]
  <2>1. /\ JobsOf(d, o) = JobsOf(x, o) /\ JobsOf(f, o) = JobsOf(x, o)
        /\ \A i \in JobsOf(d, o) : d.jobs[i] = x.jobs[i]
    <3>1. \A i \in Jobs : /\ i # j => x.jobs[i] = d.jobs[i]
                          /\ i = j => x.jobs[i] = job /\ job # NoJob
      BY NamesAssumption DEF Document
    <3> QED BY <1>1, <3>1 DEF JobsOf
  <2>2. /\ ServicesOn(d, o) = ServicesOn(x, o) /\ ServicesOn(f, o) = ServicesOn(x, o)
        /\ \A v \in ServicesOn(d, o) : d.services[v].on[o] = x.services[v].on[o]
    <3>1. ServicesOn(d, o) \subseteq Services /\ ServicesOn(x, o) \subseteq Services
      BY DEF ServicesOn
    <3>2. \A v \in Services :
             /\ v \in ServicesOn(d, o) <=> v \in ServicesOn(x, o)
             /\ v \in ServicesOn(d, o) => x.services[v].on[o] = d.services[v].on[o]
      BY GrownServices
    <3>3. ServicesOn(f, o) = ServicesOn(x, o)
      BY <1>1, ServicesOnIs
    <3> QED BY <3>1, <3>2, <3>3
  <2>3. JobsOf(d, o) = {} /\ ServicesOn(d, o) = {} => d.clients[o] = f.clients[o]
    <3>1. JobsOf(x, o) = {} /\ ServicesOn(x, o) = {} => f.clients[o] = x.clients[o]
      BY <1>1 DEF Reading
    <3> QED BY <2>1, <2>2, <3>1
  <2>4. AlikeFor(d, f, o)
    BY <1>1, <2>1, <2>2, <2>3 DEF AlikeFor
  <2>5. Reading(d, o, NoJob) = Reading(f, o, NoJob)
    BY <1>1, <2>4, AlikeRead
  <2> QED BY <1>2, <2>5
<1>4. ASSUME NEW v \in Imported(d) PROVE v \in Imported(e)
  <2>1. v \in Services /\ v \in ServicesOn(d, Pi) /\ d.decisions[v] # "off"
    BY DEF Imported, ServicesOn
  <2>2. v \in ServicesOn(e, Pi)
    <3>1. v \in ServicesOn(x, Pi)
      BY <2>1, GrownServices, ClientAssumption
    <3>2. ServicesOn(e, Pi) = ServicesOn(x, Pi)
      BY <1>2, ServicesOnIs, ClientAssumption
    <3> QED BY <3>1, <3>2
  <2>3. e.decisions[v] # "off"
    BY <1>2, <2>1 DEF Grown
  <2> QED BY <2>2, <2>3 DEF Imported
<1> QED BY <1>3, <1>4 DEF e, f

LEMMA OthersKeepByGrowth ==
  ASSUME DocInv, Loadable(file), NEW c \in Clients, NEW j \in Jobs, NEW job \in Job,
         NEW after \in Exposure, NEW x \in Document, NEW added,
         file' = Normalized(x, added), WriteConfig(c, after),
         x.clients = Base.clients, x.jobs = [Base.jobs EXCEPT ![j] = job], job.client = c,
         Base.jobs[j] = NoJob \/ Base.jobs[j].client = c,
         Grown(Base, c, x)
  PROVE  LET d == Load(file)
             e == Load(file')
         IN  /\ \A o \in Clients \ {c} : /\ e.clients[o] = d.clients[o]
                                         /\ config'[o] = config[o]
             /\ Imported(d) \subseteq Imported(e)
<1>1. Load(file) = Base /\ Base \in Document
  BY BaseIs DEF Base
<1>2. \A o \in Clients : Base.clients[o] = Reading(Base, o, NoJob)
  <2>1. file \in Document /\ Base = Normalized(file, NoJob)
    BY DEF DocInv, DocTypeOK, Base, Load, Loadable
  <2> QED BY <2>1, ReadTwice
<1>3. Load(file') = Normalized(Normalized(x, added), NoJob)
  <2>1. Normalized(x, added) \in Document
    BY NormalizedIs
  <2>2. file' # NoDocument
    BY <2>1, NamesAssumption
  <2> QED BY <2>2 DEF Load
<1>4. \A o \in Clients \ {c} : config'[o] = config[o]
  BY DEF WriteConfig, DocInv, DocTypeOK
<1>5. /\ \A o \in Clients \ {c} :
           Normalized(Normalized(x, added), NoJob).clients[o] = Base.clients[o]
      /\ Imported(Base) \subseteq Imported(Normalized(Normalized(x, added), NoJob))
  BY <1>1, <1>2, GrownKeeps
<1> QED BY <1>1, <1>3, <1>4, <1>5

(* Installing or repairing for one client leaves what every other client   *)
(* reads and has configured, and takes no service from the Pi extension.   *)
THEOREM OthersKept == DocSpec => OthersKeep
<1> DEFINE
      Kept(c) == LET d == Load(file)
                     e == Load(file')
                 IN  /\ \A o \in Clients \ {c} : /\ e.clients[o] = d.clients[o]
                                                 /\ config'[o] = config[o]
                     /\ Imported(d) \subseteq Imported(e)
<1>1. ASSUME DocInv, Loadable(file), NEW c \in Clients, NEW q \in Selections, NEW j \in Jobs,
             Activate(c, q, j)
      PROVE  Kept(c)
  <2> DEFINE job == [client |-> c, selected |-> Selected(q), digest |-> Planned(c, q)]
  <2>1. /\ Written(c, q, j) \in Document
        /\ Selected(q) \in Seq(Identity) /\ Planned(c, q) \in Exposure
        /\ file' = Normalized(Written(c, q, j), j) /\ WriteConfig(c, Planned(c, q))
        /\ Written(c, q, j).clients = Base.clients /\ Grown(Base, c, Written(c, q, j))
        /\ Base.jobs[j] = NoJob
        /\ Written(c, q, j).jobs = WithJob(Base, j, c, Selected(q), Planned(c, q))
    BY <1>1, ActivateIs
  <2>2. job \in Job /\ job.client = c
    BY <2>1 DEF Job
  <2>3. Written(c, q, j).jobs = [Base.jobs EXCEPT ![j] = job]
    BY <2>1 DEF WithJob
  <2> HIDE DEF job
  <2> QED BY <1>1, <2>1, <2>2, <2>3, OthersKeepByGrowth
<1>2. ASSUME DocInv, NEW c \in Clients, Repair(c)
      PROVE  Kept(c)
  <2>0. Loadable(file) /\ Load(file) = Base /\ Base \in Document
    BY <1>2, BaseIs DEF Repair, Base
  <2>1. CASE file' = file /\ config' = config
    BY <2>1
  <2>2. CASE ~ (file' = file /\ config' = config)
    <3> DEFINE
          d == Load(file)
          j == CurrentJob(d, c)
          selected == ServicesFromState(d, d.jobs[j])
          after == After(d, c, BindingsOf(d.jobs[j]))
          x == Rewritten(c)
          job == [client |-> c, selected |-> selected, digest |-> after]
    <3>1. /\ d = Base /\ j \in JobsOf(d, c)
          /\ x \in Document /\ selected \in Seq(Identity) /\ after \in Exposure
          /\ file' = Normalized(x, NoJob) /\ WriteConfig(c, after)
          /\ x.clients = d.clients /\ Grown(d, c, x)
          /\ x.jobs = [d.jobs EXCEPT ![j] =
                          [client |-> c, selected |-> selected, digest |-> after]]
      BY <1>2, <2>2, RepairIs
    <3> HIDE DEF d, j, selected, after, x
    <3>2. job \in Job /\ job.client = c
      BY <3>1 DEF Job
    <3>3. x.jobs = [Base.jobs EXCEPT ![j] = job]
      BY <3>1
    <3>4. j \in Jobs /\ Base.jobs[j].client = c
      BY <3>1 DEF JobsOf
    <3> HIDE DEF job
    <3> QED BY <1>2, <2>0, <3>1, <3>2, <3>3, <3>4, OthersKeepByGrowth
  <2> QED BY <2>1, <2>2
<1>3. ASSUME DocInv, [DocNext]_docVars, Loadable(file), NEW c \in Clients, last'[c] # last[c]
      PROVE  \E q \in Selections, j \in Jobs : Activate(c, q, j)
  <2>1. last \in [Clients -> Jobs \cup {NoJob}]
    BY <1>3 DEF DocInv, DocTypeOK
  <2>2. \E a \in Clients, q \in Selections, j \in Jobs : Activate(a, q, j)
    BY <1>3 DEF DocNext, docVars, RepairMissing, Decide, Disable, Remove, Repair, Reregister, Edit
  <2>3. PICK a \in Clients, q \in Selections, j \in Jobs : Activate(a, q, j)
    BY <2>2
  <2>4. last' = [last EXCEPT ![a] = j]
    BY <2>3 DEF Activate
  <2>5. a = c
    BY <1>3, <2>1, <2>4
  <2> QED BY <2>3, <2>5
<1>4. DocInv /\ [DocNext]_docVars
      => [\A c \in Clients :
            Loadable(file) /\ (last'[c] # last[c] \/ Repair(c)) => Kept(c)]_docVars
  <2> HIDE DEF Kept
  <2> QED BY <1>1, <1>2, <1>3
<1> QED BY <1>4, DocInvariance, PTL DEF DocSpec, OthersKeep

-------------------------------------------------------------------------------
(* What a repair that wrote leaves.                                        *)

(* The client's current job names its services as they are, those on       *)
(* record in front, and the client has them all.                           *)
AsTheyAre(d, selected) ==
    \E h \in Nat :
        /\ h <= Len(selected)
        /\ \A k \in 1 .. Len(selected) :
              /\ selected[k].service \in Recorded(d) <=> k <= h
              /\ selected[k] = IF k <= h THEN OnRecord(d, selected[k].service)
                               ELSE FromCatalog(selected[k].service)
Has(d, c, v) == IF c = Pi THEN v \in ServicesOn(d, Pi) ELSE config[c][v] = "owned"
Settled(c) ==
    LET d == Load(file)
        job == d.jobs[CurrentJob(d, c)]
    IN  /\ d \in Document /\ job \in Job
        /\ \A v \in BindingsOf(job) : Has(d, c, v)
        /\ AsTheyAre(d, job.selected)

(* There is nothing to repair then.                                        *)
NothingToRepair ==
    \A c \in Clients : Settled(c) => Resume(Load(file), c) # "repair"

LEMMA SettledHelps == DocTypeOK => NothingToRepair
<1> SUFFICES ASSUME DocTypeOK, NEW c \in Clients, Settled(c)
             PROVE  Resume(Load(file), c) # "repair"
  BY DEF NothingToRepair
<1> DEFINE
      d == Load(file)
      job == d.jobs[CurrentJob(d, c)]
      S == BindingsOf(job)
<1>1. /\ d \in Document /\ job \in Job /\ \A v \in S : Has(d, c, v)
      /\ AsTheyAre(d, job.selected)
  BY DEF Settled
<1>2. ServicesFromState(d, job) = job.selected
  <2> HIDE DEF d, job
  <2>1. PICK h \in Nat :
          /\ h <= Len(job.selected)
          /\ \A k \in 1 .. Len(job.selected) :
                /\ job.selected[k].service \in Recorded(d) <=> k <= h
                /\ job.selected[k] = IF k <= h THEN OnRecord(d, job.selected[k].service)
                                     ELSE FromCatalog(job.selected[k].service)
    BY <1>1 DEF AsTheyAre
  <2> QED BY <1>1, <2>1, ServicesStand
<1>3. S \in SUBSET Services
  <2> HIDE DEF job
  <2> QED BY <1>1, BindingsTypes
<1> HIDE DEF d, job, S
<1>4. Before(d, c, S) \in Exposure
  BY <1>1, <1>3, PlanTypes
<1>5. \A v \in S : Before(d, c, S)[v] = "owned"
  BY <1>1, <1>3 DEF Before, Has
<1>6. Before(d, c, S) = After(d, c, S)
  <2>1. \A v \in Services : After(d, c, S)[v] = Before(d, c, S)[v]
    BY <1>5 DEF After
  <2>2. After(d, c, S) \in Exposure
    BY <1>1, <1>3, PlanTypes
  <2> QED BY <1>4, <2>1, <2>2 DEF Exposure
<1>7. ~ RepairNeeded(d, c)
  BY <1>2, <1>6 DEF RepairNeeded, job, S
<1> QED BY <1>7 DEF Resume, d

(* A repair that writes leaves its client settled.                         *)
LEMMA RepairSettles ==
  ASSUME DocInv, NEW c \in Clients, Repair(c), file' # file
  PROVE  Settled(c)'
<1> DEFINE
      d == Load(file)
      j == CurrentJob(d, c)
      job == d.jobs[j]
      S == BindingsOf(job)
      now == ServicesFromState(d, job)
      after == After(d, c, S)
      x == Rewritten(c)
      repaired == [client |-> c, selected |-> now, digest |-> after]
      f == Normalized(x, NoJob)
      e == Normalized(f, NoJob)
<1>1. /\ d \in Document /\ Coherent(d) /\ j \in JobsOf(d, c) /\ job \in Job
      /\ S \in SUBSET Services /\ now \in Seq(Identity) /\ after \in Exposure
      /\ ~ Blocked(d, c, S) /\ readback' = readback
      /\ WriteConfig(c, after) /\ file' = f
      /\ x \in Document /\ x.init = "present"
      /\ x.jobs = [d.jobs EXCEPT ![j] = repaired]
      /\ JobsOf(d, c) = JobsOf(x, c)
  BY RepairIs
<1>2. IF c = Pi
      THEN \A v \in {now[k].service : k \in 1 .. Len(now)} :
             \E k \in 1 .. Len(now) :
                now[k].service = v /\ x.services[v] = Activated(d, c, now[k])
      ELSE x.services = d.services
  BY RepairIs
<1>3. /\ DocTypeOK /\ file \in Document /\ Loadable(file) /\ d.jobs = file.jobs
      /\ JobsOf(file, c) = JobsOf(d, c)
  <2>1. DocTypeOK /\ file \in Document /\ Loadable(file) /\ d = Normalized(file, NoJob)
    BY DEF DocInv, DocTypeOK, Repair, Load, Loadable
  <2>2. d.jobs = file.jobs
    BY <2>1, NormalizedIs
  <2> HIDE DEF d
  <2> QED BY <2>1, <2>2 DEF JobsOf
<1>4. j = Latest(file, c, NoJob)
  <2> HIDE DEF j
  <2>1. JobsOf(file, c) # {}
    BY <1>1, <1>3
  <2> QED BY <1>3, <2>1, ReadsJob DEF j
<1>5. PICK h \in Nat :
        /\ h <= Len(now)
        /\ \A k \in 1 .. Len(now) :
             /\ now[k].service \in BindingsOf(job)
             /\ now[k].service \in Recorded(d) <=> k <= h
             /\ now[k] = IF k <= h THEN OnRecord(d, now[k].service)
                         ELSE FromCatalog(now[k].service)
  <2> HIDE DEF d, job
  <2> QED BY <1>1, <1>3, ServicesNow
<1> HIDE DEF d, j, job, now, after, x
<1>6. /\ f \in Document /\ f.jobs = x.jobs /\ f.services = x.services /\ f.init = "present"
  BY <1>1, NormalizedIs
<1>7. f # NoDocument /\ Loadable(f) /\ Load(f) = e
  <2>1. f # NoDocument
    BY <1>6, NamesAssumption
  <2> HIDE DEF f
  <2> QED BY <1>6, <2>1 DEF Loadable, Load
<1>8. e \in Document /\ e.jobs = x.jobs /\ e.services = x.services
  <2> HIDE DEF f
  <2> QED BY <1>6, NormalizedIs
<1> HIDE DEF e, f
<1>9. CurrentJob(e, c) = j
  <2>1. JobsOf(f, c) = JobsOf(file, c)
    BY <1>1, <1>3, <1>6 DEF JobsOf
  <2>2. JobsOf(f, c) # {}
    BY <1>1, <1>3, <2>1
  <2>3. CurrentJob(e, c) = Latest(f, c, NoJob)
    BY <1>6, <1>7, <2>2, ReadsJob
  <2> QED BY <1>4, <2>1, <2>3 DEF Latest
<1>10. j \in Jobs /\ e.jobs[j] = repaired
  <2>1. j \in Jobs
    BY <1>1 DEF JobsOf
  <2> HIDE DEF repaired
  <2> QED BY <1>1, <1>8, <2>1 DEF Document
<1>11. repaired \in Job /\ repaired.selected = now
  BY <1>1 DEF Job
<1>12. BindingsOf(repaired) = {now[k].service : k \in 1 .. Len(now)}
  BY DEF BindingsOf
<1> HIDE DEF repaired
<1>13. BindingsOf(repaired) \subseteq S
  BY <1>5, <1>12 DEF S
<1>14. \A k \in 1 .. Len(now) : now[k] \in Identity /\ now[k].service \in Services
  <2>1. now \in Seq(Identity)
    BY <1>1
  <2>2. \A k \in 1 .. Len(now) : now[k] \in Identity
    BY <2>1
  <2> QED BY <2>2 DEF Identity
<1>15. ASSUME c # Pi
       PROVE  AsTheyAre(e, now) /\ \A v \in BindingsOf(repaired) : config'[c][v] = "owned"
  <2>1. Recorded(e) = Recorded(d) /\ \A v \in Services : OnRecord(e, v) = OnRecord(d, v)
    BY <1>2, <1>8, <1>15 DEF Recorded, OnRecord
  <2>2. AsTheyAre(e, now)
    BY <1>5, <1>14, <2>1 DEF AsTheyAre
  <2>3. \A v \in S : after[v] = "owned"
    BY <1>1 DEF after, After, Blocked
  <2>4. config' = [config EXCEPT ![c] = after] /\ config \in [Clients -> Exposure]
    BY <1>1, <1>3, <1>15 DEF WriteConfig, DocTypeOK
  <2>5. \A v \in S : config'[c][v] = "owned"
    BY <2>3, <2>4
  <2> QED BY <1>13, <2>2, <2>5
<1>16. ASSUME c = Pi
       PROVE  AsTheyAre(e, now) /\ \A v \in BindingsOf(repaired) : v \in ServicesOn(e, Pi)
  <2>1. ASSUME NEW k \in 1 .. Len(now)
        PROVE  /\ now[k].service \in ServicesOn(e, Pi) /\ now[k].service \in Recorded(e)
               /\ now[k] = OnRecord(e, now[k].service)
    <3> DEFINE v == now[k].service
    <3>1. PICK m \in 1 .. Len(now) :
             now[m].service = v /\ x.services[v] = Activated(d, c, now[m])
      BY <1>2, <1>16
    <3>2. now[m] = now[k]
      BY <1>5, <3>1
    <3>3. e.services[v] = Activated(d, c, now[k])
      BY <1>8, <3>1, <3>2
    <3>4. now[k] \in Identity /\ v \in Services
      BY <1>14
    <3>5. e.services[v] # NoRecord
      BY <1>1, <3>3, <3>4, ActivatedTypes, NamesAssumption
    <3>6. e.services[v].on[Pi] = "installed"
      BY <1>16, <3>3 DEF Activated
    <3>7. Inherited(d, now[k]) = now[k].server
      <4>1. v \in Recorded(d) <=> d.services[v] # NoRecord
        BY <3>4 DEF Recorded
      <4>2. v \in Recorded(d) => now[k] = OnRecord(d, v)
        BY <1>5
      <4>3. v \in Recorded(d) => now[k].server = d.services[v].server
        BY <4>2 DEF OnRecord
      <4> QED BY <4>1, <4>3 DEF Inherited
    <3>8. OnRecord(e, v) = now[k]
      <4>1. OnRecord(e, v) = [service |-> v, digest |-> now[k].digest, server |-> now[k].server]
        BY <3>3, <3>7 DEF OnRecord, Activated
      <4> QED BY <3>4, <4>1 DEF Identity
    <3> QED BY <3>4, <3>5, <3>6, <3>8 DEF ServicesOn, Recorded
  <2>2. AsTheyAre(e, now)
    <3>1. Len(now) \in Nat /\ \A k \in 1 .. Len(now) : k <= Len(now)
      BY <1>1
    <3>2. \A k \in 1 .. Len(now) :
             /\ now[k].service \in Recorded(e) <=> k <= Len(now)
             /\ now[k] = IF k <= Len(now) THEN OnRecord(e, now[k].service)
                         ELSE FromCatalog(now[k].service)
      BY <2>1, <3>1
    <3> QED BY <3>1, <3>2 DEF AsTheyAre
  <2>3. \A v \in BindingsOf(repaired) : v \in ServicesOn(e, Pi)
    BY <1>12, <2>1
  <2> QED BY <2>2, <2>3
<1>17. /\ AsTheyAre(e, now)
       /\ \A v \in BindingsOf(repaired) :
             IF c = Pi THEN v \in ServicesOn(e, Pi) ELSE config'[c][v] = "owned"
  BY <1>15, <1>16
<1>18. PICK E, r : E = e /\ r = repaired
  OBVIOUS
<1>19. /\ Load(file') = E /\ E.jobs[CurrentJob(E, c)] = r
       /\ E \in Document /\ r \in Job /\ AsTheyAre(E, r.selected)
       /\ \A v \in BindingsOf(r) :
             IF c = Pi THEN v \in ServicesOn(E, Pi) ELSE config'[c][v] = "owned"
  BY <1>1, <1>7, <1>8, <1>9, <1>10, <1>11, <1>17, <1>18
<1>20. AsTheyAre(E, r.selected)'
  BY <1>1, <1>19 DEF AsTheyAre, FromCatalog
<1>21. \A v \in BindingsOf(r) : Has(E, c, v)'
  BY <1>19 DEF Has
<1> QED BY <1>19, <1>20, <1>21 DEF Settled

(* A repair that writes leaves nothing to repair.                          *)
THEOREM RepairsSettle == DocSpec => WrittenRepairSettles
<1>1. DocInv /\ [DocNext]_docVars
      => [\A c \in Clients : Repair(c) /\ file' # file => Settled(c)']_docVars
  BY RepairSettles
<1>2. DocSpec => []NothingToRepair
  <2>1. DocInv => NothingToRepair
    BY SettledHelps DEF DocInv
  <2> QED BY <2>1, DocInvariance, PTL
<1>3. [\A c \in Clients : Repair(c) /\ file' # file => Settled(c)']_docVars /\ NothingToRepair'
      => [\A c \in Clients :
            Repair(c) /\ file' # file => (Resume(Load(file), c) # "repair")']_docVars
  BY DEF NothingToRepair
<1> QED BY <1>1, <1>2, <1>3, DocInvariance, PTL DEF DocSpec, WrittenRepairSettles
===============================================================================
