------------------------------ MODULE StateStore ------------------------------
(***************************************************************************)
(* The project-state store of scripts/control_plane_project_state.py: the  *)
(* lock file of state_lock, its stale-lock recovery, and the               *)
(* read-modify-write that callers of write_state_atomic perform.  One step *)
(* per system call that another process can observe.                       *)
(*                                                                         *)
(* Abstractions.  A state document is the set of updates it incorporates.  *)
(* Revision 0 stands for a missing file, which is also the revision that   *)
(* default_state gives the document a caller starts from.  The lock file   *)
(* carries the process that created it (a history of the model: the code   *)
(* writes its pid and never reads it) and whether its mtime is at least    *)
(* stale_after_seconds old.  A crashed process is replaced by a new one    *)
(* under the same name, which remembers nothing.                           *)
(***************************************************************************)
EXTENDS Naturals, FiniteSets

CONSTANTS Procs,        \* processes that write one project's state
          CasCallers,   \* those that pass expected_revision
          Nobody,       \* "no lock file"
          MaxCommits,   \* bound: replaced files per process
          MaxCrashes,   \* bound: crashes in a behaviour
          Overstay,     \* may a live holder keep the lock past the stale age?
          Rewinds       \* may the file be reset or damaged (once)?

ASSUME ProcsAssumption == CasCallers \subseteq Procs /\ Nobody \notin Procs
ASSUME BoundsAssumption == MaxCommits \in Nat /\ MaxCrashes \in Nat
ASSUME SwitchAssumption == Overstay \in BOOLEAN /\ Rewinds \in BOOLEAN

VARIABLES
    pc,         \* where each process is in write_state_atomic
    lockBy,     \* creator of the lock file, or Nobody
    lockAge,    \* "stale": the lock file is stale_after_seconds old
    stateFile,  \* [rev, doc, form] of context_forge_state.json
    base,       \* what each caller read before it asked for the lock
    cur,        \* the revision read under the lock
    commits,    \* files each process has put in place
    crashes,    \* crashes so far
    mishaps     \* history: what has happened that locking does not survive

vars == <<pc, lockBy, lockAge, stateFile, base, cur, commits,
          crashes, mishaps>>

Update == Procs \X Nat

(* The steps between acquiring the lock file and unlinking it.             *)
Critical == {"read", "replace", "release"}
Label == {"idle", "open", "stat", "break"} \cup Critical

Holders == {p \in Procs : pc[p] \in Critical}

(* A lock file whose creator is no longer inside state_lock.               *)
Orphan == lockBy # Nobody /\ lockBy \notin Holders

(* A document validates, or does not.                                      *)
Form == {"valid", "damaged"}

NoFile == [rev |-> 0, doc |-> {}, form |-> "valid"]

TypeOK ==
    /\ pc \in [Procs -> Label]
    /\ lockBy \in Procs \cup {Nobody}
    /\ lockAge \in {"fresh", "stale"}
    /\ stateFile \in [rev : Nat, doc : SUBSET Update, form : Form]
    /\ base \in [Procs -> [rev : Nat, doc : SUBSET Update, form : Form]]
    /\ cur \in [Procs -> Nat]
    /\ commits \in [Procs -> Nat]
    /\ crashes \in Nat
    /\ mishaps \in SUBSET {"overlap", "overstay", "rewind"}

Init ==
    /\ pc = [p \in Procs |-> "idle"]
    /\ lockBy = Nobody
    /\ lockAge = "fresh"
    /\ stateFile \in {NoFile, [NoFile EXCEPT !.rev = 1]}
    /\ base = [p \in Procs |-> NoFile]
    /\ cur = [p \in Procs |-> 0]
    /\ commits = [p \in Procs |-> 0]
    /\ crashes = 0
    /\ mishaps = {}

Goto(p, label) == pc' = [pc EXCEPT ![p] = label]

-------------------------------------------------------------------------------
(* The caller: read_or_default, then write_state_atomic.                   *)

(* A caller reads the document it is going to change.  It takes no lock.   *)
(* A damaged file is an error to every caller but the repairing ones,      *)
(* which pass allow_invalid_existing and rebuild the document from what is *)
(* left of it (repair) or from nothing (apply).                            *)
Begin(p) ==
    /\ pc[p] = "idle"
    /\ \/ /\ stateFile.form = "valid"
          /\ base' = [base EXCEPT ![p] = stateFile]
       \/ /\ stateFile.form = "damaged"
          /\ \E left \in {stateFile.doc, {}} :
               base' = [base EXCEPT ![p] =
                          [rev |-> 0, doc |-> left, form |-> "damaged"]]
    /\ Goto(p, "open")
    /\ UNCHANGED <<lockBy, lockAge, stateFile, cur, commits, crashes,
                   mishaps>>

(* Variant: O_EXCL forgotten, so a file that is there is opened as well.    *)
OpenLockNotExclusive(p) ==
    /\ pc[p] = "open"
    /\ lockBy' = p
    /\ lockAge' = "fresh"
    /\ Goto(p, "read")
    /\ UNCHANGED <<stateFile, base, cur, commits, crashes, mishaps>>

(* os.open(lock_path, O_CREAT | O_EXCL): creates the file or finds it.     *)
OpenLock(p) ==
    /\ pc[p] = "open"
    /\ \/ /\ lockBy = Nobody
          /\ lockBy' = p
          /\ lockAge' = "fresh"
          /\ Goto(p, "read")
       \/ /\ lockBy # Nobody
          /\ Goto(p, "stat")
          /\ UNCHANGED <<lockBy, lockAge>>
    /\ UNCHANGED <<stateFile, base, cur, commits, crashes, mishaps>>

(* Variant: a stale lock raises like a fresh one.                          *)
StatLockNoRecovery(p) ==
    /\ pc[p] = "stat"
    /\ IF lockBy = Nobody THEN Goto(p, "open") ELSE Goto(p, "idle")
    /\ UNCHANGED <<lockBy, lockAge, stateFile, base, cur, commits, crashes,
                   mishaps>>

(* lock_path.stat(): gone, try again; stale, recover it; fresh, raise      *)
(* StateLockError to the caller.                                           *)
StatLock(p) ==
    /\ pc[p] = "stat"
    /\ \/ lockBy = Nobody /\ Goto(p, "open") /\ UNCHANGED mishaps
       \/ /\ lockBy # Nobody /\ lockAge = "stale"
          /\ Goto(p, "break")
          /\ mishaps' = IF \E q \in Procs : pc[q] = "break"
                          THEN mishaps \cup {"overlap"} ELSE mishaps
       \/ lockBy # Nobody /\ lockAge = "fresh" /\ Goto(p, "idle") /\ UNCHANGED mishaps
    /\ UNCHANGED <<lockBy, lockAge, stateFile, base, cur, commits,
                   crashes>>

(* lock_path.unlink() of a lock judged stale by an earlier stat: whatever  *)
(* file is there now is removed, or none.                                  *)
BreakLock(p) ==
    /\ pc[p] = "break"
    /\ lockBy' = Nobody
    /\ lockAge' = "fresh"
    /\ Goto(p, "open")
    /\ UNCHANGED <<stateFile, base, cur, commits, crashes, mishaps>>

-------------------------------------------------------------------------------
(* Inside the lock.                                                        *)

(* load_state under the lock: a damaged file raises unless the caller is   *)
(* repairing it, and then counts as no file.                               *)
Readable(p) == stateFile.form = "valid" \/ base[p].form = "damaged"

CurrentRevision == IF stateFile.form = "valid" THEN stateFile.rev ELSE 0

(* Variant: expected_revision is accepted and never compared.              *)
RevisionUnchecked(p) == TRUE

(* The expected_revision test.  A missing file has revision None, which no *)
(* number equals.                                                          *)
RevisionAccepted(p) ==
    p \in CasCallers =>
        CurrentRevision # 0 /\ CurrentRevision = base[p].rev

(* Read the current revision, test it, number the next document, validate  *)
(* it and write it to a temporary file, which nobody else reads.  Each of  *)
(* these can fail, the validation for any document, and a failure leaves   *)
(* through the finally clause with the file as it was.                     *)
ReadCurrent(p) ==
    /\ pc[p] = "read"
    /\ cur' = [cur EXCEPT ![p] = CurrentRevision]
    /\ \/ Readable(p) /\ RevisionAccepted(p) /\ Goto(p, "replace")
       \/ Goto(p, "release")
    /\ UNCHANGED <<lockBy, lockAge, stateFile, base, commits, crashes,
                   mishaps>>

(* Variants: the revision follows the one the caller read, not the one     *)
(* found under the lock; the revision counts down.                         *)
NextDocumentFromBase(p) ==
    [rev |-> base[p].rev + 1,
     doc |-> base[p].doc \cup {<<p, commits[p] + 1>>},
     form |-> "valid"]

NextDocumentCountsDown(p) ==
    [rev |-> cur[p] - 1,
     doc |-> base[p].doc \cup {<<p, commits[p] + 1>>},
     form |-> "valid"]

NextDocument(p) ==
    [rev |-> cur[p] + 1,
     doc |-> base[p].doc \cup {<<p, commits[p] + 1>>},
     form |-> "valid"]

(* os.replace(tmp_path, path): the new document is in place.               *)
Replace(p) ==
    /\ pc[p] = "replace"
    /\ commits[p] < MaxCommits
    /\ stateFile' = NextDocument(p)
    /\ commits' = [commits EXCEPT ![p] = @ + 1]
    /\ Goto(p, "release")
    /\ UNCHANGED <<lockBy, lockAge, base, cur, crashes, mishaps>>

(* os.replace fails: the temporary file is unlinked, the old one stays.    *)
WriteFails(p) ==
    /\ pc[p] = "replace"
    /\ Goto(p, "release")
    /\ UNCHANGED <<lockBy, lockAge, stateFile, base, cur, commits, crashes,
                   mishaps>>

(* The finally clause of state_lock: unlink the path, whoever created it.  *)
ReleaseLock(p) ==
    /\ pc[p] = "release"
    /\ lockBy' = Nobody
    /\ lockAge' = "fresh"
    /\ Goto(p, "idle")
    /\ UNCHANGED <<stateFile, base, cur, commits, crashes, mishaps>>

-------------------------------------------------------------------------------
(* The environment.                                                        *)

(* A process dies; its lock file stays behind (and its temporary file,     *)
(* which nothing reads or collects).                                       *)
Crash(p) ==
    /\ pc[p] # "idle"
    /\ crashes < MaxCrashes
    /\ crashes' = crashes + 1
    /\ Goto(p, "idle")
    /\ UNCHANGED <<lockBy, lockAge, stateFile, base, cur, commits,
                   mishaps>>

(* The lock file's mtime comes to be stale_after_seconds in the past.      *)
LockAges ==
    /\ lockBy # Nobody
    /\ lockAge = "fresh"
    /\ Orphan \/ Overstay
    /\ lockAge' = "stale"
    /\ mishaps' = IF Orphan THEN mishaps ELSE mishaps \cup {"overstay"}
    /\ UNCHANGED <<pc, lockBy, stateFile, base, cur, commits, crashes>>

(* reset_current_project unlinks the state file and takes no lock; an      *)
(* editor or an older release leaves a document that does not validate.    *)
Rewind ==
    /\ Rewinds /\ "rewind" \notin mishaps
    /\ stateFile.rev # 0
    /\ \/ stateFile' = NoFile
       \/ stateFile' = [stateFile EXCEPT !.form = "damaged"]
    /\ mishaps' = mishaps \cup {"rewind"}
    /\ UNCHANGED <<pc, lockBy, lockAge, base, cur, commits, crashes>>

Step(p) ==
    \/ Begin(p) \/ OpenLock(p) \/ StatLock(p) \/ BreakLock(p)
    \/ ReadCurrent(p) \/ Replace(p) \/ WriteFails(p) \/ ReleaseLock(p)

Next ==
    \/ \E p \in Procs : Step(p) \/ Crash(p)
    \/ LockAges
    \/ Rewind

Spec == Init /\ [][Next]_vars

(* Every process that runs keeps running and keeps calling, and time       *)
(* passes: a lock file nobody holds does grow old.                         *)
FairSpec ==
    /\ Spec
    /\ \A p \in Procs : WF_vars(Step(p))
    /\ WF_vars(LockAges)

-------------------------------------------------------------------------------
(* Properties.                                                             *)

(* At most one process is between creating the lock file and unlinking it. *)
MutualExclusion == \A p, q \in Holders : p = q

(* The only two ways for state_lock to let a second process in: a holder   *)
(* that outlives stale_after_seconds, or two processes that both judge the *)
(* same lock stale before either unlinks it.  A crash alone is survived,   *)
(* by any number of processes, and so are resets and damaged files.        *)
SerializedUnlessLockStolen ==
    mishaps \cap {"overlap", "overstay"} = {} =>
        /\ MutualExclusion
        /\ \A p \in Holders : lockBy = p

(* Every update that was put in place is still in the file: no caller's    *)
(* read-modify-write has overwritten a document it had not read.           *)
NoCommittedUpdateLost ==
    mishaps = {} =>
        \A p \in Procs : \A k \in 1..commits[p] : <<p, k>> \in stateFile.doc

(* A caller that passes expected_revision never overwrites a document it   *)
(* had not read, whatever the callers beside it do.                        *)
CasWriteKeepsUpdates ==
    \A p \in CasCallers :
      mishaps = {} /\ commits'[p] # commits[p]
        => stateFile.doc \subseteq stateFile'.doc

CasNeverClobbers == [][CasWriteKeepsUpdates]_vars

(* The lock, the revision test and the atomic rename together implement    *)
(* the atomic register, until a mishap: each step of a process is a read,  *)
(* a commit or invisible.                                                  *)
A == INSTANCE AtomicStore WITH
       Update <- Procs \X (1..MaxCommits),
       reg <- [rev |-> stateFile.rev, doc |-> stateFile.doc],
       seen <- [p \in Procs |-> [rev |-> base[p].rev, doc |-> base[p].doc]]

AtomicUnlessMishap == A!Init /\ [][mishaps' = {} => [A!Next]_(A!vars)]_vars

(* A crash never blocks the state for ever: as long as somebody calls, the *)
(* lock file left behind is recovered.                                     *)
OrphanIsRecovered == Orphan ~> ~Orphan
===============================================================================
